--------------------------- MODULE SubscriberBase ---------------------------
(***************************************************************************)
(* SubscriberBaseT between a source and an application.  Signals of the    *)
(* source, and request and cancel of the application, may come from any    *)
(* thread and become tasks of an executor; only cancelled_ is set at once. *)
(* The subscription of the source is a SubscriptionBase with an executor   *)
(* of its own.  An executor is a thread that runs its tasks in order       *)
(* (EventBase); between the test of cancelled_ in a task and the callback  *)
(* that follows, other threads go on.  The subscriber stays referenced.    *)
(***************************************************************************)
EXTENDS Naturals, Sequences

CONSTANTS
    MaxSignals,     \* bound on signals of the source after onSubscribe
    MaxRequests     \* bound on calls of request(n)

ASSUME SubscriberBaseAssumption == {MaxSignals, MaxRequests} \subseteq Nat

VARIABLES
    cancelled,      \* cancelled_
    original,       \* originalSubscription_: "unset", "set" or "reset"
    tasks,          \* of the subscriber's executor
    callback,       \* what a task is about to call, or "none"
    upstreamTasks,  \* of the executor of the source's subscription
    upstream,       \* calls of its requestImpl and cancelImpl
    source,         \* signals the source has sent
    seen,           \* callbacks of the application
    shim,           \* the application has the subscription
    requests,       \* calls of request(n)
    left,           \* thread of the application's first cancel, or "none"
    late,           \* callbacks that began after it
    failed          \* a CHECK, or a call through a null originalSubscription_

vars == <<cancelled, original, tasks, callback, upstreamTasks, upstream, source,
          seen, shim, requests, left, late, failed>>

Terminals == {"onComplete", "onError"}

Init ==
    /\ cancelled = FALSE /\ original = "unset"
    /\ tasks = << >> /\ callback = "none"
    /\ upstreamTasks = << >> /\ upstream = << >> /\ source = << >>
    /\ seen = << >> /\ shim = FALSE /\ requests = 0
    /\ left = "none" /\ late = 0 /\ failed = FALSE

-----------------------------------------------------------------------------
(* The source: onSubscribe first, then values and ends of racing threads.  *)
Signal(signal) ==
    /\ IF signal = "onSubscribe" THEN source = << >>
       ELSE source # << >> /\ Len(source) <= MaxSignals
    /\ source' = Append(source, signal)
    /\ tasks' = Append(tasks, signal)
    /\ UNCHANGED <<cancelled, original, callback, upstreamTasks, upstream, seen, shim,
                   requests, left, late, failed>>

-----------------------------------------------------------------------------
(* SubscriptionShimImpl, called by the application from a thread.          *)

ShimRequest ==
    /\ requests < MaxRequests
    /\ requests' = requests + 1
    /\ tasks' = Append(tasks, "request")
    /\ UNCHANGED <<cancelled, left>>

(* Mutant of ShimCancel: cancelled_ is not looked at.                      *)
ShimCancelAlways(thread) ==
    /\ left' = IF left = "none" THEN thread ELSE left
    /\ cancelled' = TRUE
    /\ tasks' = Append(tasks, "cancel")
    /\ UNCHANGED requests

ShimCancel(thread) ==
    /\ left' = IF left = "none" THEN thread ELSE left
    /\ cancelled' = TRUE
    /\ tasks' = IF cancelled THEN tasks ELSE Append(tasks, "cancel")
    /\ UNCHANGED requests

(* The application asks for values or leaves, outside any callback.        *)
ApplicationCalls ==
    /\ shim
    /\ ShimRequest \/ (left = "none" /\ ShimCancel("other"))
    /\ UNCHANGED <<original, callback, upstreamTasks, upstream, source, seen, shim,
                   late, failed>>

-----------------------------------------------------------------------------
(* Tasks.  Each tests cancelled_ and either ends or goes on to its call.   *)

(* originalSubscription_->request(n) or cancel(): SubscriptionBase makes   *)
(* it a task of its executor.                                              *)
CallOriginal(call) ==
    IF original = "set"
    THEN upstreamTasks' = Append(upstreamTasks, call) /\ UNCHANGED failed
    ELSE failed' = TRUE /\ UNCHANGED upstreamTasks

RunOnSubscribe ==
    /\ failed' = (failed \/ original = "set")
    /\ original' = "set"
    /\ callback' = IF cancelled THEN "none" ELSE "onSubscribe"
    /\ UNCHANGED <<cancelled, upstreamTasks>>

(* Mutant of RunOnNext: a value is handed on whatever happened before.     *)
RunOnNextAlways ==
    /\ callback' = "onNext"
    /\ UNCHANGED <<cancelled, original, upstreamTasks, failed>>

RunOnNext ==
    /\ callback' = IF cancelled THEN "none" ELSE "onNext"
    /\ UNCHANGED <<cancelled, original, upstreamTasks, failed>>

(* cancelled_.exchange(true).                                              *)
RunTerminal(signal) ==
    /\ callback' = IF cancelled THEN "none" ELSE signal
    /\ cancelled' = TRUE
    /\ UNCHANGED <<original, upstreamTasks, failed>>

RunRequest ==
    /\ IF cancelled THEN UNCHANGED <<upstreamTasks, failed>> ELSE CallOriginal("request")
    /\ UNCHANGED <<cancelled, original, callback>>

RunCancel ==
    /\ CallOriginal("cancel")
    /\ original' = "reset"
    /\ UNCHANGED <<cancelled, callback>>

RunTask ==
    /\ callback = "none" /\ tasks # << >>
    /\ \/ Head(tasks) = "onSubscribe" /\ RunOnSubscribe
       \/ Head(tasks) = "onNext" /\ RunOnNext
       \/ Head(tasks) \in Terminals /\ RunTerminal(Head(tasks))
       \/ Head(tasks) = "request" /\ RunRequest
       \/ Head(tasks) = "cancel" /\ RunCancel
    /\ tasks' = Tail(tasks)
    /\ UNCHANGED <<upstream, source, seen, shim, requests, left, late>>

(***************************************************************************)
(* The task calls onSubscribeImpl, onNextImpl, onCompleteImpl or           *)
(* onErrorImpl.  The application may request or cancel inside.  After the  *)
(* last two originalSubscription_ is cancelled and reset.                  *)
(***************************************************************************)
Callback ==
    /\ callback # "none"
    /\ seen' = Append(seen, callback)
    /\ shim' = TRUE
    /\ late' = late + (IF left = "none" THEN 0 ELSE 1)
    /\ \/ UNCHANGED <<cancelled, tasks, requests, left>>
       \/ ShimRequest
       \/ ShimCancel("executor")
    /\ IF callback \in Terminals THEN CallOriginal("cancel") /\ original' = "reset"
       ELSE UNCHANGED <<original, upstreamTasks, failed>>
    /\ callback' = "none"
    /\ UNCHANGED <<upstream, source>>

(* SubscriptionBase: requestImpl and cancelImpl in the other executor.     *)
RunUpstreamTask ==
    /\ upstreamTasks # << >>
    /\ upstream' = Append(upstream, Head(upstreamTasks))
    /\ upstreamTasks' = Tail(upstreamTasks)
    /\ UNCHANGED <<cancelled, original, tasks, callback, source, seen, shim, requests,
                   left, late, failed>>

Next ==
    \/ \E signal \in {"onSubscribe", "onNext"} \cup Terminals : Signal(signal)
    \/ ApplicationCalls
    \/ RunTask
    \/ Callback
    \/ RunUpstreamTask

(* Executors run what they were given.                                     *)
Spec ==
    /\ Init /\ [][Next]_vars
    /\ WF_vars(RunTask) /\ WF_vars(Callback) /\ WF_vars(RunUpstreamTask)

-----------------------------------------------------------------------------
(***************************************************************************)
(* "Once the user cancels ... no more callbacks will be called": none when *)
(* the application cancels inside a callback; when it cancels in another   *)
(* thread at most the one that had already passed its test of cancelled_.  *)
(* The first callback is onSubscribe and none follows a terminal one, also *)
(* when threads of the source race to send values and ends.                *)
(***************************************************************************)
NoSignalAfterCancel ==
    /\ late <= IF left = "other" THEN 1 ELSE 0
    /\ seen # << >> => Head(seen) = "onSubscribe"
    /\ \A i \in DOMAIN seen :
          /\ seen[i] \in Terminals => i = Len(seen)
          /\ seen[i] = "onSubscribe" => i = 1

(***************************************************************************)
(* Whoever ends the subscription (a terminal signal, cancel of the         *)
(* application, or both at once), the source's subscription is cancelled,  *)
(* once, it is asked for nothing after that, and no call goes through the  *)
(* reference that was reset.                                               *)
(***************************************************************************)
UpstreamReleased ==
    cancelled ~> [](/\ ~failed
                    /\ upstream # << >>
                    /\ \A i \in DOMAIN upstream : upstream[i] = "cancel" <=> i = Len(upstream))

=============================================================================
