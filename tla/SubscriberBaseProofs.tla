----------------------- MODULE SubscriberBaseProofs -----------------------
(***************************************************************************)
(* Proofs about SubscriberBase, for any number of signals and requests:    *)
(* the application sees a well-formed sequence of callbacks whatever       *)
(* threads race, and the source's subscription is never called through a   *)
(* reference that is unset or was reset.  Both come from one invariant,    *)
(* which follows originalSubscription_ from "unset" over "set" to "reset". *)
(***************************************************************************)
EXTENDS SubscriberBase, SequenceTheorems, TLAPS

Signals == {"onSubscribe", "onNext"} \cup Terminals

Tasks == Signals \cup {"request", "cancel"}

(* The values the variables of SubscriberBaseT take.                       *)
TypeOK ==
    /\ cancelled \in BOOLEAN /\ shim \in BOOLEAN /\ failed \in BOOLEAN
    /\ original \in {"unset", "set", "reset"}
    /\ tasks \in Seq(Tasks)
    /\ callback \in Signals \cup {"none"}
    /\ upstreamTasks \in Seq({"request", "cancel"})
    /\ upstream \in Seq({"request", "cancel"})
    /\ source \in Seq(Signals)
    /\ seen \in Seq(Signals)
    /\ requests \in Nat /\ late \in Nat
    /\ left \in {"none", "other", "executor"}

(***************************************************************************)
(* Until the task of onSubscribe has run nothing else can have happened:   *)
(* the application has no subscription, and the task is first in line.     *)
(***************************************************************************)
SubscribesFirst ==
    /\ original = "unset" =>
          /\ callback = "none" /\ seen = << >> /\ ~shim /\ ~cancelled
          /\ tasks = << >> <=> source = << >>
          /\ tasks # << >> => tasks[1] = "onSubscribe"
    /\ original # "unset" =>
          /\ source # << >>
          /\ \A i \in DOMAIN tasks : tasks[i] # "onSubscribe"
          /\ seen = << >> <=> callback = "onSubscribe"
    /\ \A i \in DOMAIN tasks : tasks[i] = "onSubscribe" => i = 1
    /\ callback = "onSubscribe" => ~shim /\ ~cancelled
    /\ callback # "none" => original = "set"

(***************************************************************************)
(* originalSubscription_ is reset by a task of cancel or by the task of a    *)
(* terminal signal, never by both, for each of them needs to be the one    *)
(* that found cancelled_ FALSE.                                            *)
(***************************************************************************)
OneReleases ==
    /\ original = "reset" => cancelled /\ \A i \in DOMAIN tasks : tasks[i] # "cancel"
    /\ callback \in Terminals => cancelled /\ \A i \in DOMAIN tasks : tasks[i] # "cancel"
    /\ \A i \in DOMAIN tasks : tasks[i] = "cancel" => cancelled /\ original = "set"
    /\ \A i, j \in DOMAIN tasks : tasks[i] = "cancel" /\ tasks[j] = "cancel" => i = j

(* What the application has seen, and may yet see, given when it left.     *)
QuietOnceLeft ==
    /\ left # "none" => cancelled
    /\ left # "other" => late = 0
    /\ left = "executor" => callback = "none"
    /\ left = "other" => late <= 1
    /\ left = "other" /\ callback # "none" => late = 0
    /\ \A i \in DOMAIN seen :
          /\ seen[i] \in Terminals => i = Len(seen) /\ cancelled /\ callback = "none"
          /\ seen[i] = "onSubscribe" <=> i = 1

(* Calls of the source's subscription, those still in its executor too.    *)
Calls == upstream \o upstreamTasks

(* A call of cancel is the last one and is made when the reference is reset. *)
CancelIsLast ==
    /\ ~failed
    /\ \A i \in DOMAIN Calls : Calls[i] = "cancel" => i = Len(Calls) /\ original = "reset"

IInv == TypeOK /\ SubscribesFirst /\ OneReleases /\ QuietOnceLeft /\ CancelIsLast

(***************************************************************************)
(* The safety half of UpstreamReleased: no CHECK fails and no call goes    *)
(* through a null originalSubscription_, and the source is not asked for   *)
(* anything, nor cancelled again, once it was cancelled.                   *)
(***************************************************************************)
ReleasedOnce ==
    /\ ~failed
    /\ \A i \in DOMAIN upstream : upstream[i] = "cancel" => i = Len(upstream)

-----------------------------------------------------------------------------
(* What Append, Tail and \o do to the elements.                            *)

(* A task or a call is put at the end of a queue.                          *)
LEMMA AppendFacts ==
    ASSUME NEW S, NEW s \in Seq(S), NEW x \in S
    PROVE  /\ Append(s, x) \in Seq(S)
           /\ Append(s, x) # << >>
           /\ Len(Append(s, x)) = Len(s) + 1
           /\ DOMAIN s = 1..Len(s) /\ Len(s) \in Nat
           /\ DOMAIN Append(s, x) = 1..(Len(s) + 1)
           /\ \A i \in 1..Len(s) : Append(s, x)[i] = s[i]
           /\ Append(s, x)[Len(s) + 1] = x
    OBVIOUS

(* The executor takes the first task of its queue.                         *)
LEMMA TailFacts ==
    ASSUME NEW S, NEW s \in Seq(S), s # << >>
    PROVE  /\ Tail(s) \in Seq(S)
           /\ Head(s) = s[1] /\ Head(s) \in S
           /\ Len(s) \in Nat \ {0} /\ DOMAIN s = 1..Len(s)
           /\ Len(Tail(s)) = Len(s) - 1
           /\ DOMAIN Tail(s) = 1..(Len(s) - 1)
           /\ \A i \in 1..(Len(s) - 1) : Tail(s)[i] = s[i + 1] /\ i + 1 \in 1..Len(s)
    OBVIOUS

(* A call of the source's subscription is the last of all its calls.       *)
LEMMA AppendCall ==
    ASSUME NEW S, NEW s \in Seq(S), NEW t \in Seq(S), NEW x \in S
    PROVE  s \o Append(t, x) = Append(s \o t, x)
    OBVIOUS

(* Running a call moves it from one queue to the other.                    *)
LEMMA MoveCall ==
    ASSUME NEW S, NEW s \in Seq(S), NEW t \in Seq(S), t # << >>
    PROVE  Append(s, Head(t)) \o Tail(t) = s \o t
    OBVIOUS

-----------------------------------------------------------------------------
(* The invariant holds initially and every action keeps it.                *)

(* A new SubscriberBaseT satisfies the invariant.                          *)
LEMMA InitEstablishes == Init => IInv
<1> SUFFICES ASSUME Init PROVE IInv
  OBVIOUS
<1>1. TypeOK
  BY EmptySeq DEF Init, TypeOK
<1>2. SubscribesFirst /\ OneReleases /\ QuietOnceLeft
  BY DEF Init, SubscribesFirst, OneReleases, QuietOnceLeft, Terminals
<1>3. CancelIsLast
  <2>1. Calls = << >>
    BY DEF Init, Calls
  <2> QED BY <2>1 DEF Init, CancelIsLast
<1> QED BY <1>1, <1>2, <1>3 DEF IInv

(* The subscriber's executor has got task t on top of those it had.        *)
Added(t) ==
    /\ tasks' \in Seq(Tasks)
    /\ tasks' # << >>
    /\ tasks'[1] = IF tasks = << >> THEN t ELSE tasks[1]
    /\ \A i \in DOMAIN tasks' :
          \/ i \in DOMAIN tasks /\ tasks'[i] = tasks[i]
          \/ i = Len(tasks) + 1 /\ tasks'[i] = t

(* Adding a task to the subscriber's executor leaves the others in place.  *)
LEMMA TaskAdded ==
    ASSUME TypeOK, NEW t \in Tasks, tasks' = Append(tasks, t)
    PROVE  Added(t)
<1>1. tasks \in Seq(Tasks)
  BY DEF TypeOK
<1>2. /\ tasks' \in Seq(Tasks) /\ tasks' # << >> /\ Len(tasks) \in Nat
      /\ DOMAIN tasks' = 1..(Len(tasks) + 1) /\ DOMAIN tasks = 1..Len(tasks)
      /\ \A i \in 1..Len(tasks) : tasks'[i] = tasks[i]
      /\ tasks'[Len(tasks) + 1] = t
  BY <1>1, AppendFacts
<1>3. tasks'[1] = IF tasks = << >> THEN t ELSE tasks[1]
  BY <1>1, <1>2, EmptySeq
<1>4. \A i \in 1..(Len(tasks) + 1) : i \in 1..Len(tasks) \/ i = Len(tasks) + 1
  BY <1>2
<1> QED BY <1>2, <1>3, <1>4 DEF Added

(* A signal of the source, from any thread, becomes the last task.         *)
LEMMA SignalPreserves ==
    ASSUME IInv, NEW signal \in Signals, Signal(signal)
    PROVE  IInv'
<1> USE DEF IInv
<1>1. Added(signal)
  BY TaskAdded DEF Signal, Tasks
<1>2. source' \in Seq(Signals) /\ source' # << >>
  BY AppendFacts DEF Signal, TypeOK
<1>3. TypeOK'
  BY <1>1, <1>2 DEF Signal, TypeOK, Added
<1>4. SubscribesFirst'
  <2>1. signal = "onSubscribe" => tasks = << >> /\ Len(tasks) = 0 /\ original = "unset"
    BY EmptySeq DEF Signal, SubscribesFirst
  <2>2. tasks = << >> /\ original = "unset" => signal = "onSubscribe"
    BY DEF Signal, SubscribesFirst
  <2> QED BY <1>1, <1>2, <2>1, <2>2 DEF Signal, SubscribesFirst, Added
<1>5. OneReleases'
  <2>1. signal # "cancel"
    BY DEF Signals, Terminals
  <2> QED BY <1>1, <2>1 DEF Signal, OneReleases, Added
<1>6. QuietOnceLeft' /\ CancelIsLast'
  BY DEF Signal, QuietOnceLeft, CancelIsLast, Calls
<1> QED BY <1>3, <1>4, <1>5, <1>6

(***************************************************************************)
(* The application asks for values or leaves, in a thread of its own.      *)
(***************************************************************************)
LEMMA ApplicationPreserves == IInv /\ ApplicationCalls => IInv'
<1> SUFFICES ASSUME IInv, ApplicationCalls PROVE IInv'
  OBVIOUS
<1> USE DEF IInv
<1>1. original # "unset" /\ callback # "onSubscribe"
  BY DEF SubscribesFirst, ApplicationCalls
<1>2. CASE ShimRequest
  <2>1. Added("request")
    BY <1>2, TaskAdded DEF ShimRequest, Tasks
  <2>2. TypeOK'
    BY <1>2, <2>1 DEF ShimRequest, ApplicationCalls, TypeOK, Added
  <2>3. SubscribesFirst' /\ OneReleases'
    BY <1>1, <1>2, <2>1 DEF ShimRequest, ApplicationCalls, SubscribesFirst, OneReleases,
       Added
  <2>4. QuietOnceLeft' /\ CancelIsLast'
    BY <1>2 DEF ShimRequest, ApplicationCalls, QuietOnceLeft, CancelIsLast, Calls
  <2> QED BY <2>2, <2>3, <2>4
<1>3. CASE left = "none" /\ ShimCancel("other")
  <2>1. CASE cancelled
    BY <1>1, <1>3, <2>1 DEF ShimCancel, ApplicationCalls, TypeOK, SubscribesFirst,
       OneReleases, QuietOnceLeft, CancelIsLast, Calls
  <2>2. CASE ~cancelled
    <3>1. Added("cancel")
      BY <1>3, <2>2, TaskAdded DEF ShimCancel, Tasks
    <3>2. TypeOK'
      BY <1>3, <3>1 DEF ShimCancel, ApplicationCalls, TypeOK, Added
    <3>3. SubscribesFirst'
      BY <1>1, <1>3, <3>1 DEF ShimCancel, ApplicationCalls, SubscribesFirst, Added
    <3>4. OneReleases'
      <4>1. original = "set" /\ callback \notin Terminals
        BY <1>1, <2>2 DEF OneReleases, TypeOK
      <4>2. \A i \in DOMAIN tasks : tasks[i] # "cancel"
        BY <2>2 DEF OneReleases
      <4> QED BY <1>3, <3>1, <4>1, <4>2 DEF ShimCancel, ApplicationCalls, OneReleases, Added
    <3>5. QuietOnceLeft' /\ CancelIsLast'
      BY <1>3, <2>2 DEF ShimCancel, ApplicationCalls, QuietOnceLeft, CancelIsLast, Calls
    <3> QED BY <3>2, <3>3, <3>4, <3>5
  <2> QED BY <2>1, <2>2 DEF TypeOK
<1> QED BY <1>2, <1>3 DEF ApplicationCalls

(* The subscriber's executor has taken its first task.                     *)
Taken ==
    /\ tasks' \in Seq(Tasks)
    /\ 1 \in DOMAIN tasks /\ Head(tasks) = tasks[1]
    /\ \A i \in DOMAIN tasks' : i \in Nat \ {0} /\ i + 1 \in DOMAIN tasks /\ tasks'[i] = tasks[i + 1]

(* Taking the first task of the executor moves the others up.              *)
LEMMA TaskTaken ==
    ASSUME TypeOK, tasks # << >>, tasks' = Tail(tasks)
    PROVE  Taken
<1>1. tasks \in Seq(Tasks)
  BY DEF TypeOK
<1>2. /\ tasks' \in Seq(Tasks) /\ Head(tasks) = tasks[1] /\ Len(tasks) \in Nat \ {0}
      /\ DOMAIN tasks = 1..Len(tasks) /\ DOMAIN tasks' = 1..(Len(tasks) - 1)
      /\ \A i \in 1..(Len(tasks) - 1) : tasks'[i] = tasks[i + 1] /\ i + 1 \in 1..Len(tasks)
  BY <1>1, TailFacts
<1> QED BY <1>2 DEF Taken

(***************************************************************************)
(* request or cancel of the source's subscription, through a reference     *)
(* that is set; a cancel resets it.                                        *)
(***************************************************************************)
LEMMA OriginalCalled ==
    ASSUME TypeOK, CancelIsLast, original = "set", NEW call \in {"request", "cancel"},
           CallOriginal(call), upstream' = upstream,
           original' = IF call = "cancel" THEN "reset" ELSE "set"
    PROVE  CancelIsLast' /\ upstreamTasks' \in Seq({"request", "cancel"}) /\ failed' = failed
<1>1. upstreamTasks' = Append(upstreamTasks, call) /\ failed' = failed
  BY DEF CallOriginal
<1>2. upstreamTasks \in Seq({"request", "cancel"}) /\ upstream \in Seq({"request", "cancel"})
  BY DEF TypeOK
<1>3. upstreamTasks' \in Seq({"request", "cancel"})
  BY <1>1, <1>2, AppendFacts
<1>4. Calls \in Seq({"request", "cancel"})
  BY <1>2, ConcatProperties DEF Calls
<1>5. Calls' = Append(Calls, call)
  BY <1>1, <1>2, AppendCall DEF Calls
<1>6. /\ DOMAIN Calls = 1..Len(Calls) /\ DOMAIN Calls' = 1..(Len(Calls) + 1)
      /\ Len(Calls') = Len(Calls) + 1 /\ Len(Calls) \in Nat
      /\ \A i \in 1..Len(Calls) : Calls'[i] = Calls[i]
      /\ Calls'[Len(Calls) + 1] = call
  BY <1>4, <1>5, AppendFacts
<1>7. \A i \in DOMAIN Calls : Calls[i] # "cancel"
  BY DEF CancelIsLast
<1>8. ~failed'
  BY <1>1 DEF CancelIsLast
<1>9. \A i \in DOMAIN Calls' : Calls'[i] = "cancel" => i = Len(Calls') /\ original' = "reset"
  BY <1>6, <1>7
<1> QED BY <1>1, <1>3, <1>8, <1>9 DEF CancelIsLast

(***************************************************************************)
(* A task runs: it tests cancelled_ and ends, or is about to call the      *)
(* application, or calls the source's subscription.                        *)
(***************************************************************************)
LEMMA RunTaskPreserves == IInv /\ RunTask => IInv'
<1> SUFFICES ASSUME IInv, RunTask PROVE IInv'
  OBVIOUS
<1> USE DEF IInv
<1>1. /\ callback = "none" /\ tasks # << >> /\ tasks' = Tail(tasks)
      /\ UNCHANGED <<upstream, source, seen, shim, requests, left, late>>
  BY DEF RunTask
<1>2. Taken
  BY <1>1, TaskTaken
<1>3. tasks[1] # "onSubscribe" => original # "unset"
  BY <1>1 DEF SubscribesFirst
<1>4. original # "unset" => seen # << >>
  BY <1>1 DEF SubscribesFirst
<1>5. CASE Head(tasks) = "onSubscribe" /\ RunOnSubscribe
  <2>1. original = "unset" /\ ~cancelled /\ ~shim /\ seen = << >> /\ tasks[1] = "onSubscribe"
    BY <1>2, <1>5 DEF SubscribesFirst, Taken
  <2>2. /\ original' = "set" /\ callback' = "onSubscribe" /\ failed' = FALSE
        /\ UNCHANGED <<cancelled, upstreamTasks>>
    BY <1>5, <2>1 DEF RunOnSubscribe, CancelIsLast
  <2>3. TypeOK'
    BY <1>1, <1>2, <2>2 DEF TypeOK, Taken, Signals
  <2>4. SubscribesFirst'
    BY <1>1, <1>2, <2>1, <2>2 DEF SubscribesFirst, Taken
  <2>5. OneReleases'
    BY <1>1, <1>2, <2>1, <2>2 DEF OneReleases, Taken, Terminals
  <2>6. QuietOnceLeft'
    BY <1>1, <2>1, <2>2 DEF QuietOnceLeft
  <2>7. CancelIsLast'
    BY <1>1, <2>1, <2>2 DEF CancelIsLast, Calls
  <2> QED BY <2>3, <2>4, <2>5, <2>6, <2>7
<1>6. CASE Head(tasks) = "onNext" /\ RunOnNext
  <2>1. /\ tasks[1] = "onNext" /\ callback' \in {"none", "onNext"}
        /\ cancelled => callback' = "none"
        /\ UNCHANGED <<cancelled, original, upstreamTasks, failed>>
    BY <1>2, <1>6 DEF RunOnNext, Taken
  <2>2. original # "unset" /\ seen # << >> /\ (callback' # "none" => original = "set")
    BY <1>3, <1>4, <2>1 DEF OneReleases, TypeOK
  <2>3. TypeOK'
    BY <1>1, <1>2, <2>1 DEF TypeOK, Taken, Signals
  <2>4. SubscribesFirst'
    BY <1>1, <1>2, <2>1, <2>2 DEF SubscribesFirst, Taken
  <2>5. OneReleases'
    BY <1>1, <1>2, <2>1, <2>2 DEF OneReleases, Taken, Terminals
  <2>6. QuietOnceLeft'
    BY <1>1, <2>1, <2>2 DEF QuietOnceLeft
  <2>7. CancelIsLast'
    BY <1>1, <2>1, <2>2 DEF CancelIsLast, Calls
  <2> QED BY <2>3, <2>4, <2>5, <2>6, <2>7
<1>7. CASE Head(tasks) \in Terminals /\ RunTerminal(Head(tasks))
  <2>1. /\ tasks[1] \in Terminals /\ callback' = IF cancelled THEN "none" ELSE tasks[1]
        /\ cancelled'
        /\ UNCHANGED <<original, upstreamTasks, failed>>
    BY <1>2, <1>7 DEF RunTerminal, Taken
  <2>2. original # "unset" /\ seen # << >> /\ (callback' # "none" => original = "set")
    BY <1>3, <1>4, <2>1 DEF OneReleases, TypeOK, Terminals
  <2>3. TypeOK'
    BY <1>1, <1>2, <1>7, <2>1 DEF TypeOK, Taken, Signals, RunTerminal
  <2>4. SubscribesFirst'
    BY <1>1, <1>2, <2>1, <2>2 DEF SubscribesFirst, Taken, Terminals
  <2>5. OneReleases'
    BY <1>1, <1>2, <2>1, <2>2 DEF OneReleases, Taken, Terminals
  <2>6. QuietOnceLeft'
    BY <1>1, <2>1, <2>2 DEF QuietOnceLeft, Terminals
  <2>7. CancelIsLast'
    BY <1>1, <2>1, <2>2 DEF CancelIsLast, Calls
  <2> QED BY <2>3, <2>4, <2>5, <2>6, <2>7
<1>8. CASE Head(tasks) = "request" /\ RunRequest
  <2>1. /\ tasks[1] = "request" /\ UNCHANGED <<cancelled, original, callback>>
        /\ IF cancelled THEN UNCHANGED <<upstreamTasks, failed>> ELSE CallOriginal("request")
    BY <1>2, <1>8 DEF RunRequest, Taken
  <2>2. original # "unset" /\ seen # << >> /\ (~cancelled => original = "set")
    BY <1>3, <1>4, <2>1 DEF OneReleases, TypeOK
  <2>3. CancelIsLast' /\ upstreamTasks' \in Seq({"request", "cancel"}) /\ failed' = failed
    <3>1. CASE cancelled
      BY <1>1, <2>1, <3>1 DEF CancelIsLast, Calls, TypeOK
    <3>2. CASE ~cancelled
      BY <1>1, <2>1, <2>2, <3>2, OriginalCalled
    <3> QED BY <3>1, <3>2
  <2>4. TypeOK'
    BY <1>1, <1>2, <2>1, <2>3 DEF TypeOK, Taken
  <2>5. SubscribesFirst'
    BY <1>1, <1>2, <2>1, <2>2 DEF SubscribesFirst, Taken
  <2>6. OneReleases'
    BY <1>1, <1>2, <2>1, <2>2 DEF OneReleases, Taken, Terminals
  <2>7. QuietOnceLeft'
    BY <1>1, <2>1 DEF QuietOnceLeft
  <2> QED BY <2>3, <2>4, <2>5, <2>6, <2>7
<1>9. CASE Head(tasks) = "cancel" /\ RunCancel
  <2>1. /\ tasks[1] = "cancel" /\ UNCHANGED <<cancelled, callback>>
        /\ CallOriginal("cancel") /\ original' = "reset"
    BY <1>2, <1>9 DEF RunCancel, Taken
  <2>2. original = "set" /\ cancelled /\ seen # << >>
    BY <1>2, <1>4, <2>1 DEF OneReleases, Taken
  <2>3. CancelIsLast' /\ upstreamTasks' \in Seq({"request", "cancel"}) /\ failed' = failed
    BY <1>1, <2>1, <2>2, OriginalCalled
  <2>4. TypeOK'
    BY <1>1, <1>2, <2>1, <2>3 DEF TypeOK, Taken
  <2>5. SubscribesFirst'
    BY <1>1, <1>2, <2>1, <2>2 DEF SubscribesFirst, Taken
  <2>6. OneReleases'
    <3>1. \A i \in DOMAIN tasks' : tasks'[i] # "cancel"
      BY <1>2, <2>1 DEF OneReleases, Taken
    <3> QED BY <1>1, <2>1, <2>2, <3>1 DEF OneReleases, Terminals
  <2>7. QuietOnceLeft'
    BY <1>1, <2>1 DEF QuietOnceLeft
  <2> QED BY <2>3, <2>4, <2>5, <2>6, <2>7
<1> QED BY <1>5, <1>6, <1>7, <1>8, <1>9 DEF RunTask

(***************************************************************************)
(* The application is called and may request or cancel inside; after a     *)
(* terminal callback the source's subscription is cancelled and reset.     *)
(***************************************************************************)
LEMMA CallbackPreserves == IInv /\ Callback => IInv'
<1> SUFFICES ASSUME IInv, Callback PROVE IInv'
  OBVIOUS
<1> USE DEF IInv
<1>1. /\ callback # "none" /\ callback' = "none" /\ seen' = Append(seen, callback)
      /\ shim' = TRUE /\ late' = late + (IF left = "none" THEN 0 ELSE 1)
      /\ UNCHANGED <<upstream, source>>
  BY DEF Callback
<1>2. original = "set"
  BY <1>1 DEF SubscribesFirst
<1>3. /\ seen' \in Seq(Signals) /\ seen' # << >> /\ Len(seen) \in Nat
      /\ DOMAIN seen = 1..Len(seen) /\ DOMAIN seen' = 1..(Len(seen) + 1)
      /\ Len(seen') = Len(seen) + 1
      /\ \A i \in 1..Len(seen) : seen'[i] = seen[i]
      /\ seen'[Len(seen) + 1] = callback
  <2>1. seen \in Seq(Signals) /\ callback \in Signals
    BY <1>1 DEF TypeOK
  <2> QED BY <1>1, <2>1, AppendFacts
(* What happens to the reference.                                          *)
<1>4. /\ CancelIsLast' /\ upstreamTasks' \in Seq({"request", "cancel"}) /\ failed' = failed
      /\ original' = IF callback \in Terminals THEN "reset" ELSE "set"
  <2>1. CASE callback \in Terminals
    BY <1>1, <1>2, <2>1, OriginalCalled DEF Callback
  <2>2. CASE callback \notin Terminals
    BY <1>1, <1>2, <2>2 DEF Callback, CancelIsLast, Calls, TypeOK
  <2> QED BY <2>1, <2>2
(* What the application does with its executor.                            *)
<1>5. /\ tasks' \in Seq(Tasks) /\ requests' \in Nat /\ cancelled' \in BOOLEAN
      /\ left' \in {left, "executor"} /\ (left # "none" => left' = left)
      /\ cancelled => cancelled'
      /\ left' # "none" => cancelled'
      /\ \A i \in DOMAIN tasks' : \/ i \in DOMAIN tasks /\ tasks'[i] = tasks[i]
                                  \/ /\ i = Len(tasks) + 1
                                     /\ \/ tasks'[i] = "request"
                                        \/ tasks'[i] = "cancel" /\ ~cancelled /\ cancelled'
  <2>1. CASE UNCHANGED <<cancelled, tasks, requests, left>>
    BY <2>1 DEF TypeOK, QuietOnceLeft
  <2>2. CASE ShimRequest
    <3>1. Added("request")
      BY <2>2, TaskAdded DEF ShimRequest, Tasks
    <3> QED BY <2>2, <3>1 DEF ShimRequest, Added, TypeOK, QuietOnceLeft
  <2>3. CASE ShimCancel("executor") /\ cancelled
    BY <2>3 DEF ShimCancel, TypeOK, QuietOnceLeft
  <2>4. CASE ShimCancel("executor") /\ ~cancelled
    <3>1. Added("cancel")
      BY <2>4, TaskAdded DEF ShimCancel, Tasks
    <3> QED BY <2>4, <3>1 DEF ShimCancel, Added, TypeOK, QuietOnceLeft
  <2> QED BY <2>1, <2>2, <2>3, <2>4 DEF Callback, TypeOK
<1>6. TypeOK'
  BY <1>1, <1>3, <1>4, <1>5 DEF TypeOK
<1>7. SubscribesFirst'
  BY <1>1, <1>2, <1>3, <1>4, <1>5 DEF SubscribesFirst, Terminals
<1>8. OneReleases'
  <2>1. callback \in Terminals => cancelled /\ \A i \in DOMAIN tasks : tasks[i] # "cancel"
    BY DEF OneReleases
  <2>2. ~cancelled => \A i \in DOMAIN tasks : tasks[i] # "cancel"
    BY DEF OneReleases
  <2>3. original' = "reset" => cancelled' /\ \A i \in DOMAIN tasks' : tasks'[i] # "cancel"
    BY <1>4, <1>5, <2>1
  <2>4. \A i \in DOMAIN tasks' : tasks'[i] = "cancel" => cancelled' /\ original' = "set"
    BY <1>4, <1>5, <2>1 DEF OneReleases
  <2>5. \A i, j \in DOMAIN tasks' : tasks'[i] = "cancel" /\ tasks'[j] = "cancel" => i = j
    BY <1>5, <2>2 DEF OneReleases
  <2> QED BY <1>1, <2>3, <2>4, <2>5 DEF OneReleases, Terminals
<1>9. QuietOnceLeft'
  <2>1. \A i \in DOMAIN seen : seen[i] \notin Terminals
    BY <1>1 DEF QuietOnceLeft
  <2>2. callback = "onSubscribe" <=> Len(seen) + 1 = 1
    <3>1. seen = << >> <=> Len(seen) = 0
      BY EmptySeq DEF TypeOK
    <3> QED BY <1>2, <1>3, <3>1 DEF SubscribesFirst
  <2>3. \A i \in DOMAIN seen' :
           /\ seen'[i] \in Terminals => i = Len(seen') /\ cancelled' /\ callback' = "none"
           /\ seen'[i] = "onSubscribe" <=> i = 1
    <3> SUFFICES ASSUME NEW i \in DOMAIN seen'
                 PROVE  /\ seen'[i] \in Terminals => i = Len(seen') /\ cancelled' /\ callback' = "none"
                        /\ seen'[i] = "onSubscribe" <=> i = 1
      OBVIOUS
    <3>1. CASE i \in DOMAIN seen
      BY <1>3, <2>1, <3>1 DEF QuietOnceLeft
    <3>2. CASE i = Len(seen) + 1
      BY <1>1, <1>3, <1>5, <2>2, <3>2 DEF OneReleases
    <3> QED BY <1>3, <3>1, <3>2
  <2>4. /\ left' # "none" => cancelled'
        /\ left' # "other" => late' = 0
        /\ left' = "other" => late' <= 1
    BY <1>1, <1>5 DEF QuietOnceLeft, TypeOK
  <2> QED BY <1>1, <2>3, <2>4 DEF QuietOnceLeft
<1> QED BY <1>4, <1>6, <1>7, <1>8, <1>9

(* The executor of the source's subscription makes one of its calls.       *)
LEMMA RunUpstreamTaskPreserves == IInv /\ RunUpstreamTask => IInv'
<1> SUFFICES ASSUME IInv, RunUpstreamTask PROVE IInv'
  OBVIOUS
<1> USE DEF IInv
<1>1. upstreamTasks \in Seq({"request", "cancel"}) /\ upstream \in Seq({"request", "cancel"})
  BY DEF TypeOK
<1>2. /\ upstreamTasks' \in Seq({"request", "cancel"})
      /\ upstream' \in Seq({"request", "cancel"})
      /\ Calls' = Calls
  BY <1>1, AppendFacts, TailFacts, MoveCall DEF RunUpstreamTask, Calls
<1>3. TypeOK'
  BY <1>2 DEF RunUpstreamTask, TypeOK
<1>4. SubscribesFirst' /\ OneReleases' /\ QuietOnceLeft'
  BY DEF RunUpstreamTask, SubscribesFirst, OneReleases, QuietOnceLeft
<1>5. CancelIsLast'
  BY <1>2 DEF RunUpstreamTask, CancelIsLast
<1> QED BY <1>3, <1>4, <1>5

-----------------------------------------------------------------------------
(* Every step of any thread keeps the invariant.                           *)
LEMMA NextPreserves == IInv /\ [Next]_vars => IInv'
<1> SUFFICES ASSUME IInv, [Next]_vars PROVE IInv'
  OBVIOUS
<1>1. CASE UNCHANGED vars
  BY <1>1 DEF vars, IInv, TypeOK, SubscribesFirst, OneReleases, QuietOnceLeft,
     CancelIsLast, Calls
<1>2. CASE Next
  BY <1>2, SignalPreserves, ApplicationPreserves, RunTaskPreserves, CallbackPreserves,
     RunUpstreamTaskPreserves DEF Next, Signals
<1> QED BY <1>1, <1>2

(* The invariant holds in every state of every behaviour.                  *)
LEMMA Invariance == Spec => []IInv
BY InitEstablishes, NextPreserves, PTL DEF Spec

(***************************************************************************)
(* Whatever threads the source and the application use, and however many   *)
(* signals race: onSubscribe is the first callback, nothing follows a      *)
(* terminal one, nothing follows a cancel inside a callback, and at most   *)
(* one callback, the one past its test of cancelled_, a cancel elsewhere.  *)
(***************************************************************************)
THEOREM CallbacksAreOrderly == Spec => []NoSignalAfterCancel
<1>1. IInv => NoSignalAfterCancel
  <2> SUFFICES ASSUME IInv PROVE NoSignalAfterCancel
    OBVIOUS
  <2>1. seen # << >> => Head(seen) = seen[1] /\ 1 \in DOMAIN seen
    BY TailFacts DEF IInv, TypeOK
  <2>2. late <= IF left = "other" THEN 1 ELSE 0
    BY DEF IInv, TypeOK, QuietOnceLeft
  <2> QED BY <2>1, <2>2 DEF IInv, QuietOnceLeft, NoSignalAfterCancel
<1> QED BY <1>1, Invariance, PTL

(***************************************************************************)
(* The source's subscription is cancelled at most once and not asked for   *)
(* values afterwards, and neither CHECK(!originalSubscription_) nor a call *)
(* through a null reference ever fails.                                    *)
(***************************************************************************)
THEOREM UpstreamReleasedOnce == Spec => []ReleasedOnce
<1>1. IInv => ReleasedOnce
  <2> SUFFICES ASSUME IInv, NEW i \in DOMAIN upstream, upstream[i] = "cancel"
               PROVE  i = Len(upstream)
    BY DEF IInv, ReleasedOnce, CancelIsLast
  <2>1. upstreamTasks \in Seq({"request", "cancel"}) /\ upstream \in Seq({"request", "cancel"})
    BY DEF IInv, TypeOK
  <2>2. /\ Len(Calls) = Len(upstream) + Len(upstreamTasks)
        /\ Calls \in Seq({"request", "cancel"})
        /\ Len(upstream) \in Nat /\ Len(upstreamTasks) \in Nat
        /\ i \in 1..Len(upstream) /\ i \in 1..Len(Calls) /\ Calls[i] = "cancel"
    BY <2>1, ConcatProperties, LenProperties DEF Calls
  <2>3. i = Len(Calls)
    BY <2>2, LenProperties DEF IInv, CancelIsLast
  <2> QED BY <2>2, <2>3
<1> QED BY <1>1, Invariance, PTL

=============================================================================
