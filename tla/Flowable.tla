------------------------------ MODULE Flowable ------------------------------
(***************************************************************************)
(* One subscription of a yarpl pipeline: a source, a chain of operators    *)
(* and a subscriber.  Calls of request and cancel travel up the chain,     *)
(* values and terminal signals down; both happen inside each other, so     *)
(* each is an operator on the record x of everything on the way.  What is  *)
(* a step of its own is what another thread can come between: the accesses *)
(* to requested_ and processing_ of SynchronousSubscription, and the       *)
(* values of one emission.                                                 *)
(***************************************************************************)
EXTENDS Integers, Sequences, SequencesExt

CONSTANTS
    Chains,         \* sequences of operators, the one next to the source first
    Lengths,        \* how many values the source has: 1 .. length
    Ends,           \* how the source ends
    Limit,          \* argument of take
    Batches,        \* batch sizes of subscribers; 0: one that requests by itself
    RequestSizes,   \* arguments of request(n)
    MaxRequests,    \* bound on calls of request(n) by the subscriber
    Infinite,       \* the largest int64_t
    Threads         \* threads that may call request and cancel

ASSUME FlowableAssumption ==
    /\ \A chain \in Chains : \A k \in DOMAIN chain :
          chain[k] \in {"map", "filter", "take", "subscribeOn",
                        "omap", "ofilter", "otake", "osubscribeOn", "toFlowable"}
    /\ Lengths \subseteq Nat
    /\ Ends \subseteq {"onComplete", "onError"}
    /\ Batches \subseteq Nat /\ RequestSizes \subseteq Nat
    /\ {Limit, MaxRequests, Infinite} \subseteq Nat

VARIABLES
    chain,      \* the operators
    length,     \* the number of values
    end,        \* "onComplete" or "onError"
    source,     \* what the source does about cancel
    batch,      \* batch_ of the subscriber
    x,          \* the subscription
    pc          \* what each thread is doing

vars == <<chain, length, end, source, batch, x, pc>>

Canceled == -Infinite - 1

Lowest(a, b) == IF a < b THEN a ELSE b

IsObservable(kind) ==
    kind \in {"omap", "ofilter", "otake", "osubscribeOn", "toFlowable"}

(* The source is an Observable and not a Flowable with an emitter.         *)
FromObservable(c) == \E k \in DOMAIN c : IsObservable(c[k])

(* request and cancel run in threads of their own.                         *)
Concurrent == \E k \in DOMAIN chain : chain[k] \in {"subscribeOn", "osubscribeOn"}

(* subscribe reaches the source and onSubscribe comes back, setting        *)
(* upstream_ of each operator on the way.                                  *)
Attached(c) == [k \in DOMAIN c |-> ~IsObservable(c[k])]

(***************************************************************************)
(* The subscription when subscribe returns.  requested is requested_ of    *)
(* SynchronousSubscription or of FlowableFromObservableSubscription, locked*)
(* processing_; granted and emitted count one call of emit.  upstream[k]   *)
(* says whether upstream_ of the k-th operator is set, limit[k] and        *)
(* pending[k] are fields of take.  scheduled is what was given to the      *)
(* worker of subscribeOn; poked that process() is to be called, storing    *)
(* that addCredits is about to store, consuming that consumeCredits is to  *)
(* be called.  got, terminals, asked and cancelled are the subscriber's    *)
(* side, due its pending_.  fatal: a call through a null reference, with   *)
(* which the program ends.                                                 *)
(*                                                                         *)
(* The last four are history: cancel was called inside onNext, addCancel   *)
(* has been called, addCredits has stored the largest number, and a value  *)
(* was passed on after addCancel.                                          *)
(***************************************************************************)
NewSubscription(c) ==
    [requested |-> 0, locked |-> FALSE, granted |-> 0, emitted |-> 0, pos |-> 0,
     started |-> FALSE, sourceCancelled |-> FALSE, poked |-> FALSE,
     upstream |-> Attached(c),
     limit |-> [k \in DOMAIN c |-> Limit], pending |-> [k \in DOMAIN c |-> 0],
     scheduled |-> << >>, got |-> << >>, terminals |-> << >>, asked |-> 0,
     requests |-> 0, cancelled |-> FALSE, due |-> 0, fatal |-> FALSE,
     storing |-> FALSE, consuming |-> FALSE,
     inside |-> FALSE, stopped |-> FALSE, saturated |-> FALSE, late |-> FALSE]

(***************************************************************************)
(* Flowables::range, just, justN, empty and error; or an Observable, which *)
(* never calls onSubscribe (those of Observables), hands out a             *)
(* subscription that it does not look at, or stops when it is cancelled.   *)
(***************************************************************************)
Source ==
    /\ length \in Lengths
    /\ end \in Ends
    /\ source \in (IF FromObservable(chain) THEN {"silent", "ignores", "stops"}
                   ELSE {"emitter"})

Init ==
    /\ chain \in Chains
    /\ Source
    /\ batch \in Batches
    /\ x = NewSubscription(chain)
    /\ pc = [t \in Threads |-> "idle"]

Null(s) == [s EXCEPT !.fatal = TRUE]

-----------------------------------------------------------------------------
(* Upwards: request and cancel.                                            *)

(* SynchronousSubscription::request up to process().                       *)
Add(s, n) ==
    [s EXCEPT !.requested = IF @ > Infinite - n THEN Infinite ELSE @ + n]

(***************************************************************************)
(* SubscriptionHelper::addCredits: what would overflow is not added by     *)
(* compare-and-exchange; the largest number is stored in a step of its own,*)
(* StoreInfinite, over whatever is there by then.                          *)
(***************************************************************************)
AddCredits(s, n) ==
    CASE s.requested \in {Infinite, Canceled} -> s
      [] s.requested \notin {Infinite, Canceled} /\ s.requested > Infinite - n ->
             [s EXCEPT !.storing = TRUE]
      [] OTHER -> Add(s, n)

(* The same for the operators of an Observable, when its source has a      *)
(* subscription to hand out.                                               *)
ObservableAttached(s) ==
    [s EXCEPT !.upstream = [k \in DOMAIN @ |-> @[k] \/ source # "silent"]]

(* FlowableFromObservableSubscription::request after addCredits: the       *)
(* observable is subscribed to by the first request.                       *)
StartObservable(s) ==
    IF s.requested <= 0 \/ s.started THEN s
    ELSE [ObservableAttached(s) EXCEPT !.started = TRUE, !.poked = TRUE]

RECURSIVE RequestAt(_, _, _)

RequestUp(s, k, n) == IF s.upstream[k] THEN RequestAt(s, k - 1, n) ELSE Null(s)

(* Mutant of TakeRequest: the limit is not looked at.                      *)
TakeRequestThrough(s, k, n) == RequestUp(s, k, n)

(* TakeOperator: never more than it will let pass.                         *)
TakeRequest(s, k, n) ==
    LET delta == Lowest(n, s.limit[k] - s.pending[k])
    IN  IF delta <= 0 THEN s
        ELSE RequestUp([s EXCEPT !.pending[k] = @ + delta], k, delta)

(* SubscribeOnOperator: request and cancel become tasks of the worker.     *)
Schedule(s, task) == [s EXCEPT !.scheduled = Append(@, task)]

(* request(n) of the k-th operator's subscription; the 0th is the source.  *)
RequestAt(s, k, n) ==
    CASE k = 0 -> [Add(s, n) EXCEPT !.poked = TRUE]
      [] k # 0 /\ chain[k] = "toFlowable"  -> StartObservable(AddCredits(s, n))
      [] k # 0 /\ chain[k] = "take"        -> TakeRequest(s, k, n)
      [] k # 0 /\ chain[k] = "subscribeOn" -> Schedule(s, <<"request", k, n>>)
      [] OTHER -> RequestUp(s, k, n)

RECURSIVE CancelAt(_, _)

(* FlowableOperator::Subscription::cancel.                                 *)
CancelUp(s, k) ==
    IF s.upstream[k]
    THEN [CancelAt(s, k - 1) EXCEPT !.upstream[k] = FALSE]
    ELSE Null(s)

(* ObservableOperator::Subscription::cancel keeps upstream_.               *)
ObservableCancelUp(s, k) == IF s.upstream[k] THEN CancelAt(s, k - 1) ELSE Null(s)

(* SubscriptionHelper::addCancel.                                          *)
AddCancel(s) == [s EXCEPT !.requested = Canceled, !.stopped = TRUE]

(* FlowableFromObservableSubscription::cancel: once.                       *)
CreditCancel(s, k) ==
    IF s.requested = Canceled THEN s ELSE ObservableCancelUp(AddCancel(s), k)

(* SubscribeOnOperator of Observable: only cancel is moved to the worker.  *)
ObservableScheduleCancel(s, k) == Schedule(s, <<"cancel", k, 0>>)

(* SynchronousSubscription::cancel up to process().                        *)
SourceCancel(s) == [s EXCEPT !.requested = Canceled, !.poked = TRUE]

(* The subscription of an Observable's source: AtomicBoolSubscription.     *)
ObservableSourceCancel(s) == [s EXCEPT !.sourceCancelled = TRUE]

(* cancel() of the k-th operator's subscription; the 0th is the source.    *)
CancelAt(s, k) ==
    CASE k = 0 /\ FromObservable(chain)  -> ObservableSourceCancel(s)
      [] k = 0 /\ ~FromObservable(chain) -> SourceCancel(s)
      [] k # 0 /\ chain[k] = "toFlowable" -> CreditCancel(s, k)
      [] k # 0 /\ chain[k] \in {"omap", "ofilter", "otake"} -> ObservableCancelUp(s, k)
      [] k # 0 /\ chain[k] = "subscribeOn" -> Schedule(s, <<"cancel", k, 0>>)
      [] k # 0 /\ chain[k] = "osubscribeOn" -> ObservableScheduleCancel(s, k)
      [] OTHER -> CancelUp(s, k)

-----------------------------------------------------------------------------
(* The subscriber.                                                         *)

Subscribed == Len(chain)

(* Who asks for the largest number asks for everything: NO_FLOW_CONTROL.   *)
Ask(s, n) ==
    RequestAt([s EXCEPT !.asked = @ + (IF n = Infinite THEN length ELSE n)],
              Subscribed, n)

(* Subscribers::Base::onNext after next_.                                  *)
BatchOnNext(s) ==
    IF s.due - 1 < batch \div 2
    THEN Ask([s EXCEPT !.due = batch], batch - (s.due - 1))
    ELSE [s EXCEPT !.due = @ - 1]

(* A subscriber reacts to a value inside onNext.                           *)
SubscriberOnNext(s, value, reaction) ==
    LET y == [s EXCEPT !.got = Append(@, value)]
    IN  CASE batch > 0 -> BatchOnNext(y)
          [] batch = 0 /\ reaction = "request" /\ ~s.cancelled ->
                 Ask([y EXCEPT !.requests = @ + 1], 1)
          [] batch = 0 /\ reaction = "cancel" /\ ~s.cancelled ->
                 CancelAt([y EXCEPT !.cancelled = TRUE, !.inside = TRUE], Subscribed)
          [] OTHER -> y

-----------------------------------------------------------------------------
(* Downwards: values and terminal signals.                                 *)

(* onComplete and onError of a subscriber made of lambdas, or its own.     *)
SubscriberTerminal(s, signal) == [s EXCEPT !.terminals = Append(@, signal)]

(***************************************************************************)
(* A terminal signal passes operator k and all after it to the subscriber; *)
(* each resets its upstream_, except that of toFlowable.                   *)
(***************************************************************************)
TerminalAt(s, k, signal) ==
    [SubscriberTerminal(s, signal) EXCEPT
        !.upstream = [j \in DOMAIN @ |-> @[j] /\ (j < k \/ chain[j] = "toFlowable")]]

MapFunction(value) == value + 10

FilterFunction(value) == value % 2 = 1

RECURSIVE NextAt(_, _, _, _)

(* Mutant of FilterOnNext: nothing is asked for in place of the value.     *)
FilterOnNextSilent(s, k, value, reaction) ==
    IF FilterFunction(value) THEN NextAt(s, k + 1, value, reaction) ELSE s

FilterOnNext(s, k, value, reaction) ==
    IF FilterFunction(value) THEN NextAt(s, k + 1, value, reaction)
    ELSE RequestUp(s, k, 1)

(* FilterOperator of Observable: nothing to ask for.                       *)
ObservableFilterOnNext(s, k, value, reaction) ==
    IF FilterFunction(value) THEN NextAt(s, k + 1, value, reaction) ELSE s

MapOnNext(s, k, value, reaction) == NextAt(s, k + 1, MapFunction(value), reaction)

(* MapOperator of Observable is the same code.                             *)
ObservableMapOnNext(s, k, value, reaction) == MapOnNext(s, k, value, reaction)

(* One value less to take, handed on.                                      *)
Taken(s, k, value, reaction) ==
    NextAt([s EXCEPT !.limit[k] = @ - 1,
                     !.pending[k] = IF @ > 0 THEN @ - 1 ELSE @], k + 1, value, reaction)

(***************************************************************************)
(* TakeOperator: when the limit is reached the source is cancelled and the *)
(* subscriber is completed.                                                *)
(***************************************************************************)
TakeOnNext(s, k, value, reaction) ==
    LET next == Taken(s, k, value, reaction)
    IN  CASE s.limit[k] <= 0 -> [s EXCEPT !.limit[k] = @ - 1]
          [] s.limit[k] > 0 /\ next.limit[k] # 0 -> next
          [] OTHER -> TerminalAt(CancelUp(next, k), k, "onComplete")

(* Mutant of ObservableTakeOnNext: the source is not cancelled.            *)
ObservableTakeOnNextOnly(s, k, value, reaction) ==
    LET next == Taken(s, k, value, reaction)
    IN  CASE s.limit[k] <= 0 -> [s EXCEPT !.limit[k] = @ - 1]
          [] s.limit[k] > 0 /\ next.limit[k] # 0 -> next
          [] OTHER -> TerminalAt(next, k, "onComplete")

ObservableTakeOnNext(s, k, value, reaction) ==
    LET next == Taken(s, k, value, reaction)
    IN  CASE s.limit[k] <= 0 -> [s EXCEPT !.limit[k] = @ - 1]
          [] s.limit[k] > 0 /\ next.limit[k] # 0 -> next
          [] OTHER -> TerminalAt(ObservableCancelUp(next, k), k, "onComplete")

(* Mutant of CreditOnNext: a value needs no credit.                        *)
CreditOnNextAlways(s, k, value, reaction) ==
    [NextAt(s, k + 1, value, reaction) EXCEPT !.consuming = s.requested > 0]

(***************************************************************************)
(* FlowableFromObservableSubscription::onNext: dropped without credit.     *)
(* The credit is looked at before the value is passed on and is consumed   *)
(* after it, in ConsumeCredit.                                             *)
(***************************************************************************)
CreditOnNext(s, k, value, reaction) ==
    IF s.requested <= 0 THEN s
    ELSE [NextAt([s EXCEPT !.late = @ \/ s.stopped], k + 1, value, reaction)
          EXCEPT !.consuming = TRUE]

(* onNext of operator k, or of the subscriber; subscribeOn passes it on.   *)
NextAt(s, k, value, reaction) ==
    CASE k > Len(chain) -> SubscriberOnNext(s, value, reaction)
      [] k <= Len(chain) /\ chain[k] = "map" -> MapOnNext(s, k, value, reaction)
      [] k <= Len(chain) /\ chain[k] = "omap" -> ObservableMapOnNext(s, k, value, reaction)
      [] k <= Len(chain) /\ chain[k] = "filter" -> FilterOnNext(s, k, value, reaction)
      [] k <= Len(chain) /\ chain[k] = "ofilter" ->
             ObservableFilterOnNext(s, k, value, reaction)
      [] k <= Len(chain) /\ chain[k] = "take" -> TakeOnNext(s, k, value, reaction)
      [] k <= Len(chain) /\ chain[k] = "otake" -> ObservableTakeOnNext(s, k, value, reaction)
      [] k <= Len(chain) /\ chain[k] = "toFlowable" -> CreditOnNext(s, k, value, reaction)
      [] OTHER -> NextAt(s, k + 1, value, reaction)

-----------------------------------------------------------------------------
(* Threads.  A call from outside, or of the worker of subscribeOn.         *)

Unchosen == UNCHANGED <<chain, length, end, source, batch>>

(* Without subscribeOn everything happens in one thread: no more than one  *)
(* call of request or cancel is outstanding.                               *)
MayCall(t) == pc[t] = "idle" /\ (Concurrent \/ t = CHOOSE u \in Threads : TRUE)

(* The thread goes on in addCredits, process() or the observable's loop.   *)
Called(t, s) ==
    /\ x' = [s EXCEPT !.poked = FALSE, !.storing = FALSE]
    /\ pc' = [pc EXCEPT ![t] = CASE s.storing -> "store"
                                 [] ~s.storing /\ ~s.poked -> "idle"
                                 [] s.poked /\ FromObservable(chain) -> "push"
                                 [] OTHER -> "process"]
    /\ Unchosen

(* Subscribers::Base::onSubscribe.                                         *)
BatchSubscribes(t) ==
    /\ MayCall(t) /\ batch > 0 /\ x.requests = 0
    /\ Called(t, Ask([x EXCEPT !.requests = 1, !.due = batch], batch))

SubscriberRequests(t, n) ==
    /\ MayCall(t) /\ batch = 0 /\ ~x.cancelled /\ x.terminals = << >>
    /\ x.requests < MaxRequests
    /\ Called(t, Ask([x EXCEPT !.requests = @ + 1], n))

SubscriberCancels(t) ==
    /\ MayCall(t) /\ batch = 0 /\ ~x.cancelled /\ x.terminals = << >>
    /\ Called(t, CancelAt([x EXCEPT !.cancelled = TRUE], Subscribed))

(* ThreadWorker::schedule: a thread for every task, in any order.          *)
WorkerRuns(t, i) ==
    LET task == x.scheduled[i]
        s == [x EXCEPT !.scheduled = RemoveAt(@, i)]
    IN  /\ MayCall(t)
        /\ Called(t, CASE task[1] = "request" -> RequestUp(s, task[2], task[3])
                       [] task[1] = "cancel" /\ chain[task[2]] = "subscribeOn" ->
                              CancelUp(s, task[2])
                       [] OTHER -> ObservableCancelUp(s, task[2]))

-----------------------------------------------------------------------------
(* SynchronousSubscription::process.                                       *)

Step(t, s, label) ==
    /\ x' = s
    /\ pc' = [pc EXCEPT ![t] = label]
    /\ Unchosen

TryLock(t) ==
    /\ pc[t] = "process"
    /\ IF x.locked THEN Step(t, x, "idle")
       ELSE Step(t, [x EXCEPT !.locked = TRUE], "loop")

(* The lock is left after requested_ was found used up.                    *)
LoadRequested(t) ==
    /\ pc[t] = "loop"
    /\ CASE x.requested = Canceled -> Step(t, [x EXCEPT !.locked = FALSE], "idle")
         [] x.requested # Canceled /\ x.requested <= 0 -> Step(t, x, "leave")
         [] OTHER -> Step(t, [x EXCEPT !.granted = x.requested, !.emitted = 0], "emit")

Leave(t) ==
    /\ pc[t] = "leave"
    /\ Step(t, [x EXCEPT !.locked = FALSE], "idle")

Reactions ==
    {"none", "cancel"} \cup (IF x.requests < MaxRequests THEN {"request"} ELSE {})

(* A value of Flowables::range or justN; calls inside it find the lock.    *)
EmitNext(t, reaction) ==
    /\ pc[t] = "emit" /\ x.pos < length /\ x.emitted < x.granted
    /\ LET s == NextAt([x EXCEPT !.pos = @ + 1, !.emitted = @ + 1], 1, x.pos + 1, reaction)
       IN  Step(t, [s EXCEPT !.poked = FALSE], "emit")

(* The loop after emit.                                                    *)
AfterEmit(s) ==
    IF s.requested = Canceled \/ s.requested = Infinite THEN s
    ELSE [s EXCEPT !.requested = @ - s.emitted]

(* SynchronousSubscription::onComplete and onError.                        *)
SourceEnds(s) == [TerminalAt(s, 1, end) EXCEPT !.requested = Canceled]

(* The emitter returns, after onComplete or onError when it is at its end. *)
EmitReturns(t) ==
    /\ pc[t] = "emit" /\ (x.pos = length \/ x.emitted >= x.granted)
    /\ IF x.pos = length THEN Step(t, SourceEnds(x), "loop")
       ELSE Step(t, AfterEmit(x), "loop")

-----------------------------------------------------------------------------
(* An Observable.                                                          *)

Stopped == x.sourceCancelled /\ source = "stops"

(***************************************************************************)
(* The values and the end are pushed, whatever was requested.  A request   *)
(* in onNext, and then the consumption of the credit, are the last that    *)
(* onNext has to do with requested_.                                       *)
(***************************************************************************)
PushNext(t, reaction) ==
    /\ pc[t] = "push" /\ x.pos < length /\ ~Stopped
    /\ LET s == NextAt([x EXCEPT !.pos = @ + 1], 1, x.pos + 1, reaction)
       IN  Step(t, [s EXCEPT !.poked = FALSE, !.storing = FALSE, !.consuming = FALSE],
                CASE s.storing -> "storeInside"
                  [] ~s.storing /\ s.consuming -> "consume"
                  [] OTHER -> "push")

PushReturns(t) ==
    /\ pc[t] = "push" /\ (x.pos = length \/ Stopped)
    /\ IF Stopped THEN Step(t, x, "idle")
       ELSE Step(t, TerminalAt(x, 1, end), "idle")

(* addCredits: current->store(INT64_MAX).                                  *)
StoreInfinite(t) ==
    /\ pc[t] \in {"store", "storeInside"}
    /\ Step(t, [x EXCEPT !.requested = Infinite, !.saturated = TRUE],
            IF pc[t] = "store" THEN "idle" ELSE "consume")

(* consumeCredits(1): of a cancelled one what there is.                    *)
ConsumeCredit(t) ==
    /\ pc[t] = "consume"
    /\ Step(t, [x EXCEPT !.requested = IF @ < 1 THEN 0 ELSE @ - 1], "push")

ThreadStep(t) ==
    \/ TryLock(t)
    \/ LoadRequested(t)
    \/ Leave(t)
    \/ \E reaction \in Reactions : EmitNext(t, reaction) \/ PushNext(t, reaction)
    \/ EmitReturns(t)
    \/ PushReturns(t)
    \/ StoreInfinite(t)
    \/ ConsumeCredit(t)

Next ==
    /\ ~x.fatal
    /\ \E t \in Threads :
          \/ ThreadStep(t)
          \/ BatchSubscribes(t)
          \/ \E n \in RequestSizes : SubscriberRequests(t, n)
          \/ SubscriberCancels(t)
          \/ \E i \in DOMAIN x.scheduled : WorkerRuns(t, i)

(* A thread that runs goes on, and a batch subscriber subscribes.          *)
Spec ==
    /\ Init /\ [][Next]_vars
    /\ \A t \in Threads : WF_vars(~x.fatal /\ ThreadStep(t))
    /\ WF_vars(~x.fatal /\ \E t \in Threads : BatchSubscribes(t))

-----------------------------------------------------------------------------
(* What the chain makes of the first n values of the source.               *)
RECURSIVE Through(_, _)
Through(k, values) ==
    CASE k > Len(chain) -> values
      [] k <= Len(chain) /\ chain[k] \in {"map", "omap"} ->
             Through(k + 1, [i \in DOMAIN values |-> MapFunction(values[i])])
      [] k <= Len(chain) /\ chain[k] \in {"filter", "ofilter"} ->
             Through(k + 1, SelectSeq(values, FilterFunction))
      [] k <= Len(chain) /\ chain[k] \in {"take", "otake"} ->
             Through(k + 1, SubSeq(values, 1, Lowest(Limit, Len(values))))
      [] OTHER -> Through(k + 1, values)

Whole == Through(1, [i \in 1 .. length |-> i])

Drops == FromObservable(chain)

(***************************************************************************)
(* Backpressure: through every chain, with requests inside and outside     *)
(* onNext and in concurrent threads, the subscriber gets no more values    *)
(* than it asked for, in the order and form the operators define, none     *)
(* left out unless the chain drops for lack of credit.  What an Observable *)
(* emits after the Flowable made of it was cancelled is not passed on,     *)
(* unless addCredits has stored the largest number over the cancellation.  *)
(***************************************************************************)
NoMoreThanAsked ==
    /\ x.asked < Infinite => Len(x.got) <= x.asked
    /\ IF Drops
       THEN /\ \A i, j \in DOMAIN x.got : i < j => x.got[i] < x.got[j]
            /\ \A i \in DOMAIN x.got : \E j \in DOMAIN Whole : Whole[j] = x.got[i]
       ELSE IsPrefix(x.got, Whole)
    /\ x.late => x.saturated

(***************************************************************************)
(* take has met its limit, and its source goes on to its own end: an       *)
(* emitter that is there already, or an Observable that ignores cancel.    *)
(***************************************************************************)
EndsAfterTake ==
    /\ \E k \in DOMAIN chain : chain[k] \in {"take", "otake"} /\ x.limit[k] <= 0
    /\ x.pos = length /\ source \in {"emitter", "ignores"}

(***************************************************************************)
(* A subscriber gets one terminal signal, or two when the source still     *)
(* ends after take has completed the subscriber; the first is the one that *)
(* counts: it is onComplete only when the subscriber has got everything    *)
(* that it was to get, and take never lets an error be first.              *)
(***************************************************************************)
EndsOnce ==
    ~x.fatal =>
        /\ Len(x.terminals) <= IF EndsAfterTake THEN 2 ELSE 1
        /\ Len(x.terminals) = 2 => x.terminals[1] = "onComplete"
        /\ x.terminals # << >> /\ x.terminals[1] = "onComplete" /\ ~Drops =>
              x.got = Whole

(* There is no subscription that a cancellation could be passed on to.     *)
NothingToCancel == FromObservable(chain) /\ (source = "silent" \/ ~x.started)

(***************************************************************************)
(* A call goes through an upstream reference that was reset, or was never  *)
(* set, only in three cases: take or the subscriber cancels a Flowable     *)
(* made of an Observable that has handed out no subscription; the          *)
(* subscriber cancels inside onNext with a filter or take behind it that   *)
(* meets another value; or subscribeOn calls from threads of its own.      *)
(* Requests and ends by themselves, in any nesting, never do.              *)
(***************************************************************************)
UpstreamIsThere ==
    x.fatal =>
        \/ Concurrent
        \/ /\ NothingToCancel
           /\ x.cancelled \/ \E k \in DOMAIN chain : chain[k] \in {"take", "otake"}
        \/ x.inside /\ \E k \in DOMAIN chain : chain[k] \in {"filter", "take"}

Waiting ==
    /\ ~Drops /\ ~Concurrent /\ ~x.fatal
    /\ x.asked > Len(x.got) /\ x.terminals = << >> /\ ~x.cancelled

(***************************************************************************)
(* What is asked for is delivered: also when the request was made while    *)
(* values were being emitted, or a filter left values out.  A subscriber   *)
(* that asks in batches gets to the end.                                   *)
(***************************************************************************)
Served ==
    /\ Waiting ~> ~Waiting
    /\ (batch > 0 /\ ~Drops /\ ~Concurrent) ~> (x.terminals # << >>)

=============================================================================
