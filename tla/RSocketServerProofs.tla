------------------------ MODULE RSocketServerProofs ------------------------
(***************************************************************************)
(* Proofs about RSocketServer for any finite set of clients and any set of *)
(* workers: what the destructor leaves behind and what it may call after   *)
(* it was destroyed, whatever connections arrive and end meanwhile.  The   *)
(* invariant ties every task of a worker to its socket, and orders the     *)
(* task that closes a socket before the one that removes it.               *)
(***************************************************************************)
EXTENDS RSocketServer, SequenceTheorems, FiniteSetTheorems, TLAPS

Tasks == {"close", "remove"} \X Clients

(* The values the server's members and those of its connections take.      *)
TypeOK ==
    /\ conn \in [Clients -> {"none", "accepted", "open", "closed", "removed", "refused"}]
    /\ worker \in [Clients -> Workers]
    /\ tasks \in [Workers -> Seq(Tasks)]
    /\ sockets \subseteq Clients
    /\ server \in {"new", "started", "parked", "stopping", "waiting", "left", "done", "gone"}
    /\ posts \in Nat
    /\ met \in [Clients -> {"no", "closing", "joined", "late"}]
    /\ dangling \subseteq Clients

(***************************************************************************)
(* A task belongs to the worker of its socket.  A socket that waits to be  *)
(* removed is closed, or went with the server.  One that is to be closed   *)
(* was there when the destructor took the lock, and is still there unless  *)
(* its removal was under way then.                                         *)
(***************************************************************************)
TaskFits(w, t) ==
    /\ worker[t[2]] = w
    /\ t[1] = "remove" => conn[t[2]] = "closed" \/ (server = "gone" /\ met[t[2]] = "late")
    /\ t[1] = "close" =>
          /\ server \in {"waiting", "done", "gone"}
          /\ met[t[2]] = "closing" \/ (met[t[2]] = "no" /\ conn[t[2]] \in {"open", "closed"})

TasksFit ==
    \A w \in Workers : \A i \in 1..Len(tasks[w]) : TaskFits(w, tasks[w][i])

(* Task t at place i and task u at place j of a queue: no task is there    *)
(* twice, and a socket is closed before it is removed.                     *)
PairFits(i, t, j, u) ==
    t[2] = u[2] =>
        /\ t[1] = u[1] => i = j
        /\ t[1] = "close" /\ u[1] = "remove" /\ met[t[2]] # "closing" => i < j

PairsFit ==
    \A w \in Workers : \A i, j \in 1..Len(tasks[w]) :
        PairFits(i, tasks[w][i], j, tasks[w][j])

SocketsAlive == sockets = {c \in Clients : conn[c] \in {"open", "closed"}}

(* Only a connection that has had a ReactiveSocket has met the shutdown.   *)
MetFits ==
    /\ \A c \in Clients : conn[c] \in {"none", "accepted", "refused"} => met[c] = "no"
    /\ \A c \in dangling : met[c] \in {"closing", "late"}
    /\ server \in {"new", "started", "parked", "stopping"} =>
          \A c \in Clients : met[c] = "no"

(* How far the destructor is and what that says of the sockets.            *)
Progress ==
    /\ posts # 0 => server \in {"waiting", "done", "gone"}
    /\ posts # 0 \/ server \in {"left", "done"} => \A c \in sockets : met[c] = "late"
    /\ posts > 1 => \E c \in Clients : met[c] = "late"
    /\ server = "done" => posts # 0
    /\ server = "gone" => \A c \in Clients : conn[c] \notin {"accepted", "open", "closed"}

IInv == TypeOK /\ TasksFit /\ PairsFit /\ SocketsAlive /\ MetFits /\ Progress

-----------------------------------------------------------------------------
(* Queues of tasks.                                                        *)

(* Worker w has got task t on top of those it had in q.                    *)
Added(q, w, t) ==
    /\ tasks' \in [Workers -> Seq(Tasks)]
    /\ \A v \in Workers \ {w} : tasks'[v] = q[v]
    /\ Len(q[w]) \in Nat /\ Len(tasks'[w]) = Len(q[w]) + 1
    /\ \A i \in 1..Len(q[w]) : tasks'[w][i] = q[w][i]
    /\ tasks'[w][Len(q[w]) + 1] = t

(* The onClosed listener adds a task to the event base of its worker.      *)
LEMMA OnClosedAdds ==
    ASSUME TypeOK, NEW q \in [Workers -> Seq(Tasks)], NEW c \in Clients, tasks' = OnClosed(q, c)
    PROVE  Added(q, worker[c], <<"remove", c>>)
<1> DEFINE w == worker[c]
           t == <<"remove", c>>
<1>1. w \in Workers /\ t \in Tasks /\ q[w] \in Seq(Tasks) /\ t[2] = c
  BY DEF TypeOK, Tasks
<1>2. tasks' = [q EXCEPT ![w] = Append(@, t)]
  BY <1>1 DEF OnClosed, Add
<1> HIDE DEF t
<1>3. /\ Append(q[w], t) \in Seq(Tasks) /\ Len(q[w]) \in Nat
      /\ Len(Append(q[w], t)) = Len(q[w]) + 1
      /\ \A i \in 1..Len(q[w]) : Append(q[w], t)[i] = q[w][i]
      /\ Append(q[w], t)[Len(q[w]) + 1] = t
  BY <1>1, AppendProperties, LenProperties
<1>4. tasks'[w] = Append(q[w], t) /\ \A v \in Workers \ {w} : tasks'[v] = q[v]
  BY <1>1, <1>2
<1>5. tasks' \in [Workers -> Seq(Tasks)]
  BY <1>1, <1>2, <1>3
<1>6. Added(q, w, t)
  BY <1>3, <1>4, <1>5 DEF Added
<1> QED BY <1>6 DEF t

(* A worker takes its first task.                                          *)
Taken(w, q) ==
    /\ q \in [Workers -> Seq(Tasks)]
    /\ \A v \in Workers \ {w} : q[v] = tasks[v]
    /\ Len(tasks[w]) \in Nat \ {0} /\ Len(q[w]) = Len(tasks[w]) - 1
    /\ Head(tasks[w]) = tasks[w][1] /\ Head(tasks[w]) \in Tasks
    /\ \A i \in 1..Len(q[w]) : q[w][i] = tasks[w][i + 1] /\ i + 1 \in 1..Len(tasks[w])

(* Taking the first task moves the others up.                              *)
LEMMA TailTakes ==
    ASSUME TypeOK, NEW w \in Workers, tasks[w] # << >>
    PROVE  Taken(w, [tasks EXCEPT ![w] = Tail(@)])
<1> DEFINE q == [tasks EXCEPT ![w] = Tail(@)]
<1>1. tasks \in [Workers -> Seq(Tasks)] /\ tasks[w] \in Seq(Tasks)
  BY DEF TypeOK
<1>2. /\ Head(tasks[w]) \in Tasks /\ Tail(tasks[w]) \in Seq(Tasks)
      /\ Len(Tail(tasks[w])) = Len(tasks[w]) - 1 /\ Len(tasks[w]) \in Nat \ {0}
      /\ \A i \in 1..Len(Tail(tasks[w])) : Tail(tasks[w])[i] = tasks[w][i + 1]
  BY <1>1, HeadTailProperties, EmptySeq
<1>3. Head(tasks[w]) = tasks[w][1]
  BY <1>1
<1>4. q[w] = Tail(tasks[w]) /\ \A v \in Workers \ {w} : q[v] = tasks[v]
  BY <1>1
<1>5. q \in [Workers -> Seq(Tasks)]
  BY <1>1, <1>2
<1>6. \A i \in 1..Len(Tail(tasks[w])) : i + 1 \in 1..Len(tasks[w])
  BY <1>2
<1> HIDE DEF q
<1>7. Taken(w, q)
  BY <1>2, <1>3, <1>4, <1>5, <1>6 DEF Taken
<1> QED BY <1>7 DEF q

(* The tasks of one kind for some sockets of a worker.                     *)
LEMMA TasksForSockets ==
    ASSUME TypeOK, NEW w \in Workers, NEW kind \in {"close", "remove"}, NEW owned \in SUBSET Clients
    PROVE  /\ TasksFor(kind, owned, w) \in Seq(Tasks)
           /\ \A i \in 1..Len(TasksFor(kind, owned, w)) :
                 /\ TasksFor(kind, owned, w)[i][1] = kind
                 /\ TasksFor(kind, owned, w)[i][2] \in owned
                 /\ worker[TasksFor(kind, owned, w)[i][2]] = w
           /\ \A i, j \in 1..Len(TasksFor(kind, owned, w)) :
                 TasksFor(kind, owned, w)[i][2] = TasksFor(kind, owned, w)[j][2] => i = j
<1> DEFINE S == {c \in owned : worker[c] = w}
           n == Cardinality(S)
           mine == SetToSeq(S)
           r == TasksFor(kind, owned, w)
<1>1. IsFiniteSet(S) /\ n \in Nat /\ ExistsBijection(1..n, S)
  <2>1. S \in SUBSET Clients /\ IsFiniteSet(Clients)
    BY RSocketServerAssumption DEF TypeOK
  <2>2. IsFiniteSet(S)
    BY <2>1, FS_Subset
  <2> QED BY <2>2, FS_CardinalityType
<1>2. \E f \in [1..n -> S] : IsInjective(f)
  BY <1>1 DEF ExistsBijection, Bijection, Injection
<1>3. mine \in [1..n -> S] /\ IsInjective(mine)
  BY <1>2 DEF SetToSeq
<1> HIDE DEF n, mine
<1>4. r = [i \in 1..n |-> <<kind, mine[i]>>]
  BY <1>3 DEF TasksFor, mine
<1>5. \A i \in 1..n : mine[i] \in owned /\ worker[mine[i]] = w /\ mine[i] \in Clients
  BY <1>3
<1> HIDE DEF r
<1>6. r \in Seq(Tasks) /\ Len(r) = n
  <2>1. \A i \in 1..n : <<kind, mine[i]>> \in Tasks
    BY <1>5 DEF Tasks
  <2>2. r \in [1..n -> Tasks]
    BY <1>4, <2>1
  <2> QED BY <1>1, <2>2
<1>7. \A i, j \in 1..n : mine[i] = mine[j] => i = j
  BY <1>3 DEF IsInjective
<1>8. \A i \in 1..n : r[i][1] = kind /\ r[i][2] = mine[i]
  BY <1>4
<1>9. /\ r \in Seq(Tasks)
      /\ \A i \in 1..Len(r) : r[i][1] = kind /\ r[i][2] \in owned /\ worker[r[i][2]] = w
      /\ \A i, j \in 1..Len(r) : r[i][2] = r[j][2] => i = j
  BY <1>5, <1>6, <1>7, <1>8
<1> QED BY <1>9 DEF r

(* A queue to which others are appended: each place is an old or a new one. *)
LEMMA ConcatPlaces ==
    ASSUME NEW a \in Seq(Tasks), NEW b \in Seq(Tasks)
    PROVE  /\ a \o b \in Seq(Tasks)
           /\ \A i \in 1..Len(a \o b) :
                 \/ i \in 1..Len(a) /\ (a \o b)[i] = a[i]
                 \/ i - Len(a) \in 1..Len(b) /\ (a \o b)[i] = b[i - Len(a)] /\ i > Len(a)
BY ConcatProperties, LenProperties

-----------------------------------------------------------------------------
(* Actions.                                                                *)

(* What a client does on its side is nothing to the server.                *)
LEMMA ElsewhereKeeps ==
    ASSUME IInv, UNCHANGED <<conn, worker, tasks, sockets, server, posts, met, dangling>>
    PROVE  IInv'
BY DEF IInv, TypeOK, TasksFit, TaskFits, PairsFit, PairFits, SocketsAlive, MetFits, Progress

(* A task of a worker is well formed.                                      *)
LEMMA TaskShape ==
    ASSUME TypeOK, NEW w \in Workers, NEW i \in 1..Len(tasks[w])
    PROVE  tasks[w][i][1] \in {"close", "remove"} /\ tasks[w][i][2] \in Clients
<1>1. tasks[w][i] \in Tasks
  BY ElementOfSeq DEF TypeOK
<1> QED BY <1>1 DEF Tasks

(* A connection without a ReactiveSocket has no task.                      *)
LEMMA NoTaskWithoutSocket ==
    ASSUME IInv, NEW c \in Clients, conn[c] \in {"none", "accepted", "refused"},
           NEW w \in Workers, NEW i \in 1..Len(tasks[w])
    PROVE  tasks[w][i][2] # c
<1>1. TaskFits(w, tasks[w][i]) /\ tasks[w][i][1] \in {"close", "remove"}
  BY TaskShape DEF IInv, TasksFit
<1>2. met[c] = "no"
  BY DEF IInv, MetFits
<1> QED BY <1>1, <1>2 DEF TaskFits

(* A connection that never had a ReactiveSocket changes state.             *)
LEMMA AsideKeeps ==
    ASSUME IInv, NEW c \in Clients, NEW v \in {"none", "accepted", "refused"},
           conn[c] \in {"none", "accepted", "refused"}, conn' = [conn EXCEPT ![c] = v],
           v = "accepted" => server # "gone",
           UNCHANGED <<worker, tasks, sockets, server, posts, met, dangling>>
    PROVE  IInv'
<1>1. TypeOK'
  BY DEF IInv, TypeOK
<1>2. \A d \in Clients : conn'[d] = IF d = c THEN v ELSE conn[d]
  BY DEF IInv, TypeOK
<1>3. TasksFit'
  <2> SUFFICES ASSUME NEW w \in Workers, NEW i \in 1..Len(tasks[w])
               PROVE  TaskFits(w, tasks[w][i])'
    BY DEF TasksFit
  <2>1. TaskFits(w, tasks[w][i]) /\ tasks[w][i][2] # c /\ tasks[w][i][2] \in Clients
    BY NoTaskWithoutSocket, TaskShape DEF IInv, TasksFit
  <2> QED BY <1>2, <2>1 DEF TaskFits
<1>4. PairsFit'
  BY DEF IInv, PairsFit, PairFits
<1>5. SocketsAlive'
  BY <1>2 DEF IInv, SocketsAlive
<1>6. MetFits'
  BY <1>2 DEF IInv, MetFits
<1>7. Progress'
  BY <1>2 DEF IInv, Progress
<1> QED BY <1>1, <1>3, <1>4, <1>5, <1>6, <1>7 DEF IInv

(* The SETUP of a connection arrives: a ReactiveSocket, or a refusal.      *)
LEMMA SetupPreserves ==
    ASSUME IInv, NEW c \in Clients, SetupNewSocket(c)
    PROVE  IInv'
<1>1. conn[c] = "accepted" /\ UNCHANGED <<worker, tasks, server, posts, dangling>>
  BY DEF SetupNewSocket
<1>2. CASE c \in Refusing
  <2>1. conn' = [conn EXCEPT ![c] = "refused"] /\ UNCHANGED <<sockets, met>>
    BY <1>2 DEF SetupNewSocket
  <2> QED BY <1>1, <2>1, AsideKeeps
<1>3. CASE c \notin Refusing
  <2>1. conn' = [conn EXCEPT ![c] = "open"] /\ sockets' = sockets \cup {c}
    BY <1>3 DEF SetupNewSocket
  <2>2. PICK v \in {"no", "joined", "late"} :
           /\ met' = [met EXCEPT ![c] = v] /\ (Told => v = "late")
           /\ v # "no" => server \notin {"new", "started", "parked", "stopping"}
    <3>1. met[c] = "no"
      BY <1>1 DEF IInv, MetFits
    <3>2. met' = [met EXCEPT ![c] = IF Told THEN "late" ELSE IF ShuttingDown THEN "joined" ELSE "no"]
      BY <1>3, <3>1 DEF SetupNewSocket
    <3>3. CASE Told
      <4>1. met' = [met EXCEPT ![c] = "late"]
        BY <3>2, <3>3
      <4>2. server \in {"waiting", "done", "gone", "left"}
        BY <3>3 DEF Told, IInv, Progress, TypeOK
      <4> QED BY <4>1, <4>2, Zenon
    <3>4. CASE ~Told /\ ShuttingDown
      BY <3>2, <3>4 DEF ShuttingDown
    <3>5. CASE ~Told /\ ~ShuttingDown
      BY <3>2, <3>5
    <3> QED BY <3>3, <3>4, <3>5
  <2>3. /\ \A d \in Clients : conn'[d] = IF d = c THEN "open" ELSE conn[d]
        /\ \A d \in Clients : met'[d] = IF d = c THEN v ELSE met[d]
    BY <2>1, <2>2 DEF IInv, TypeOK
  <2>4. TypeOK'
    BY <1>1, <2>1, <2>2 DEF IInv, TypeOK
  <2>5. \A w \in Workers : \A i \in 1..Len(tasks[w]) :
           TaskFits(w, tasks[w][i]) /\ tasks[w][i][2] # c /\ tasks[w][i][2] \in Clients
    BY <1>1, NoTaskWithoutSocket, TaskShape DEF IInv, TasksFit
  <2>6. TasksFit'
    <3> SUFFICES ASSUME NEW w \in Workers, NEW i \in 1..Len(tasks[w])
                 PROVE  TaskFits(w, tasks[w][i])'
      BY <1>1 DEF TasksFit
    <3> QED BY <1>1, <2>3, <2>5 DEF TaskFits
  <2>7. PairsFit'
    <3> SUFFICES ASSUME NEW w \in Workers, NEW i \in 1..Len(tasks[w]), NEW j \in 1..Len(tasks[w])
                 PROVE  PairFits(i, tasks[w][i], j, tasks[w][j])'
      BY <1>1 DEF PairsFit
    <3>1. PairFits(i, tasks[w][i], j, tasks[w][j])
      BY DEF IInv, PairsFit
    <3> QED BY <1>1, <2>3, <2>5, <3>1 DEF PairFits
  <2>8. SocketsAlive'
    BY <2>1, <2>3 DEF IInv, SocketsAlive
  <2>9. MetFits'
    <3>1. c \notin dangling
      BY <1>1 DEF IInv, MetFits
    <3> QED BY <1>1, <2>2, <2>3, <3>1 DEF IInv, MetFits, TypeOK
  <2>10. Progress'
    <3>1. server # "gone"
      BY <1>1 DEF IInv, Progress
    <3>2. posts' # 0 \/ server' \in {"left", "done"} => Told
      BY <1>1 DEF Told, IInv, Progress, TypeOK
    <3>3. posts' # 0 \/ server' \in {"left", "done"} => \A d \in sockets' : met'[d] = "late"
      BY <1>1, <2>1, <2>2, <2>3, <3>2 DEF IInv, Progress, TypeOK
    <3>4. posts' > 1 => \E d \in Clients : met'[d] = "late"
      <4>1. posts > 1 => Told
        BY DEF Told, IInv, TypeOK
      <4> QED BY <1>1, <2>2, <2>3, <4>1
    <3> QED BY <1>1, <3>1, <3>3, <3>4 DEF IInv, Progress
  <2> QED BY <2>4, <2>6, <2>7, <2>8, <2>9, <2>10 DEF IInv
<1> QED BY <1>2, <1>3

(***************************************************************************)
(* An open socket closes: its listener adds the task that removes it, to   *)
(* queues q that hold tasks which fit and none that closes or removes it.  *)
(***************************************************************************)
QueueFits(q) ==
    /\ q \in [Workers -> Seq(Tasks)]
    /\ \A w \in Workers : \A i \in 1..Len(q[w]) :
          TaskFits(w, q[w][i]) /\ q[w][i][1] \in {"close", "remove"} /\ q[w][i][2] \in Clients
    /\ \A w \in Workers : \A i, j \in 1..Len(q[w]) : PairFits(i, q[w][i], j, q[w][j])

(* The queues of a state of the invariant fit.                             *)
LEMMA TasksAreFitting ==
    ASSUME IInv
    PROVE  QueueFits(tasks)
BY TaskShape DEF QueueFits, IInv, TypeOK, TasksFit, PairsFit

(* A socket closes.                                                        *)
LEMMA ClosePreserves ==
    ASSUME IInv, NEW c \in Clients, NEW q, QueueFits(q), conn[c] = "open",
           conn' = [conn EXCEPT ![c] = "closed"], tasks' = OnClosed(q, c),
           UNCHANGED <<worker, sockets, server, posts, met, dangling>>
    PROVE  IInv'
<1> DEFINE u == worker[c]
           rem == <<"remove", c>>
<1>1. q \in [Workers -> Seq(Tasks)] /\ TypeOK /\ u \in Workers
  BY DEF QueueFits, IInv, TypeOK
<1>2. \A d \in Clients : conn'[d] = IF d = c THEN "closed" ELSE conn[d]
  BY <1>1 DEF TypeOK
<1>3. Added(q, u, rem) /\ rem[1] = "remove" /\ rem[2] = c
  BY <1>1, OnClosedAdds
<1> HIDE DEF rem, u
<1>4. server # "gone"
  BY DEF IInv, Progress
<1>5. TypeOK'
  BY <1>1, <1>3 DEF TypeOK, Added
<1>6. \A w \in Workers : \A i \in 1..Len(q[w]) :
         ~(q[w][i][1] = "remove" /\ q[w][i][2] = c)
  BY <1>4 DEF QueueFits, TaskFits
<1>7. ASSUME NEW w \in Workers, NEW i \in 1..Len(tasks'[w])
      PROVE  \/ i \in 1..Len(q[w]) /\ tasks'[w][i] = q[w][i]
             \/ w = u /\ i = Len(q[w]) + 1 /\ tasks'[w][i] = rem
  <2>1. CASE w # u
    BY <1>3, <2>1 DEF Added
  <2>2. CASE w = u
    <3>1. i \in 1..Len(q[u]) \/ i = Len(q[u]) + 1
      BY <1>3, <2>2 DEF Added
    <3> QED BY <1>3, <2>2, <3>1 DEF Added
  <2> QED BY <2>1, <2>2
<1>8. TasksFit'
  <2> SUFFICES ASSUME NEW w \in Workers, NEW i \in 1..Len(tasks'[w])
               PROVE  /\ worker'[tasks'[w][i][2]] = w
                      /\ tasks'[w][i][1] = "remove" => conn'[tasks'[w][i][2]] = "closed"
                      /\ tasks'[w][i][1] = "close" =>
                            /\ server' \in {"waiting", "done", "gone"}
                            /\ \/ met'[tasks'[w][i][2]] = "closing"
                               \/ /\ met'[tasks'[w][i][2]] = "no"
                                  /\ conn'[tasks'[w][i][2]] \in {"open", "closed"}
    BY DEF TasksFit, TaskFits
  <2>1. CASE i \in 1..Len(q[w]) /\ tasks'[w][i] = q[w][i]
    BY <1>2, <1>4, <2>1 DEF QueueFits, TaskFits
  <2>2. CASE w = u /\ tasks'[w][i] = rem
    BY <1>2, <1>3, <2>2 DEF u
  <2> QED BY <1>7, <2>1, <2>2
<1>9. PairsFit'
  <2> SUFFICES ASSUME NEW w \in Workers, NEW i \in 1..Len(tasks'[w]), NEW j \in 1..Len(tasks'[w]),
                      tasks'[w][i][2] = tasks'[w][j][2]
               PROVE  /\ tasks'[w][i][1] = tasks'[w][j][1] => i = j
                      /\ tasks'[w][i][1] = "close" /\ tasks'[w][j][1] = "remove"
                           /\ met'[tasks'[w][i][2]] # "closing" => i < j
    BY DEF PairsFit, PairFits
  <2>1. CASE i \in 1..Len(q[w]) /\ tasks'[w][i] = q[w][i]
    <3>1. CASE j \in 1..Len(q[w]) /\ tasks'[w][j] = q[w][j]
      BY <2>1, <3>1 DEF QueueFits, PairFits
    <3>2. CASE j = Len(q[w]) + 1 /\ tasks'[w][j] = rem
      <4>1. i < j
        BY <1>1, <2>1, <3>2, LenProperties
      <4> QED BY <1>3, <1>6, <2>1, <3>2, <4>1
    <3> QED BY <1>7, <3>1, <3>2
  <2>2. CASE i = Len(q[w]) + 1 /\ tasks'[w][i] = rem
    <3>1. CASE j \in 1..Len(q[w]) /\ tasks'[w][j] = q[w][j]
      BY <1>3, <1>6, <2>2, <3>1
    <3>2. CASE j = Len(q[w]) + 1 /\ tasks'[w][j] = rem
      BY <1>3, <2>2, <3>2
    <3> QED BY <1>7, <3>1, <3>2
  <2> QED BY <1>7, <2>1, <2>2
<1>10. SocketsAlive'
  BY <1>2 DEF IInv, SocketsAlive
<1>11. MetFits'
  BY <1>2 DEF IInv, MetFits
<1>12. Progress'
  BY <1>2, <1>4 DEF IInv, Progress
<1> QED BY <1>5, <1>8, <1>9, <1>10, <1>11, <1>12 DEF IInv

(* A connection ends.                                                      *)
LEMMA ClientLeavesPreserves ==
    ASSUME IInv, NEW c \in Clients, ClientLeaves(c)
    PROVE  IInv'
<1>1. UNCHANGED <<worker, sockets, server, posts, met, dangling>>
  BY DEF ClientLeaves
<1>2. CASE conn[c] \in {"none", "accepted"}
  <2>1. conn' = [conn EXCEPT ![c] = "refused"] /\ tasks' = tasks
    BY <1>2 DEF ClientLeaves
  <2> QED BY <1>1, <1>2, <2>1, AsideKeeps
<1>3. CASE conn[c] \in {"closed", "removed", "refused"}
  <2>1. conn' = conn /\ tasks' = tasks
    BY <1>3 DEF ClientLeaves, IInv, TypeOK
  <2> QED BY <1>1, <2>1, ElsewhereKeeps
<1>4. CASE conn[c] = "open"
  <2>1. conn' = [conn EXCEPT ![c] = "closed"] /\ tasks' = OnClosed(tasks, c)
    BY <1>4 DEF ClientLeaves
  <2> QED BY <1>1, <1>4, <2>1, TasksAreFitting, ClosePreserves
<1> QED BY <1>2, <1>3, <1>4 DEF IInv, TypeOK

(***************************************************************************)
(* A worker runs a task: it removes a socket, or closes one and leaves the *)
(* task to remove it.                                                      *)
(***************************************************************************)
LEMMA RunTaskPreserves ==
    ASSUME IInv, NEW w \in Workers, RunTask(w)
    PROVE  IInv'
<1> DEFINE t == Head(tasks[w])
           c == t[2]
           q == [tasks EXCEPT ![w] = Tail(@)]
<1>1. tasks[w] # << >> /\ UNCHANGED <<worker, server, met>>
  BY DEF RunTask
<1>2. Taken(w, q)
  BY <1>1, TailTakes DEF IInv
<1>3. /\ 1 \in 1..Len(tasks[w]) /\ t = tasks[w][1]
      /\ c \in Clients /\ t[1] \in {"close", "remove"}
      /\ TaskFits(w, t) /\ worker[c] = w
  <2>1. 1 \in 1..Len(tasks[w]) /\ Head(tasks[w]) = tasks[w][1]
    BY <1>2 DEF Taken
  <2> QED BY <2>1, TaskShape DEF IInv, TasksFit, TaskFits
(* What is left of the queues, and that it has nothing of the kind of t.   *)
<1>4. QueueFits(q)
  <2> HIDE DEF q
  <2>1. ASSUME NEW v \in Workers, NEW i \in 1..Len(q[v])
        PROVE  TaskFits(v, q[v][i]) /\ q[v][i][1] \in {"close", "remove"} /\ q[v][i][2] \in Clients
    <3>1. CASE v # w
      <4>1. q[v] = tasks[v]
        BY <1>2, <3>1 DEF Taken
      <4> QED BY <4>1, TasksAreFitting DEF QueueFits
    <3>2. CASE v = w
      <4>1. q[w][i] = tasks[w][i + 1] /\ i + 1 \in 1..Len(tasks[w])
        BY <1>2, <3>2 DEF Taken
      <4> QED BY <3>2, <4>1, TasksAreFitting DEF QueueFits
    <3> QED BY <3>1, <3>2
  <2>2. ASSUME NEW v \in Workers, NEW i \in 1..Len(q[v]), NEW j \in 1..Len(q[v])
        PROVE  PairFits(i, q[v][i], j, q[v][j])
    <3>1. CASE v # w
      <4>1. q[v] = tasks[v]
        BY <1>2, <3>1 DEF Taken
      <4> QED BY <4>1, TasksAreFitting DEF QueueFits
    <3>2. CASE v = w
      <4>1. /\ q[w][i] = tasks[w][i + 1] /\ i + 1 \in 1..Len(tasks[w])
            /\ q[w][j] = tasks[w][j + 1] /\ j + 1 \in 1..Len(tasks[w])
        BY <1>2, <3>2 DEF Taken
      <4>2. PairFits(i + 1, tasks[w][i + 1], j + 1, tasks[w][j + 1])
        BY <4>1, TasksAreFitting DEF QueueFits
      <4>3. i \in Int /\ j \in Int
        OBVIOUS
      <4> QED BY <3>2, <4>1, <4>2, <4>3 DEF PairFits
    <3> QED BY <3>1, <3>2
  <2>3. q \in [Workers -> Seq(Tasks)]
    BY <1>2 DEF Taken
  <2> QED BY <2>1, <2>2, <2>3 DEF QueueFits
<1>5. ASSUME NEW v \in Workers, NEW i \in 1..Len(q[v]), q[v][i][2] = c, t[1] = "remove"
      PROVE  q[v][i][1] = "close" /\ met[c] = "closing"
  <2> HIDE DEF q
  <2>1. TaskFits(v, q[v][i]) /\ q[v][i][1] \in {"close", "remove"}
    BY <1>4 DEF QueueFits
  <2>2. v = w
    BY <1>3, <1>5, <2>1 DEF TaskFits
  <2>3. q[w][i] = tasks[w][i + 1] /\ i + 1 \in 1..Len(tasks[w]) /\ i + 1 # 1 /\ ~(i + 1 < 1)
    BY <1>2, <2>2 DEF Taken
  <2>4. /\ PairFits(i + 1, tasks[w][i + 1], 1, tasks[w][1])
        /\ PairFits(1, tasks[w][1], i + 1, tasks[w][i + 1])
    BY <1>3, <2>3 DEF IInv, PairsFit
  <2> QED BY <1>3, <1>5, <2>1, <2>2, <2>3, <2>4 DEF PairFits
<1>6. /\ dangling' \subseteq Clients
      /\ \A d \in dangling' : met[d] \in {"closing", "late"}
  <2>1. dangling' = IF IF t[1] = "remove" THEN server = "gone" ELSE conn[c] = "removed"
                    THEN dangling \cup {c} ELSE dangling
    BY DEF RunTask
  <2>2. CASE t[1] = "remove" /\ server = "gone"
    <3>1. conn[c] # "closed"
      BY <1>3, <2>2 DEF IInv, Progress
    <3>2. met[c] = "late"
      BY <1>3, <2>2, <3>1 DEF TaskFits
    <3> QED BY <1>3, <2>1, <2>2, <3>2 DEF IInv, TypeOK, MetFits
  <2>3. CASE t[1] # "remove" /\ conn[c] = "removed"
    <3>1. met[c] = "closing"
      BY <1>3, <2>3 DEF TaskFits
    <3> QED BY <1>3, <2>1, <2>3, <3>1 DEF IInv, TypeOK, MetFits
  <2>4. CASE dangling' = dangling
    BY <2>4 DEF IInv, TypeOK, MetFits
  <2> QED BY <2>1, <2>2, <2>3, <2>4
<1>7. CASE t[1] = "remove"
  <2>1. /\ sockets' = sockets \ {c} /\ conn' = [conn EXCEPT ![c] = "removed"]
        /\ posts' = IF ShuttingDown /\ sockets' = {} THEN posts + 1 ELSE posts
        /\ tasks' = q
    BY <1>7 DEF RunTask, RemoveSocket
  <2>2. \A d \in Clients : conn'[d] = IF d = c THEN "removed" ELSE conn[d]
    BY <2>1 DEF IInv, TypeOK
  <2>3. conn[c] \in {"closed", "removed"} /\ (server # "gone" => c \in sockets)
    <3>1. CASE conn[c] = "closed"
      BY <1>3, <3>1 DEF IInv, SocketsAlive
    <3>2. CASE server = "gone" /\ met[c] = "late"
      BY <1>3, <3>2 DEF IInv, Progress, MetFits, TypeOK
    <3> QED BY <1>3, <1>7, <3>1, <3>2 DEF TaskFits
  <2> HIDE DEF q, c, t
  <2>4. TypeOK'
    BY <1>1, <1>2, <1>3, <1>6, <2>1 DEF IInv, TypeOK, Taken
  <2>5. TasksFit'
    <3> SUFFICES ASSUME NEW v \in Workers, NEW i \in 1..Len(q[v])
                 PROVE  /\ worker'[q[v][i][2]] = v
                        /\ q[v][i][1] = "remove" =>
                              \/ conn'[q[v][i][2]] = "closed"
                              \/ server' = "gone" /\ met'[q[v][i][2]] = "late"
                        /\ q[v][i][1] = "close" =>
                              /\ server' \in {"waiting", "done", "gone"}
                              /\ \/ met'[q[v][i][2]] = "closing"
                                 \/ met'[q[v][i][2]] = "no" /\ conn'[q[v][i][2]] \in {"open", "closed"}
      BY <2>1 DEF TasksFit, TaskFits
    <3>1. TaskFits(v, q[v][i]) /\ q[v][i][1] \in {"close", "remove"} /\ q[v][i][2] \in Clients
      BY <1>4 DEF QueueFits
    <3>2. CASE q[v][i][2] = c
      BY <1>1, <1>5, <1>7, <3>1, <3>2 DEF TaskFits
    <3>3. CASE q[v][i][2] # c
      BY <1>1, <2>2, <3>1, <3>3 DEF TaskFits
    <3> QED BY <3>2, <3>3
  <2>6. PairsFit'
    BY <1>1, <1>4, <2>1 DEF QueueFits, PairsFit, PairFits
  <2>7. SocketsAlive'
    BY <1>3, <2>1, <2>2 DEF IInv, SocketsAlive
  <2>8. MetFits'
    BY <1>1, <1>6, <2>2, <2>3 DEF IInv, MetFits
  <2>9. Progress'
    <3>1. CASE ShuttingDown /\ sockets' = {}
      <4>1. posts' = posts + 1 /\ posts \in Nat /\ c \in sockets
        BY <2>1, <2>3, <3>1 DEF ShuttingDown, IInv, TypeOK
      <4>2. posts' > 1 => \E d \in Clients : met'[d] = "late"
        <5>1. posts' > 1 => posts # 0
          BY <4>1
        <5> QED BY <1>1, <1>3, <4>1, <5>1 DEF IInv, Progress
      <4> QED BY <1>1, <2>2, <3>1, <4>1, <4>2 DEF ShuttingDown, IInv, Progress
    <3>2. CASE posts' = posts
      BY <1>1, <2>1, <2>2, <3>2 DEF IInv, Progress
    <3> QED BY <2>1, <3>1, <3>2
  <2> QED BY <2>4, <2>5, <2>6, <2>7, <2>8, <2>9 DEF IInv
<1>8. CASE t[1] = "close" /\ conn[c] = "open"
  <2>1. /\ conn' = [conn EXCEPT ![c] = "closed"] /\ tasks' = OnClosed(q, c)
        /\ UNCHANGED <<sockets, posts>>
    BY <1>8 DEF RunTask
  <2>2. dangling' = dangling
    BY <1>8 DEF RunTask
  <2> HIDE DEF q, c, t
  <2> QED BY <1>1, <1>3, <1>4, <1>8, <2>1, <2>2, ClosePreserves
<1>9. CASE t[1] = "close" /\ conn[c] # "open"
  <2>1. tasks' = q /\ UNCHANGED <<conn, sockets, posts>>
    BY <1>9 DEF RunTask
  <2> HIDE DEF q, c, t
  <2>2. TypeOK'
    BY <1>1, <1>2, <1>6, <2>1 DEF IInv, TypeOK, Taken
  <2>3. TasksFit'
    BY <1>1, <1>4, <2>1 DEF QueueFits, TasksFit, TaskFits
  <2>5. PairsFit'
    BY <1>1, <1>4, <2>1 DEF QueueFits, PairsFit, PairFits
  <2>4. SocketsAlive' /\ MetFits' /\ Progress'
    BY <1>1, <1>6, <2>1 DEF IInv, SocketsAlive, MetFits, Progress
  <2> QED BY <2>2, <2>3, <2>4, <2>5 DEF IInv
<1> QED BY <1>3, <1>7, <1>8, <1>9

(* Starting the server, the destructor's first step, and its waking up.    *)
LEMMA StartAndStopPreserve ==
    ASSUME IInv, Start \/ Unpark \/ Stop \/ Wait
    PROVE  IInv'
<1>1. UNCHANGED <<conn, worker, tasks, sockets, posts, met, dangling>>
  BY DEF Start, Unpark, Stop, Wait, ServerStep
<1>2. \/ server' \in {"started", "parked", "stopping"} /\ server \in {"new", "parked", "started"}
      \/ server' = "done" /\ server = "waiting" /\ posts # 0
  BY DEF Start, Unpark, Stop, Wait
<1>3. TypeOK'
  BY <1>1, <1>2 DEF IInv, TypeOK
<1>4. TasksFit'
  BY <1>1, <1>2 DEF IInv, TasksFit, TaskFits
<1>5. PairsFit' /\ SocketsAlive' /\ MetFits' /\ Progress'
  BY <1>1, <1>2 DEF IInv, PairsFit, PairFits, SocketsAlive, MetFits, Progress
<1> QED BY <1>3, <1>4, <1>5 DEF IInv

(* The destructor has every socket closed by its worker, or finds none.    *)
LEMMA CloseAllPreserves ==
    ASSUME IInv, CloseAll
    PROVE  IInv'
<1>1. server = "stopping" /\ UNCHANGED <<conn, worker, sockets, posts, dangling>>
  BY DEF CloseAll, ServerStep
<1>2. \A c \in Clients : met[c] = "no"
  BY <1>1 DEF IInv, MetFits
<1>3. posts = 0
  BY <1>1 DEF IInv, Progress
<1>4. \A w \in Workers : \A i \in 1..Len(tasks[w]) :
         /\ tasks[w][i][1] = "remove" /\ tasks[w][i][2] \in Clients
         /\ conn[tasks[w][i][2]] = "closed" /\ worker[tasks[w][i][2]] = w
  <2> SUFFICES ASSUME NEW w \in Workers, NEW i \in 1..Len(tasks[w])
               PROVE  /\ tasks[w][i][1] = "remove" /\ tasks[w][i][2] \in Clients
                      /\ conn[tasks[w][i][2]] = "closed" /\ worker[tasks[w][i][2]] = w
    OBVIOUS
  <2>1. TaskFits(w, tasks[w][i]) /\ tasks[w][i][1] \in {"close", "remove"} /\ tasks[w][i][2] \in Clients
    BY TaskShape DEF IInv, TasksFit
  <2> QED BY <1>1, <2>1 DEF TaskFits
<1>5. CASE sockets = {}
  <2>1. server' = "left" /\ UNCHANGED <<tasks, met>>
    BY <1>5 DEF CloseAll
  <2>2. TypeOK'
    BY <1>1, <2>1 DEF IInv, TypeOK
  <2>3. TasksFit' /\ PairsFit'
    BY <1>1, <1>4, <2>1 DEF IInv, TasksFit, TaskFits, PairsFit, PairFits
  <2>4. SocketsAlive' /\ MetFits' /\ Progress'
    BY <1>1, <1>3, <1>5, <2>1 DEF IInv, SocketsAlive, MetFits, Progress
  <2> QED BY <2>2, <2>3, <2>4 DEF IInv
<1>6. CASE sockets # {}
  <2> DEFINE add(w) == TasksFor("close", sockets, w)
  <2>1. /\ server' = "waiting"
        /\ tasks' = [w \in Workers |-> tasks[w] \o add(w)]
        /\ met' = [c \in Clients |-> IF conn[c] = "closed" THEN "closing" ELSE met[c]]
    BY <1>6 DEF CloseAll
  <2>2. \A c \in Clients : met'[c] = IF conn[c] = "closed" THEN "closing" ELSE "no"
    BY <1>2, <2>1
  <2>3. \A w \in Workers : add(w) \in Seq(Tasks) /\ tasks[w] \in Seq(Tasks) /\ Len(tasks[w]) \in Nat
    BY TasksForSockets, LenProperties DEF IInv, TypeOK
  <2>4. \A w \in Workers :
           /\ \A i \in 1..Len(add(w)) :
                 add(w)[i][1] = "close" /\ add(w)[i][2] \in sockets /\ worker[add(w)[i][2]] = w
           /\ \A i, j \in 1..Len(add(w)) : add(w)[i][2] = add(w)[j][2] => i = j
    BY TasksForSockets DEF IInv, TypeOK
  <2> HIDE DEF add
  <2>5. ASSUME NEW w \in Workers
        PROVE  /\ tasks'[w] \in Seq(Tasks)
               /\ \A i \in 1..Len(tasks'[w]) :
                     \/ i \in 1..Len(tasks[w]) /\ tasks'[w][i] = tasks[w][i]
                     \/ i - Len(tasks[w]) \in 1..Len(add(w)) /\ tasks'[w][i] = add(w)[i - Len(tasks[w])]
    <3>1. tasks'[w] = tasks[w] \o add(w)
      BY <2>1
    <3> QED BY <2>3, <3>1, ConcatPlaces
  <2>6. TypeOK'
    <3>1. tasks' \in [Workers -> Seq(Tasks)]
      BY <2>1, <2>5
    <3>2. met' \in [Clients -> {"no", "closing", "joined", "late"}]
      BY <1>2, <2>1
    <3> QED BY <1>1, <2>1, <3>1, <3>2 DEF IInv, TypeOK
  <2>7. TasksFit'
    <3> SUFFICES ASSUME NEW w \in Workers, NEW i \in 1..Len(tasks'[w])
                 PROVE  /\ worker'[tasks'[w][i][2]] = w
                        /\ tasks'[w][i][1] = "remove" => conn'[tasks'[w][i][2]] = "closed"
                        /\ tasks'[w][i][1] = "close" =>
                              /\ server' \in {"waiting", "done", "gone"}
                              /\ \/ met'[tasks'[w][i][2]] = "closing"
                                 \/ /\ met'[tasks'[w][i][2]] = "no"
                                    /\ conn'[tasks'[w][i][2]] \in {"open", "closed"}
      BY DEF TasksFit, TaskFits
    <3>1. CASE i \in 1..Len(tasks[w]) /\ tasks'[w][i] = tasks[w][i]
      BY <1>1, <1>4, <3>1
    <3>2. CASE i - Len(tasks[w]) \in 1..Len(add(w)) /\ tasks'[w][i] = add(w)[i - Len(tasks[w])]
      <4>1. tasks'[w][i][1] = "close" /\ tasks'[w][i][2] \in sockets /\ worker[tasks'[w][i][2]] = w
        BY <2>4, <3>2
      <4> QED BY <1>1, <2>1, <2>2, <4>1 DEF IInv, SocketsAlive
    <3> QED BY <2>5, <3>1, <3>2
  <2>8. PairsFit'
    <3> SUFFICES ASSUME NEW w \in Workers, NEW i \in 1..Len(tasks'[w]), NEW j \in 1..Len(tasks'[w]),
                        tasks'[w][i][2] = tasks'[w][j][2]
                 PROVE  /\ tasks'[w][i][1] = tasks'[w][j][1] => i = j
                        /\ tasks'[w][i][1] = "close" /\ tasks'[w][j][1] = "remove"
                             /\ met'[tasks'[w][i][2]] # "closing" => i < j
      BY DEF PairsFit, PairFits
    <3>1. CASE i \in 1..Len(tasks[w]) /\ tasks'[w][i] = tasks[w][i]
      <4>1. CASE j \in 1..Len(tasks[w]) /\ tasks'[w][j] = tasks[w][j]
        BY <1>4, <3>1, <4>1 DEF IInv, PairsFit, PairFits
      <4>2. CASE j - Len(tasks[w]) \in 1..Len(add(w)) /\ tasks'[w][j] = add(w)[j - Len(tasks[w])]
        BY <1>4, <2>4, <3>1, <4>2
      <4> QED BY <2>5, <4>1, <4>2
    <3>2. CASE i - Len(tasks[w]) \in 1..Len(add(w)) /\ tasks'[w][i] = add(w)[i - Len(tasks[w])]
      <4>1. CASE j \in 1..Len(tasks[w]) /\ tasks'[w][j] = tasks[w][j]
        <5>1. tasks'[w][i][1] = "close" /\ tasks'[w][j][1] = "remove"
          BY <1>4, <2>4, <3>2, <4>1
        <5>2. met'[tasks'[w][i][2]] = "closing"
          BY <1>4, <2>2, <4>1
        <5> QED BY <5>1, <5>2
      <4>2. CASE j - Len(tasks[w]) \in 1..Len(add(w)) /\ tasks'[w][j] = add(w)[j - Len(tasks[w])]
        <5>1. i - Len(tasks[w]) = j - Len(tasks[w])
          BY <2>4, <3>2, <4>2
        <5>2. i = j
          BY <2>3, <5>1
        <5>3. tasks'[w][j][1] = "close"
          BY <2>4, <4>2
        <5> QED BY <5>2, <5>3
      <4> QED BY <2>5, <4>1, <4>2
    <3> QED BY <2>5, <3>1, <3>2
  <2>9. SocketsAlive'
    BY <1>1 DEF IInv, SocketsAlive
  <2>10. MetFits'
    <3>1. dangling' = {}
      BY <1>1, <1>2 DEF IInv, MetFits, TypeOK
    <3> QED BY <1>1, <2>1, <2>2, <3>1 DEF MetFits
  <2>11. Progress'
    BY <1>1, <1>3, <2>1 DEF Progress
  <2> QED BY <2>6, <2>7, <2>8, <2>9, <2>10, <2>11 DEF IInv
<1> QED BY <1>5, <1>6

(* The server's members are destroyed, with the sockets that came late.    *)
LEMMA DestroyPreserves ==
    ASSUME IInv, DestroyMembers
    PROVE  IInv'
<1> DEFINE owned == {c \in sockets : conn[c] = "open"}
           add(w) == TasksFor("remove", owned, w)
<1>1. /\ server \in {"left", "done"} /\ server' = "gone" /\ sockets' = {}
      /\ UNCHANGED <<worker, posts, met, dangling>>
      /\ tasks' = [w \in Workers |-> tasks[w] \o add(w)]
  BY DEF DestroyMembers, ServerStep
<1>2. /\ conn' \in [Clients -> {"none", "removed", "refused"}]
      /\ \A c \in Clients :
            /\ conn'[c] \notin {"accepted", "open", "closed"}
            /\ conn'[c] \in {"none", "accepted", "refused"} =>
                  conn[c] \in {"none", "accepted", "refused"}
  BY DEF DestroyMembers, IInv, TypeOK
<1>3. \A c \in sockets : met[c] = "late"
  BY <1>1 DEF IInv, Progress
<1>4. owned \in SUBSET Clients /\ \A c \in owned : c \in sockets /\ conn[c] = "open"
  BY DEF IInv, TypeOK
<1> HIDE DEF owned
<1>5. \A w \in Workers : add(w) \in Seq(Tasks) /\ tasks[w] \in Seq(Tasks) /\ Len(tasks[w]) \in Nat
  BY <1>4, TasksForSockets, LenProperties DEF IInv, TypeOK
<1>6. \A w \in Workers :
         /\ \A i \in 1..Len(add(w)) :
               add(w)[i][1] = "remove" /\ add(w)[i][2] \in owned /\ worker[add(w)[i][2]] = w
         /\ \A i, j \in 1..Len(add(w)) : add(w)[i][2] = add(w)[j][2] => i = j
  BY <1>4, TasksForSockets DEF IInv
<1> HIDE DEF add
<1>7. ASSUME NEW w \in Workers
      PROVE  /\ tasks'[w] \in Seq(Tasks)
             /\ \A i \in 1..Len(tasks'[w]) :
                   \/ i \in 1..Len(tasks[w]) /\ tasks'[w][i] = tasks[w][i]
                   \/ /\ i - Len(tasks[w]) \in 1..Len(add(w)) /\ i > Len(tasks[w])
                      /\ tasks'[w][i] = add(w)[i - Len(tasks[w])]
  <2>1. tasks'[w] = tasks[w] \o add(w)
    BY <1>1
  <2> QED BY <1>5, <2>1, ConcatPlaces
(* A task that was there: a removal is of a late socket, a close of one    *)
(* whose removal was under way.                                            *)
<1>8. ASSUME NEW w \in Workers, NEW i \in 1..Len(tasks[w])
      PROVE  /\ worker[tasks[w][i][2]] = w /\ tasks[w][i][2] \in Clients
             /\ tasks[w][i][1] = "remove" =>
                   conn[tasks[w][i][2]] = "closed" /\ met[tasks[w][i][2]] = "late"
             /\ tasks[w][i][1] = "close" =>
                   server = "done" /\ met[tasks[w][i][2]] = "closing"
  <2>1. TaskFits(w, tasks[w][i]) /\ tasks[w][i][1] \in {"close", "remove"} /\ tasks[w][i][2] \in Clients
    BY TaskShape DEF IInv, TasksFit
  <2>2. conn[tasks[w][i][2]] \in {"open", "closed"} => met[tasks[w][i][2]] = "late"
    BY <1>3, <2>1 DEF IInv, SocketsAlive
  <2> QED BY <1>1, <2>1, <2>2 DEF TaskFits
<1>9. TypeOK'
  <2>1. tasks' \in [Workers -> Seq(Tasks)]
    BY <1>1, <1>7
  <2> QED BY <1>1, <1>2, <2>1 DEF IInv, TypeOK
<1>10. TasksFit'
  <2> SUFFICES ASSUME NEW w \in Workers, NEW i \in 1..Len(tasks'[w])
               PROVE  /\ worker'[tasks'[w][i][2]] = w
                      /\ tasks'[w][i][1] = "remove" => server' = "gone" /\ met'[tasks'[w][i][2]] = "late"
                      /\ tasks'[w][i][1] = "close" =>
                            server' = "gone" /\ met'[tasks'[w][i][2]] = "closing"
    BY DEF TasksFit, TaskFits
  <2>1. CASE i \in 1..Len(tasks[w]) /\ tasks'[w][i] = tasks[w][i]
    BY <1>1, <1>8, <2>1
  <2>2. CASE i - Len(tasks[w]) \in 1..Len(add(w)) /\ tasks'[w][i] = add(w)[i - Len(tasks[w])]
    BY <1>1, <1>3, <1>4, <1>6, <2>2
  <2> QED BY <1>7, <2>1, <2>2
<1>11. PairsFit'
  <2> SUFFICES ASSUME NEW w \in Workers, NEW i \in 1..Len(tasks'[w]), NEW j \in 1..Len(tasks'[w]),
                      tasks'[w][i][2] = tasks'[w][j][2]
               PROVE  /\ tasks'[w][i][1] = tasks'[w][j][1] => i = j
                      /\ tasks'[w][i][1] = "close" /\ tasks'[w][j][1] = "remove"
                           /\ met'[tasks'[w][i][2]] # "closing" => i < j
    BY DEF PairsFit, PairFits
  <2>1. CASE i \in 1..Len(tasks[w]) /\ tasks'[w][i] = tasks[w][i]
    <3>1. CASE j \in 1..Len(tasks[w]) /\ tasks'[w][j] = tasks[w][j]
      BY <1>1, <2>1, <3>1 DEF IInv, PairsFit, PairFits
    <3>2. CASE j - Len(tasks[w]) \in 1..Len(add(w)) /\ tasks'[w][j] = add(w)[j - Len(tasks[w])]
      <4>1. tasks'[w][j][1] = "remove" /\ conn[tasks'[w][j][2]] = "open"
        BY <1>4, <1>6, <3>2
      <4>2. tasks'[w][i][1] = "remove" => conn[tasks'[w][i][2]] = "closed"
        BY <1>8, <2>1
      <4>3. tasks'[w][i][1] = "close" => met'[tasks'[w][i][2]] = "closing"
        <5>1. tasks[w][i][1] = "close" => met[tasks[w][i][2]] = "closing"
          BY <1>8, <2>1
        <5> QED BY <1>1, <2>1, <5>1
      <4> QED BY <4>1, <4>2, <4>3
    <3> QED BY <1>7, <3>1, <3>2
  <2>2. CASE i - Len(tasks[w]) \in 1..Len(add(w)) /\ tasks'[w][i] = add(w)[i - Len(tasks[w])]
    <3>0. tasks'[w][i][1] = "remove" /\ conn[tasks'[w][i][2]] = "open"
      BY <1>4, <1>6, <2>2
    <3>1. CASE j \in 1..Len(tasks[w]) /\ tasks'[w][j] = tasks[w][j]
      <4>1. tasks'[w][j][1] = "remove" => conn[tasks'[w][j][2]] = "closed"
        BY <1>8, <3>1
      <4> QED BY <3>0, <4>1
    <3>2. CASE j - Len(tasks[w]) \in 1..Len(add(w)) /\ tasks'[w][j] = add(w)[j - Len(tasks[w])]
      <4>1. i - Len(tasks[w]) = j - Len(tasks[w])
        BY <1>6, <2>2, <3>2
      <4>2. i = j
        BY <1>5, <4>1
      <4> QED BY <3>0, <4>2
    <3> QED BY <1>7, <3>1, <3>2
  <2> QED BY <1>7, <2>1, <2>2
<1>12. SocketsAlive'
  BY <1>1, <1>2 DEF SocketsAlive
<1>13. MetFits'
  BY <1>1, <1>2 DEF IInv, MetFits
<1>14. Progress'
  BY <1>1, <1>2 DEF IInv, Progress
<1> QED BY <1>9, <1>10, <1>11, <1>12, <1>13, <1>14 DEF IInv

-----------------------------------------------------------------------------
(* A server that was not started satisfies the invariant.                  *)
LEMMA InitEstablishes == Init => IInv
<1> SUFFICES ASSUME Init PROVE IInv
  OBVIOUS
<1>1. TypeOK
  BY EmptySeq DEF Init, TypeOK
<1>2. \A w \in Workers : Len(tasks[w]) = 0
  BY DEF Init
<1>3. TasksFit /\ PairsFit
  BY <1>2 DEF TasksFit, PairsFit
<1>4. SocketsAlive /\ MetFits /\ Progress
  BY DEF Init, SocketsAlive, MetFits, Progress
<1> QED BY <1>1, <1>3, <1>4 DEF IInv

(* Every step keeps the invariant.                                         *)
LEMMA NextPreserves == IInv /\ [Next]_vars => IInv'
<1> SUFFICES ASSUME IInv, [Next]_vars PROVE IInv'
  OBVIOUS
<1>1. CASE UNCHANGED vars
  BY <1>1, ElsewhereKeeps DEF vars
<1>2. ASSUME NEW c \in Clients,
             \/ Connect(c) \/ ConnectSuccess(c) \/ ConnectErr(c) \/ Request(c)
             \/ ClientRuns(c) \/ ConnectionLost(c) \/ Answer(c)
      PROVE  IInv'
  BY <1>2, ElsewhereKeeps DEF Connect, ConnectSuccess, ConnectErr, Request, ClientRuns,
     ConnectionLost, Answer, ClientStep
<1>3. ASSUME NEW c \in Clients, ConnectionAccepted(c)
      PROVE  IInv'
  BY <1>3, AsideKeeps DEF ConnectionAccepted, ClientStep
<1>4. ASSUME NEW c \in Clients, SetupNewSocket(c) \/ ClientLeaves(c)
      PROVE  IInv'
  BY <1>4, SetupPreserves, ClientLeavesPreserves
<1>5. ASSUME NEW w \in Workers, RunTask(w)
      PROVE  IInv'
  BY <1>5, RunTaskPreserves
<1>6. CASE Start \/ Unpark \/ Stop \/ Wait
  BY <1>6, StartAndStopPreserve
<1>7. CASE CloseAll \/ DestroyMembers
  BY <1>7, CloseAllPreserves, DestroyPreserves
<1> QED BY <1>1, <1>2, <1>3, <1>4, <1>5, <1>6, <1>7 DEF Next

(* The invariant holds in every state.                                     *)
LEMMA Invariance == Spec => []IInv
BY InitEstablishes, NextPreserves, PTL DEF Spec

(***************************************************************************)
(* What ~RSocketServer leaves behind when its body ends, for any number of *)
(* clients and workers and whatever arrives or ends meanwhile: sockets and *)
(* tasks of SETUPs that came after it was told that none is left, and the  *)
(* closing of sockets whose removal was under way.  Without either there   *)
(* is nothing, and shutdown_ was posted once.                              *)
(***************************************************************************)
THEOREM ShutdownIsQuiet == Spec => []QuietAfterShutdown
<1>1. IInv => QuietAfterShutdown
  <2> SUFFICES ASSUME IInv PROVE QuietAfterShutdown
    OBVIOUS
  <2>1. ASSUME server \in {"left", "done"}, NEW w \in Workers, NEW i \in DOMAIN tasks[w]
        PROVE  LET t == tasks[w][i]
               IN  met[t[2]] = "late" \/ (t[1] = "close" /\ met[t[2]] = "closing")
    <3>1. i \in 1..Len(tasks[w])
      BY DEF IInv, TypeOK
    <3>2. TaskFits(w, tasks[w][i]) /\ tasks[w][i][1] \in {"close", "remove"} /\ tasks[w][i][2] \in Clients
      BY <3>1, TaskShape DEF IInv, TasksFit
    <3>3. conn[tasks[w][i][2]] \in {"open", "closed"} => met[tasks[w][i][2]] = "late"
      BY <2>1, <3>2 DEF IInv, SocketsAlive, Progress
    <3> QED BY <2>1, <3>2, <3>3 DEF TaskFits
  <2> QED BY <2>1 DEF IInv, Progress, QuietAfterShutdown
<1> QED BY <1>1, Invariance, PTL

(***************************************************************************)
(* sockets_ holds a socket from its SETUP until its one removal; a deleted *)
(* ReactiveSocket is called only by the destructor's close of a socket     *)
(* that was being removed, a destroyed server only by the removal of one   *)
(* that came too late.                                                     *)
(***************************************************************************)
THEOREM NothingDanglesEver == Spec => []NothingDangles
<1>1. IInv => NothingDangles
  BY DEF IInv, SocketsAlive, MetFits, NothingDangles
<1> QED BY <1>1, Invariance, PTL

=============================================================================
