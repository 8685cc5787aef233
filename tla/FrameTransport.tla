--------------------------- MODULE FrameTransport ---------------------------
(***************************************************************************)
(* FrameTransport (src/src/FrameTransport.cpp) as operators on a record x: *)
(* the transport stands between a DuplexConnection and the FrameProcessor  *)
(* that owns it at the moment.  It queues what is read while there is no   *)
(* processor, what is written while there is no allowance, and the end of  *)
(* the connection.  The operators that call the processor, which may call  *)
(* back, are in ServerConnectionAcceptor.                                  *)
(***************************************************************************)
EXTENDS Allowance, Sequences, SequencesExt

(***************************************************************************)
(* The fields of the class, and what left it: wire is what was given to    *)
(* connectionOutput_.  connection, output and input say whether            *)
(* connection_, connectionOutput_ and connectionInputSub_ are set.  fatal  *)
(* is set where the program would call through a null pointer or fail a    *)
(* CHECK.                                                                  *)
(***************************************************************************)
NewTransport ==
    [processor |-> "none", allowance |-> 0,
     connection |-> TRUE, output |-> FALSE, input |-> FALSE,
     pendingWrites |-> << >>, pendingReads |-> << >>, pendingTerminal |-> FALSE,
     wire |-> << >>, fatal |-> FALSE]

Check(x, condition) == IF condition THEN x ELSE [x EXCEPT !.fatal = TRUE]

IsClosed(x) == ~x.connection

-----------------------------------------------------------------------------
(* Writing.                                                                *)

Drainable(x) ==
    IF IsInfinite(x.allowance) \/ x.allowance >= Len(x.pendingWrites)
    THEN Len(x.pendingWrites)
    ELSE x.allowance

DrainOutputFramesQueue(x) ==
    LET n == Drainable(x)
    IN  IF IsClosed(x) THEN x
        ELSE Check([x EXCEPT !.wire = @ \o SubSeq(x.pendingWrites, 1, n),
                             !.pendingWrites = SubSeq(@, n + 1, Len(@)),
                             !.allowance = IF IsInfinite(@) THEN @ ELSE @ - n],
                   n > 0 => x.output)

(* A frame is taken when the transport is closed as well, and queued.      *)
OutputFrameOrEnqueue(x, frame) ==
    LET y == DrainOutputFramesQueue(x)
    IN  IF ~IsClosed(x) /\ y.pendingWrites = << >> /\ CanAcquire(y.allowance)
        THEN Check([y EXCEPT !.wire = Append(@, frame),
                             !.allowance = AfterAcquire(@)], y.output)
        ELSE [y EXCEPT !.pendingWrites = Append(@, frame)]

(* Mutant of Request: the queue is not drained.                            *)
RequestOnly(x, n) ==
    IF IsClosed(x) THEN x ELSE [x EXCEPT !.allowance = Release(@, n)]

(* release returns the old value: if there was allowance nothing waits.    *)
Request(x, n) ==
    LET y == [x EXCEPT !.allowance = Release(@, n)]
    IN  CASE IsClosed(x) -> x
          [] ~IsClosed(x) /\ x.allowance > 0 -> y
          [] OTHER -> DrainOutputFramesQueue(y)

-----------------------------------------------------------------------------
(* Connecting and closing.                                                 *)

(***************************************************************************)
(* connect: the connection may ask for frames in connectionOutput_'s       *)
(* onSubscribe: n of them.  FrameTransport::onSubscribe checks that there  *)
(* is a processor.                                                         *)
(***************************************************************************)
ConnectTransport(x, n) ==
    IF x.output THEN x
    ELSE Check([Request([x EXCEPT !.output = TRUE], n) EXCEPT !.input = TRUE],
               x.connection /\ ~x.input /\ x.processor # "none")

(***************************************************************************)
(* close: the processor is forgotten first.  What still waits to be        *)
(* written is not.                                                         *)
(***************************************************************************)
CloseTransport(x) ==
    IF IsClosed(x) THEN [x EXCEPT !.processor = "none"]
    ELSE [x EXCEPT !.processor = "none", !.connection = FALSE,
                   !.output = FALSE, !.input = FALSE]

=============================================================================
