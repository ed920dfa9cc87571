----------------------------- MODULE ByteQueue -----------------------------
(***************************************************************************)
(* What the ring buffer of elog_async.c promises: a bounded first-in       *)
(* first-out queue of bytes.  A log that finds too little room loses its   *)
(* end; a read takes some of the oldest bytes, and none only when there    *)
(* are none.                                                               *)
(***************************************************************************)
EXTENDS Naturals, Sequences

CONSTANTS Log,       \* the logs that may be put
          N,         \* the capacity in bytes
          PollSize   \* the reader's buffer

VARIABLES queue,     \* the bytes stored, oldest first
          line       \* the bytes the last read returned

Room == N - Len(queue)
Lesser(i, j) == IF i <= j THEN i ELSE j

Init == queue = <<>> /\ line = <<>>

Put(log) ==
    /\ queue' = queue \o SubSeq(log, 1, Lesser(Len(log), Room))
    /\ line' = line

Get ==
    \E n \in 0..Lesser(PollSize, Len(queue)) :
        /\ n = 0 => queue = <<>>
        /\ line' = SubSeq(queue, 1, n)
        /\ queue' = SubSeq(queue, n + 1, Len(queue))

Next == (\E log \in Log : Put(log)) \/ Get
Spec == Init /\ [][Next]_<<queue, line>>
=============================================================================
