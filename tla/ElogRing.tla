------------------------------ MODULE ElogRing ------------------------------
(***************************************************************************)
(* The ring buffer of extlib/easylogger/elog_async.c: two indices into     *)
(* log_buf and two flags that tell a full buffer from an empty one when    *)
(* the indices meet.  Both operations run under the output lock, so each   *)
(* is one step.  N is OUTPUT_BUF_SIZE, 5120 in the program.                *)
(***************************************************************************)
EXTENDS Naturals, Sequences

CONSTANTS N,         \* OUTPUT_BUF_SIZE
          PollSize,  \* ELOG_ASYNC_POLL_GET_LOG_BUF_SIZE, the reader's buffer
          Byte,
          Newline,   \* ELOG_NEWLINE_SIGN
          Zero,      \* the byte a fresh buffer holds
          Log        \* the logs elog_output may hand over; each ends with a
                     \* newline, so that none is empty

ASSUME RingAssumption ==
    /\ N \in Nat \ {0} /\ PollSize \in Nat \ {0}
    /\ Newline \in Byte /\ Zero \in Byte
    /\ Log \subseteq Seq(Byte) \ {<<>>}

VARIABLES log_buf, write_index, read_index, buf_is_full, buf_is_empty,
          put_size,  \* what the last async_put_log returned
          line,      \* what the last elog_async_get_line_log copied out
          held       \* history: the number of bytes stored and not read yet

indices == <<write_index, read_index, buf_is_full, buf_is_empty>>
ringVars == <<log_buf, indices, put_size, line, held>>

RingInit ==
    /\ log_buf = [i \in 0..(N - 1) |-> Zero]
    /\ write_index = 0 /\ read_index = 0
    /\ buf_is_full = FALSE /\ buf_is_empty = TRUE
    /\ put_size = 0
    /\ line = <<>>
    /\ held = 0

-----------------------------------------------------------------------------
\* elog_async_get_buf_used
BufUsed ==
    IF write_index > read_index THEN write_index - read_index
    ELSE IF ~buf_is_full /\ ~buf_is_empty THEN N - (read_index - write_index)
    ELSE IF buf_is_full THEN N
    ELSE 0

\* async_get_buf_space
BufSpace == N - BufUsed

\* An index moved on by at most N, round the end of the buffer.
Around(i) == IF i < N THEN i ELSE i - N

\* Mutant: the second memcpy starts one byte early.
PlaceWrapsEarly(w, i) == IF i >= w THEN i - w + 1 ELSE i + N - w

\* The place in a log of the byte that goes to slot i when the log starts at
\* slot w; the two memcpy calls of the wrapped case are one function.
Place(w, i) == IF i >= w THEN i - w + 1 ELSE i + N - w + 1

\* Mutant: one slot is kept free.
StoredKeepsOne(size) == IF BufSpace <= size THEN BufSpace - 1 ELSE size

\* What async_put_log stores of a log of the given size.
Stored(size) == IF BufSpace <= size THEN BufSpace ELSE size

\* Mutant: a log that fills the buffer exactly does not mark it full.
PutMarksFullLate(log) ==
    /\ IF BufSpace = 0
       THEN UNCHANGED <<log_buf, indices, held>> /\ put_size' = 0
       ELSE LET size == Stored(Len(log)) IN
            /\ log_buf' = [i \in 0..(N - 1) |->
                  IF Place(write_index, i) <= size THEN log[Place(write_index, i)]
                                                   ELSE log_buf[i]]
            /\ write_index' = Around(write_index + size)
            /\ buf_is_full' = (buf_is_full \/ BufSpace < Len(log))
            /\ buf_is_empty' = FALSE
            /\ put_size' = size
            /\ held' = held + size
            /\ UNCHANGED read_index
    /\ UNCHANGED line

\* async_put_log
Put(log) ==
    /\ IF BufSpace = 0
       THEN UNCHANGED <<log_buf, indices, held>> /\ put_size' = 0
       ELSE LET size == Stored(Len(log)) IN
            /\ log_buf' = [i \in 0..(N - 1) |->
                  IF Place(write_index, i) <= size THEN log[Place(write_index, i)]
                                                   ELSE log_buf[i]]
            /\ write_index' = Around(write_index + size)
            /\ buf_is_full' = (buf_is_full \/ BufSpace <= Len(log))
            /\ buf_is_empty' = FALSE
            /\ put_size' = size
            /\ held' = held + size
            /\ UNCHANGED read_index
    /\ UNCHANGED line

\* elog_cpyln: how many of the len bytes from slot i on are copied, up to the
\* first newline or all of them.
IsLine(i, len, n) ==
    /\ n \in 0..len
    /\ \A k \in 1..(n - 1) : log_buf[i + k - 1] # Newline
    /\ n < len => n > 0 /\ log_buf[i + n - 1] = Newline
CopyLine(i, len) == CHOOSE n \in 0..len : IsLine(i, len, n)

\* Mutant: a line is only handed out with its newline.
LineSizeWholeLines(size) ==
    LET ends == {k \in 1..size : log_buf[Around(read_index + k - 1)] = Newline}
    IN  IF ends = {} THEN 0 ELSE CHOOSE k \in ends : \A e \in ends : k <= e

\* How many bytes elog_async_get_line_log copies with room for size of them.
\* When the part before the end of the buffer is copied whole, what follows
\* at its start is copied too, also if that part ended with a newline.
LineSize(size) ==
    IF read_index + size < N THEN CopyLine(read_index, size)
    ELSE LET first == CopyLine(read_index, N - read_index) IN
         IF first = N - read_index THEN first + CopyLine(0, size - first) ELSE first

\* elog_async_get_line_log
GetLine ==
    /\ IF BufUsed = 0
       THEN UNCHANGED <<indices, held>> /\ line' = <<>>
       ELSE LET n == LineSize(IF BufUsed <= PollSize THEN BufUsed ELSE PollSize) IN
            /\ line' = [k \in 1..n |-> log_buf[Around(read_index + k - 1)]]
            /\ read_index' = Around(read_index + n)
            /\ buf_is_empty' = (buf_is_empty \/ BufUsed = n)
            /\ buf_is_full' = (buf_is_full /\ n = 0)
            /\ held' = held - n
            /\ UNCHANGED write_index
    /\ UNCHANGED <<log_buf, put_size>>

RingNext == (\E log \in Log : Put(log)) \/ GetLine
RingSpec == RingInit /\ [][RingNext]_ringVars

\* elog_raw hands over what vsnprintf made of its arguments, maybe nothing.
RawNext == RingNext \/ Put(<<>>)
RawSpec == RingInit /\ [][RawNext]_ringVars

-----------------------------------------------------------------------------
RingTypeOK ==
    /\ log_buf \in [0..(N - 1) -> Byte]
    /\ write_index \in 0..(N - 1) /\ read_index \in 0..(N - 1)
    /\ buf_is_full \in BOOLEAN /\ buf_is_empty \in BOOLEAN
    /\ put_size \in 0..N
    /\ line \in Seq(Byte)
    /\ held \in 0..N

\* The write index is held bytes ahead of the read index, round the end, and
\* each flag is up exactly in the situation it is named for.
Agree ==
    /\ write_index = Around(read_index + held)
    /\ buf_is_empty <=> held = 0
    /\ buf_is_full <=> held = N

\* The size the code computes from indices and flags is the number of bytes
\* really held: the flags are right whenever the indices meet.
UsedIsHeld == BufUsed = held

\* A reader that is told "nothing" has left nothing behind, and a line never
\* exceeds the reader's buffer; the thread stops draining on an empty answer.
EmptyMeansDrained ==
    [][GetLine => /\ line' = <<>> => held = 0
                  /\ Len(line') <= PollSize]_ringVars

\* async_put_log stores as much of a log as has room behind the bytes held, and
\* returns how much that was.
DropsOnlyBeyondSpace ==
    [][\A log \in Log :
         Put(log) => put_size' = IF Len(log) <= N - held THEN Len(log)
                                                         ELSE N - held]_ringVars

\* async_put_log: "the log which beyond ring buffer space will be dropped".  A
\* log that fits behind the bytes held would be stored whole if it came now.
\* This speaks of a state and not of a step since a put that drops all of a
\* log changes nothing.
RoomForWhatFits == \A log \in Log : Len(log) <= N - held => Len(log) <= BufSpace

\* The bytes from read_index on, as many as the code thinks there are.
Contents == [k \in 1..BufUsed |-> log_buf[Around(read_index + k - 1)]]

\* The ring is a first-in first-out queue: no byte is lost, repeated or
\* reordered by a wrap, a truncated put or a partial read.
Queue == INSTANCE ByteQueue WITH queue <- Contents
ImplementsByteQueue == Queue!Spec
=============================================================================
