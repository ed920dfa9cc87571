------------------------------ MODULE ElogFile ------------------------------
(***************************************************************************)
(* easylogger/elog_file.c: log lines appended to a file that is rotated    *)
(* over log.0 .. log.<max_rotate - 1> when it has grown beyond max_size.   *)
(*                                                                         *)
(* File 0 is the log, file k+1 is log.k.  A rotation takes one step for    *)
(* each system call that changes the directory, since each can fail, and   *)
(* the process can be killed between them.  Lines are numbered in the      *)
(* order of the calls; a missing file and an empty one are the same.       *)
(* The port's file lock is empty and the callers (log_util.cpp) are one    *)
(* thread, so calls do not overlap.                                        *)
(***************************************************************************)
EXTENDS Integers, Sequences

CONSTANTS MaxRotate,  \* ELOG_FILE_MAX_ROTATE
          MaxSize,    \* ELOG_FILE_MAX_SIZE
          LineSize,   \* the sizes of lines
          MaxLines,   \* bound: the number of lines
          Faults      \* what may go wrong

ASSUME FileAssumption ==
    /\ MaxRotate \in Nat \ {0} /\ MaxSize \in Nat /\ MaxLines \in Nat
    /\ LineSize \subseteq Nat \ {0}
    /\ Faults \subseteq {"kill",     \* the process dies, and may be started again
                         "rename",   \* rename() fails
                         "open",     \* fopen(.., "a+") fails
                         "probe"}    \* fopen(.., "r") fails on a file that is there

Line == [id : 1..MaxLines, size : LineSize]

VARIABLES file,      \* the lines on disk
          cache,     \* the lines fwrite holds back: stdio's buffer
          open,      \* fp # NULL
          pc,        \* where the process is
          n,         \* the rotation's loop variable
          failed,    \* the rotation's result
          pending,   \* the line of the write that rotates
          count,     \* lines so far
          missing,   \* those that were not written, or cut off by a kill
          luck       \* what has gone wrong so far, at the worst

vars == <<file, cache, open, pc, n, failed, pending, count, missing, luck>>

Ids(s) == {s[i].id : i \in DOMAIN s}
Bytes(s) ==
    LET sum[i \in 0..Len(s)] == IF i = 0 THEN 0 ELSE sum[i - 1] + s[i].size IN sum[Len(s)]

\* All that is kept, the oldest line first.
Kept(files) ==
    LET kept[k \in 0..MaxRotate] == IF k = 0 THEN files[0] ELSE files[k] \o kept[k - 1]
    IN kept[MaxRotate]
Log == Kept(file) \o cache

Init ==
    /\ file = [k \in 0..MaxRotate |-> <<>>]
    /\ cache = <<>> /\ open = FALSE /\ pc = "off"
    /\ n = 0 /\ failed = FALSE /\ pending = <<>> /\ count = 0 /\ missing = {}
    /\ luck = "good"

\* A fault happens, and is remembered.
Goes(fault) ==
    /\ fault \in Faults
    /\ luck' = IF fault = "probe" \/ luck = "blind" THEN "blind" ELSE "bad"
Smooth == UNCHANGED luck

\* fopen(name, "a+")
Open == (open' = TRUE /\ Smooth) \/ (open' = FALSE /\ Goes("open"))

\* elog_file_init: fp stays NULL when the file cannot be opened, and init_ok
\* is set nevertheless.
FileInit ==
    /\ pc = "off" /\ pc' = "idle"
    /\ Open
    /\ UNCHANGED <<file, cache, n, failed, pending, count, missing>>

\* elog_file_write: the seek to the end writes out what stdio holds back.
Write(l) ==
    /\ pc = "idle" /\ open
    /\ file' = [file EXCEPT ![0] = @ \o cache]
    /\ IF Bytes(file'[0]) > MaxSize
       THEN /\ pc' = "remove" /\ n' = MaxRotate - 1 /\ failed' = FALSE
            /\ pending' = <<l>> /\ cache' = <<>> /\ open' = FALSE    \* fclose
       ELSE cache' = <<l>> /\ UNCHANGED <<open, pc, n, failed, pending>>
    /\ UNCHANGED missing

\* Without a file the line is not written, and nobody is told.
WriteNowhere(l) ==
    /\ pc = "idle" /\ ~open
    /\ missing' = missing \cup {l.id}
    /\ UNCHANGED <<file, cache, open, pc, n, failed, pending>>

NewLine ==
    /\ Smooth
    /\ count < MaxLines /\ count' = count + 1
    /\ \E s \in LineSize : LET l == [id |-> count', size |-> s] IN Write(l) \/ WriteNowhere(l)

-----------------------------------------------------------------------------
\* elog_file_rotate, for n: the file that is in the way is removed, unless it
\* cannot be opened; the rename replaces it then.
RemoveOld ==
    /\ pc = "remove" /\ pc' = "rename"
    /\ \/ file' = [file EXCEPT ![n + 1] = <<>>] /\ Smooth
       \/ UNCHANGED file /\ Goes("probe")
    /\ UNCHANGED <<cache, open, n, failed, pending, count, missing>>

NextFile == IF n = 0 THEN pc' = "reopen" /\ UNCHANGED n ELSE pc' = "remove" /\ n' = n - 1

\* Mutant: the log that is moved on stays where it was, too.
RenameCopies ==
    /\ pc = "rename" /\ file[n] # <<>>
    /\ file' = [file EXCEPT ![n + 1] = file[n]]
    /\ NextFile /\ Smooth
    /\ UNCHANGED <<cache, open, failed, pending, count, missing>>

Rename ==
    /\ pc = "rename" /\ file[n] # <<>>
    /\ file' = [file EXCEPT ![n + 1] = file[n], ![n] = <<>>]
    /\ NextFile /\ Smooth
    /\ UNCHANGED <<cache, open, failed, pending, count, missing>>

\* A file that is not there, or cannot be opened, is not renamed.
RenameNothing ==
    /\ pc = "rename"
    /\ IF file[n] = <<>> THEN Smooth ELSE Goes("probe")
    /\ NextFile
    /\ UNCHANGED <<file, cache, open, failed, pending, count, missing>>

\* Mutant: the error of a rename is not looked at.
RenameFailsUnseen ==
    /\ pc = "rename" /\ file[n] # <<>> /\ Goes("rename")
    /\ NextFile
    /\ UNCHANGED <<file, failed, cache, open, pending, count, missing>>

RenameFails ==
    /\ pc = "rename" /\ file[n] # <<>> /\ Goes("rename")
    /\ failed' = TRUE /\ pc' = "reopen"
    /\ UNCHANGED <<file, cache, open, n, pending, count, missing>>

\* A process that ends keeps nothing but the files.
Die ==
    /\ pc' = "off" /\ open' = FALSE /\ cache' = <<>> /\ pending' = <<>>
    /\ n' = 0 /\ failed' = FALSE
    /\ missing' = missing \cup Ids(cache) \cup Ids(pending)
    /\ UNCHANGED <<file, count>>

\* The reopening in elog_file_rotate, and the rest of elog_file_write.  After
\* a failed rotation the line is dropped; after a good one it is written to
\* the new file.
Reopen ==
    /\ pc = "reopen" /\ pc' = "idle"
    /\ Open /\ (open' \/ failed)
    /\ pending' = <<>>
    /\ cache' = IF failed THEN <<>> ELSE pending
    /\ missing' = IF failed THEN missing \cup Ids(pending) ELSE missing
    /\ UNCHANGED <<file, n, failed, count>>

\* The process does not survive fwrite to NULL.
WriteToNull == pc = "reopen" /\ ~failed /\ Die /\ Goes("open")

\* Mutant: what stdio holds back is not written by elog_file_deinit.
FileDeinitLoses ==
    /\ pc = "idle" /\ pc' = "off"
    /\ cache' = <<>> /\ open' = FALSE /\ Smooth
    /\ UNCHANGED <<file, n, failed, pending, count, missing>>

\* elog_file_deinit closes the file.
FileDeinit ==
    /\ pc = "idle" /\ pc' = "off"
    /\ file' = [file EXCEPT ![0] = @ \o cache]
    /\ cache' = <<>> /\ open' = FALSE /\ Smooth
    /\ UNCHANGED <<n, failed, pending, count, missing>>

Kill == pc # "off" /\ Die /\ Goes("kill")

Rotate == RemoveOld \/ Rename \/ RenameNothing \/ RenameFails \/ Reopen \/ WriteToNull
Next == FileInit \/ NewLine \/ Rotate \/ FileDeinit \/ Kill
Spec == Init /\ [][Next]_vars

-----------------------------------------------------------------------------
TypeOK ==
    /\ file \in [0..MaxRotate -> Seq(Line)] /\ cache \in Seq(Line) /\ pending \in Seq(Line)
    /\ open \in BOOLEAN /\ failed \in BOOLEAN
    /\ pc \in {"off", "idle", "remove", "rename", "reopen"}
    /\ n \in 0..(MaxRotate - 1) /\ count \in 0..MaxLines
    /\ missing \subseteq 1..MaxLines /\ luck \in {"good", "bad", "blind"}

\* However rotations fail, no file grows beyond max_size and one line more;
\* unless the test for the log failed, which then is not moved away.
SizeBound ==
    \A k \in 0..MaxRotate, s \in LineSize :
        luck # "blind" /\ (\A t \in LineSize : t <= s) =>
            Bytes(IF k = 0 THEN file[0] \o cache ELSE file[k]) <= MaxSize + s

\* A call writes its line and, if it rotates, costs old lines, from the oldest
\* file and once.  A line is dropped only after a failure, and a kill costs the
\* one line that was being written: never one in the middle of what is kept, as
\* long as the files that are there can be opened, and the order stays even then.
History == INSTANCE LogHistory WITH
    log <- Log, waiting <- pending, trouble <- luck,
    forgets <- IF pc = "remove" /\ n = MaxRotate - 1 THEN 1 ELSE 0
ImplementsHistory == History!Spec

\* Every line is kept, or known to be missing, or so old that max_rotate
\* files of newer ones are full: while nothing fails, no rotation removes
\* a line it has room for.
Retention ==
    pc = "idle" /\ luck = "good" =>
        \A id \in (1..count) \ (Ids(Log) \cup missing) : Bytes(Log) > MaxRotate * MaxSize
=============================================================================
