------------------------------ MODULE ElogAsync ------------------------------
(***************************************************************************)
(* The asynchronous output of EasyLogger as a concurrent program: threads  *)
(* that log through elog_output, the output thread of elog_async.c that    *)
(* prints what they stored, the mutex of elog_port.c and the semaphore     *)
(* output_notice between them, and one thread that runs the logger through *)
(* elog_init, elog_start, elog_stop and elog_deinit.                       *)
(*                                                                         *)
(* The ring buffer is the ByteQueue it implements.  A log is the bytes     *)
(* elog_output has packaged; in the configuration of the program every     *)
(* level is asynchronous (OUTPUT_LVL is ELOG_LVL_ASSERT, the lowest).      *)
(*                                                                         *)
(* Nothing keeps a thread from logging while elog_deinit runs, or after    *)
(* it.  If it then uses a mutex or a semaphore that is destroyed, what the *)
(* program does is undefined, and the behaviour modelled ends there.       *)
(***************************************************************************)
EXTENDS Naturals, Sequences, FiniteSets

CONSTANTS Caller,     \* the threads that log
          Main,       \* the thread that runs the logger's life
          Log,        \* the packaged logs; none is empty
          Version,    \* the log with which elog_start and elog_stop end
          N,          \* the bytes of the ring buffer
          PollSize,   \* the bytes of the output thread's buffer
          MaxLogs,    \* bound: the logs the callers send while output is enabled
          MaxInits,   \* bound: the calls of elog_init
          MaxStarts   \* bound: the calls of elog_start

Thread == Caller \cup {Main}
NoOne  == "nobody"

ASSUME AsyncAssumption ==
    /\ Main \notin Caller /\ NoOne \notin Thread
    /\ Log \cup {Version} \subseteq Seq(Nat) \ {<<>>}
    /\ N \in Nat \ {0} /\ PollSize \in Nat \ {0}
    /\ MaxLogs \in Nat /\ MaxInits \in Nat /\ MaxStarts \in Nat

VARIABLES
    queue, line,      \* the ring buffer and the output thread's poll_get_buf
    output_enabled,   \* elog.output_enabled
    is_enabled,       \* is_enabled of elog_async.c
    init_ok,          \* elog.init_ok, and init_ok of elog_async.c with it
    thread_running,   \* the flag the output thread reads
    output_notice,    \* the semaphore's value
    lock,             \* who holds the output lock
    opc,              \* where the output thread is
    pc,               \* where each logging thread is in elog_output
    log,              \* the log it has packaged
    mpc,              \* where the main thread is in elog_start, elog_stop or elog_deinit
    calls, inits, starts,   \* the calls made so far, for the bounds
    past,             \* history: whether elog_stop or elog_deinit was ever called
    undefined,        \* a destroyed mutex or semaphore, or a mutex destroyed in use
    orderly,          \* history: the last elog_deinit, if any, found the output
                      \* disabled and no thread in a log call
    emitted,          \* history: the bytes accepted, in the order of the lock
    printed           \* history: the bytes passed to elog_port_output

ring  == <<queue, line>>
flags == <<output_enabled, is_enabled, init_ok, thread_running>>
hist  == <<emitted, printed>>
count == <<calls, inits, starts, past>>
end   == <<undefined, orderly>>
vars  == <<ring, flags, output_notice, lock, opc, pc, log, mpc, count, end, hist>>

Ring == INSTANCE ByteQueue

Init ==
    /\ Ring!Init
    /\ output_enabled = FALSE /\ is_enabled = FALSE
    /\ init_ok = FALSE /\ thread_running = FALSE
    /\ output_notice = 0
    /\ lock = NoOne
    /\ opc = "none"
    /\ pc = [t \in Thread |-> "idle"]
    /\ log = [t \in Thread |-> <<>>]
    /\ mpc = "idle"
    /\ calls = 0 /\ inits = 0 /\ starts = 0 /\ past = "started"
    /\ undefined = FALSE /\ orderly = TRUE
    /\ emitted = <<>> /\ printed = <<>>

-----------------------------------------------------------------------------
\* Mutant: the log is made although output is disabled.
BeginAnyway(t, l) ==
    /\ pc[t] = "idle"
    /\ log' = [log EXCEPT ![t] = l]
    /\ pc' = [pc EXCEPT ![t] = "filter"]

\* elog_output: nothing happens while output is disabled, else the filters
\* are asked and the log is packaged once the lock is held.
Begin(t, l) ==
    /\ pc[t] = "idle"
    /\ log' = [log EXCEPT ![t] = IF output_enabled THEN l ELSE <<>>]
    /\ pc' = [pc EXCEPT ![t] = IF output_enabled THEN "filter" ELSE "idle"]

\* A thread logs at any time, also before elog_init and after elog_deinit.
CallerBegins(c, l) ==
    /\ calls < MaxLogs
    /\ Begin(c, l)
    /\ calls' = IF output_enabled THEN calls + 1 ELSE calls
    /\ UNCHANGED <<ring, flags, output_notice, lock, opc, mpc, inits, starts, past, end, hist>>

\* elog_get_filter_tag_lvl, under the lock unless elog.init_ok is clear: with
\* the filters elog_init sets, every log passes.
Filter(t) ==
    /\ pc[t] = "filter"
    /\ init_ok => lock = NoOne
    /\ pc' = [pc EXCEPT ![t] = "lock"]
    /\ UNCHANGED <<ring, flags, output_notice, lock, opc, log, mpc, count, end, hist>>

\* elog_output_lock, with the lock enabled as elog_init leaves it.
Lock(t) ==
    /\ pc[t] = "lock"
    /\ init_ok /\ lock = NoOne
    /\ lock' = t
    /\ pc' = [pc EXCEPT ![t] = "emit"]
    /\ UNCHANGED <<ring, flags, output_notice, opc, log, mpc, count, end, hist>>

\* The same once elog_deinit has destroyed the mutex.
LockDestroyed(t) ==
    /\ pc[t] = "lock"
    /\ ~init_ok
    /\ undefined' = TRUE
    /\ UNCHANGED <<ring, flags, output_notice, lock, opc, pc, log, mpc, count, orderly, hist>>

\* elog_async_output: into the ring, or straight to the port when the mode
\* is disabled.
Store(t) ==
    /\ pc[t] = "emit"
    /\ is_enabled
    /\ Ring!Put(log[t])
    /\ emitted' = emitted \o SubSeq(log[t], 1, Len(queue') - Len(queue))
    /\ pc' = [pc EXCEPT ![t] = IF queue' # queue THEN "notice" ELSE "unlock"]
    /\ UNCHANGED <<flags, output_notice, lock, opc, log, mpc, count, end, printed>>

\* Mutant: a log that finds the ring full is printed at once.
DirectWhenFull(t) ==
    /\ pc[t] = "emit"
    /\ ~is_enabled \/ Len(queue) = N
    /\ emitted' = emitted \o log[t]
    /\ printed' = printed \o log[t]
    /\ pc' = [pc EXCEPT ![t] = "unlock"]
    /\ UNCHANGED <<ring, flags, output_notice, lock, opc, log, mpc, count, end>>

Direct(t) ==
    /\ pc[t] = "emit"
    /\ ~is_enabled
    /\ emitted' = emitted \o log[t]
    /\ printed' = printed \o log[t]
    /\ pc' = [pc EXCEPT ![t] = "unlock"]
    /\ UNCHANGED <<ring, flags, output_notice, lock, opc, log, mpc, count, end>>

\* Mutant: the semaphore is not raised.
NoticeForgotten(t) ==
    /\ pc[t] = "notice"
    /\ pc' = [pc EXCEPT ![t] = "unlock"]
    /\ UNCHANGED <<ring, flags, output_notice, lock, opc, log, mpc, count, end, hist>>

\* elog_async_output_notice
Notice(t) ==
    /\ pc[t] = "notice"
    /\ mpc # "destroy"
    /\ output_notice' = output_notice + 1
    /\ pc' = [pc EXCEPT ![t] = "unlock"]
    /\ UNCHANGED <<ring, flags, lock, opc, log, mpc, count, end, hist>>

\* The same between sem_destroy and the rest of elog_deinit.
NoticeDestroyed(t) ==
    /\ pc[t] = "notice"
    /\ mpc = "destroy"
    /\ undefined' = TRUE
    /\ UNCHANGED <<ring, flags, output_notice, lock, opc, pc, log, mpc, count, orderly, hist>>

\* Mutant: the lock is not given back.
UnlockForgotten(t) ==
    /\ pc[t] = "unlock"
    /\ pc' = [pc EXCEPT ![t] = "idle"]
    /\ log' = [log EXCEPT ![t] = <<>>]
    /\ UNCHANGED <<ring, flags, output_notice, lock, opc, mpc, count, end, hist>>

\* elog_output_unlock
Unlock(t) ==
    /\ pc[t] = "unlock"
    /\ lock' = NoOne
    /\ pc' = [pc EXCEPT ![t] = "idle"]
    /\ log' = [log EXCEPT ![t] = <<>>]
    /\ UNCHANGED <<ring, flags, output_notice, opc, mpc, count, end, hist>>

Logging(t) ==
    \/ Filter(t) \/ Lock(t) \/ Store(t) \/ Direct(t) \/ Notice(t) \/ Unlock(t)
    \/ LockDestroyed(t) \/ NoticeDestroyed(t)

-----------------------------------------------------------------------------
\* async_output: the thread's loop.
ReadRunning ==
    /\ opc = "check"
    /\ opc' = IF thread_running THEN "wait" ELSE "done"
    /\ UNCHANGED <<ring, flags, output_notice, lock, pc, log, mpc, count, end, hist>>

Wait ==
    /\ opc = "wait"
    /\ output_notice > 0
    /\ output_notice' = output_notice - 1
    /\ opc' = "get"
    /\ UNCHANGED <<ring, flags, lock, pc, log, mpc, count, end, hist>>

\* elog_async_get_line_log, from taking the output lock to giving it back.
Get ==
    /\ opc = "get"
    /\ lock = NoOne
    /\ Ring!Get
    /\ opc' = IF line' # <<>> THEN "print" ELSE "check"
    /\ UNCHANGED <<flags, output_notice, lock, pc, log, mpc, count, end, hist>>

\* Mutant: one line is printed for each notice.
PrintLineOnce ==
    /\ opc = "print"
    /\ printed' = printed \o line
    /\ line' = <<>>
    /\ opc' = "check"
    /\ UNCHANGED <<queue, flags, output_notice, lock, pc, log, mpc, count, end, emitted>>

\* elog_port_output, outside of the lock.
PrintLine ==
    /\ opc = "print"
    /\ printed' = printed \o line
    /\ line' = <<>>
    /\ opc' = "get"
    /\ UNCHANGED <<queue, flags, output_notice, lock, pc, log, mpc, count, end, emitted>>

OutputThread == ReadRunning \/ Wait \/ Get \/ PrintLine

-----------------------------------------------------------------------------
\* Mutant: what is left from before is thrown away.
ElogInitClears ==
    /\ mpc = "idle" /\ pc[Main] = "idle"
    /\ ~init_ok
    /\ inits < MaxInits
    /\ init_ok' = TRUE
    /\ queue' = <<>> /\ line' = <<>>
    /\ output_notice' = 0
    /\ thread_running' = TRUE
    /\ opc' = "check"
    /\ lock' = NoOne
    /\ inits' = inits + 1
    /\ UNCHANGED <<output_enabled, is_enabled, pc, log, mpc, calls, starts, past, end, hist>>

\* elog_init with elog_port_init and elog_async_init, which makes a new
\* semaphore and starts the thread.  What the ring holds stays.
ElogInit ==
    /\ mpc = "idle" /\ pc[Main] = "idle"
    /\ ~init_ok
    /\ inits < MaxInits
    /\ init_ok' = TRUE
    /\ output_notice' = 0
    /\ thread_running' = TRUE
    /\ opc' = "check"
    /\ lock' = NoOne
    /\ inits' = inits + 1
    /\ UNCHANGED <<ring, output_enabled, is_enabled, pc, log, mpc, calls, starts, past, end, hist>>

\* elog_start: the two flags one after the other, then the version log.
ElogStart ==
    /\ mpc = "idle" /\ pc[Main] = "idle"
    /\ init_ok
    /\ starts < MaxStarts
    /\ starts' = starts + 1
    /\ output_enabled' = TRUE
    /\ mpc' = "enable"
    /\ UNCHANGED <<ring, is_enabled, init_ok, thread_running, output_notice, lock,
                   opc, pc, log, calls, inits, past, end, hist>>

\* elog_stop: the same two flags, and the same log.
ElogStop ==
    /\ mpc = "idle" /\ pc[Main] = "idle"
    /\ init_ok
    /\ output_enabled       \* a second elog_stop in a row changes nothing
    /\ output_enabled' = FALSE
    /\ mpc' = "disable"
    /\ past' = IF past = "started" THEN "stopped" ELSE past
    /\ UNCHANGED <<ring, is_enabled, init_ok, thread_running, output_notice, lock,
                   opc, pc, log, calls, inits, starts, end, hist>>

AsyncEnabled ==
    /\ mpc \in {"enable", "disable"}
    /\ is_enabled' = (mpc = "enable")
    /\ mpc' = "version"
    /\ UNCHANGED <<ring, output_enabled, init_ok, thread_running, output_notice, lock,
                   opc, pc, log, count, end, hist>>

SayVersion ==
    /\ mpc = "version"
    /\ Begin(Main, Version)
    /\ mpc' = "idle"
    /\ UNCHANGED <<ring, flags, output_notice, lock, opc, count, end, hist>>

\* elog_deinit: the thread is told, woken and joined, then semaphore and mutex
\* are destroyed.  It neither disables the output nor waits for anybody else.
ElogDeinit ==
    /\ mpc = "idle" /\ pc[Main] = "idle"
    /\ init_ok
    /\ thread_running' = FALSE
    /\ mpc' = "notify"
    /\ past' = "deinited"
    /\ orderly' = (~output_enabled /\ \A t \in Thread : pc[t] = "idle")
    /\ UNCHANGED <<ring, output_enabled, is_enabled, init_ok, output_notice, lock,
                   opc, pc, log, calls, inits, starts, undefined, hist>>

\* Mutant: the thread is not woken.
DeinitNoticeForgotten ==
    /\ mpc = "notify"
    /\ mpc' = "join"
    /\ UNCHANGED <<ring, flags, output_notice, lock, opc, pc, log, count, end, hist>>

DeinitNotice ==
    /\ mpc = "notify"
    /\ output_notice' = output_notice + 1
    /\ mpc' = "join"
    /\ UNCHANGED <<ring, flags, lock, opc, pc, log, count, end, hist>>

\* pthread_join and sem_destroy.
Join ==
    /\ mpc = "join"
    /\ opc = "done"
    /\ opc' = "none"
    /\ mpc' = "destroy"
    /\ UNCHANGED <<ring, flags, output_notice, lock, pc, log, count, end, hist>>

\* elog_port_deinit, which destroys the mutex whether somebody holds it or not,
\* and the end of elog_deinit.
PortDeinit ==
    /\ mpc = "destroy"
    /\ undefined' = (lock # NoOne)
    /\ init_ok' = FALSE
    /\ mpc' = "idle"
    /\ UNCHANGED <<ring, output_enabled, is_enabled, thread_running, output_notice,
                   lock, opc, pc, log, count, orderly, hist>>

Life == AsyncEnabled \/ SayVersion \/ DeinitNotice \/ Join \/ PortDeinit

Next ==
    /\ ~undefined
    /\ \/ \E c \in Caller, l \in Log : CallerBegins(c, l)
       \/ \E t \in Thread : Logging(t)
       \/ OutputThread
       \/ ElogInit \/ ElogStart \/ ElogStop \/ ElogDeinit
       \/ Life

\* Every thread that is inside the logger keeps running; nothing makes the
\* application call it.
Spec ==
    /\ Init /\ [][Next]_vars
    /\ \A t \in Thread : WF_vars(~undefined /\ Logging(t))
    /\ WF_vars(~undefined /\ OutputThread)
    /\ WF_vars(~undefined /\ Life)

-----------------------------------------------------------------------------
TypeOK ==
    /\ queue \in Seq(Nat) /\ Len(queue) <= N
    /\ line \in Seq(Nat) /\ Len(line) <= PollSize
    /\ \A f \in {output_enabled, is_enabled, init_ok, thread_running} : f \in BOOLEAN
    /\ output_notice \in Nat
    /\ lock \in Thread \cup {NoOne}
    /\ opc \in {"none", "check", "wait", "get", "print", "done"}
    /\ pc \in [Thread -> {"idle", "filter", "lock", "emit", "notice", "unlock"}]
    /\ log \in [Thread -> Seq(Nat)]
    /\ mpc \in {"idle", "enable", "disable", "version", "notify", "join", "destroy"}
    /\ undefined \in BOOLEAN /\ orderly \in BOOLEAN
    /\ calls \in 0..MaxLogs /\ inits \in 0..MaxInits
    /\ starts \in 0..MaxStarts
    /\ past \in {"started", "stopped", "deinited"}

\* While bytes are stored, somebody is going to read them: the semaphore is
\* up, the thread is in its inner loop, or the logging thread is about to
\* raise it.  A thread that sleeps on a full buffer would never be woken,
\* since a put into a full buffer does not raise the semaphore.  (What
\* elog_deinit leaves in the ring, the thread of the next elog_init is not
\* told of.)
NoLostWakeup ==
    past # "deinited" /\ queue # <<>> /\ opc \in {"check", "wait"} =>
        output_notice > 0 \/ \E t \in Thread : pc[t] = "notice"

\* What was printed, what the output thread is about to print and what the
\* ring holds are the accepted bytes in the order of the lock, including the
\* logs that were printed directly before elog_start enabled the mode: as
\* long as nothing has stopped the logger.
OutputInOrder == past = "started" => printed \o line \o queue = emitted

\* Stop, deinit and a new init may change that order, but no byte is printed
\* twice or forgotten: each is printed, in hand or still stored.
CountOf(b, s) == Cardinality({i \in 1..Len(s) : s[i] = b})
NothingLostOrTwice ==
    \A b \in UNION {{emitted[i], printed[j]} : i \in 1..Len(emitted),
                                                j \in 1..Len(printed)} :
        CountOf(b, printed \o line \o queue) = CountOf(b, emitted)

\* A deinit that finds the output disabled (elog_stop) and nobody in a log call
\* is safe: from its first step until the next elog_init, however many threads
\* log meanwhile, nobody uses the semaphore or the mutex it destroys, nor holds
\* the mutex at that time.  Of any other deinit this cannot be said, since
\* output_enabled stays on.
OrderlyDeinitIsSafe == orderly => ~undefined

\* A thread of its own prints every accepted byte in the end, also when
\* elog_stop came in between; only elog_deinit may leave some in the ring.
EmittedIsPrinted == []<>(past = "deinited" \/ Len(printed) = Len(emitted))

\* Every log call returns, and so does elog_deinit: it does not wait for ever
\* for the output thread to end.
EveryCallReturns ==
    /\ \A t \in Thread : []<>(pc[t] = "idle" \/ undefined)
    /\ []<>(mpc # "join" \/ undefined)
=============================================================================
