------------------------------ MODULE ElogLock ------------------------------
(***************************************************************************)
(* The output lock of easylogger/elog.c when it may be disabled: the port  *)
(* mutex, the two marks that elog_output_lock_enabled goes by, and the     *)
(* lookup of a tag's level, which takes the mutex itself but gives it back *)
(* through elog_output_unlock.  (Elsewhere the lock is always enabled.)    *)
(***************************************************************************)
EXTENDS Naturals

CONSTANTS Thread, Nobody

VARIABLES enabled,        \* output_lock_enabled
          beforeEnable,   \* output_is_locked_before_enable
          beforeDisable,  \* output_is_locked_before_disable
          owner,          \* who has the port mutex
          pc,             \* where each thread is
          after           \* where it goes after the unlock it is in

vars == <<enabled, beforeEnable, beforeDisable, owner, pc, after>>

Init ==
    /\ enabled = TRUE /\ beforeEnable = FALSE /\ beforeDisable = FALSE
    /\ owner = Nobody
    /\ pc = [t \in Thread |-> "idle"] /\ after = [t \in Thread |-> "idle"]

Goto(t, l) == pc' = [pc EXCEPT ![t] = l]

\* pthread_mutex_lock: at l, once nobody has the mutex; on to m.
Acquire(t, l, m) ==
    /\ pc[t] = l /\ owner = Nobody /\ owner' = t /\ Goto(t, m)
    /\ UNCHANGED <<enabled, beforeEnable, beforeDisable, after>>

\* elog_output_unlock: whether it releases depends on the flag as it is now,
\* and the mark is cleared after the mutex is free.
UnlockTo(t, l) ==
    /\ IF enabled
       THEN /\ owner' = Nobody /\ Goto(t, "unmark")
            /\ after' = [after EXCEPT ![t] = l]
            /\ UNCHANGED beforeEnable
       ELSE /\ beforeEnable' = FALSE /\ Goto(t, l)
            /\ UNCHANGED <<owner, after>>
    /\ UNCHANGED <<enabled, beforeDisable>>

Unmark(t) ==
    /\ pc[t] = "unmark" /\ beforeDisable' = FALSE /\ Goto(t, after[t])
    /\ UNCHANGED <<enabled, beforeEnable, owner, after>>

\* elog_output: the level filter, then the line under the lock
Output(t) ==
    /\ pc[t] = "idle" /\ Goto(t, "filter")
    /\ UNCHANGED <<enabled, beforeEnable, beforeDisable, owner, after>>

Filter(t) == Acquire(t, "filter", "filtering")
Filtered(t) == pc[t] = "filtering" /\ UnlockTo(t, "lock")

\* elog_output_lock
Lock(t) ==
    /\ pc[t] = "lock"
    /\ IF enabled THEN Goto(t, "locking") /\ UNCHANGED beforeEnable
                  ELSE Goto(t, "writing") /\ beforeEnable' = TRUE
    /\ UNCHANGED <<enabled, beforeDisable, owner, after>>
Locking(t) == Acquire(t, "locking", "mark")
Mark(t) ==
    /\ pc[t] = "mark" /\ beforeDisable' = TRUE /\ Goto(t, "writing")
    /\ UNCHANGED <<enabled, beforeEnable, owner, after>>

Written(t) == pc[t] = "writing" /\ UnlockTo(t, "idle")

\* elog_output_lock_enabled
Disable(t) ==
    /\ pc[t] = "idle" /\ enabled' = FALSE
    /\ UNCHANGED <<beforeEnable, beforeDisable, owner, pc, after>>

Enable(t) ==
    /\ pc[t] = "idle" /\ enabled' = TRUE
    /\ IF ~beforeDisable /\ beforeEnable THEN Goto(t, "relock") /\ UNCHANGED owner
       ELSE /\ owner' = IF beforeDisable /\ ~beforeEnable THEN Nobody ELSE owner
            /\ UNCHANGED pc
    /\ UNCHANGED <<beforeEnable, beforeDisable, after>>
Relock(t) == Acquire(t, "relock", "idle")

Next == \E t \in Thread :
    \/ Output(t) \/ Filter(t) \/ Filtered(t) \/ Lock(t) \/ Locking(t) \/ Mark(t) \/ Written(t)
    \/ Unmark(t) \/ Disable(t) \/ Enable(t) \/ Relock(t)

Spec == Init /\ [][Next]_vars

-----------------------------------------------------------------------------
\* elog.c:740: the lock may be disabled to "output system exception log"; so
\* a thread that logs must not come to wait for a mutex it has kept itself.
NeverWaitsForItself ==
    \A t \in Thread : pc[t] \in {"filter", "locking", "relock"} => owner # t
=============================================================================
