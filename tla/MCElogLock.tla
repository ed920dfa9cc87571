----------------------------- MODULE MCElogLock -----------------------------
(***************************************************************************)
(* One thread, which disables the lock before it logs, is enough for       *)
(* ElogLock to come to wait for itself.                                    *)
(***************************************************************************)
EXTENDS ElogLock

CONSTANT t1
MCThread == {t1}
=============================================================================
