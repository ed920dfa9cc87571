-------------------------------- MODULE HSM --------------------------------
(***************************************************************************)
(* The hierarchical state machine engine of extlib/hsm/hsm.c: one HSM      *)
(* object, the tree of HSM_STATE objects it runs on, and the three calls   *)
(* that move it, HSM_Create, HSM_Run and HSM_Tran.  Each call of a user    *)
(* handler is a step of its own, because what the handlers see between     *)
(* two of those calls is what the engine promises.                         *)
(*                                                                         *)
(* Handlers are user code: Handler[s][e] is the set of things the handler  *)
(* of s may do with e, and a step picks one.  A handler calls HSM_Tran at  *)
(* most once, for o.tran, and then returns o.ret.                          *)
(***************************************************************************)
EXTENDS Naturals, Sequences, SequencesExt

CONSTANTS State,      \* the HSM_STATE objects made by HSM_STATE_Create
          Root,       \* HSM_ROOT, the parent of every state without one
          NoState,    \* a null HSM_STATE pointer
          Parent,     \* the parent field
          Level,      \* the level field, 0 in HSM_ROOT
          Event,      \* every HSM_EVENT but HSME_NULL
          RunEvent,   \* the events the application hands to HSM_Run
          Handler,    \* what the handler of a state may do with an event
          InitState,  \* the argument of HSM_Create
          MAX_DEPTH   \* HSM_MAX_DEPTH

HSME_NULL == "NULL"
INIT      == "INIT"
ENTRY     == "ENTRY"
EXIT      == "EXIT"

Outcome == [tran : State \cup {NoState}, ret : Event \cup {HSME_NULL}]

\* What HSM_STATE_Create leaves behind: the level is one more than the parent's,
\* and below the bound, or the call hangs in its while(1).
HSM_STATE_Create(s) ==
    /\ Level[s] = Level[Parent[s]] + 1
    /\ Level[s] < MAX_DEPTH

ASSUME TreeAssumption ==
    /\ MAX_DEPTH \in Nat
    /\ Root \notin State /\ NoState \notin State \cup {Root}
    /\ Parent \in [State -> State \cup {Root}]
    /\ Level \in [State \cup {Root} -> Nat] /\ Level[Root] = 0
    /\ \A s \in State : HSM_STATE_Create(s)

\* HSM_Create sends ENTRY to the state it is given and to none above it, so it
\* has to be given one at the top, as DT_Init does.
ASSUME InitAssumption == InitState \in State /\ Parent[InitState] = Root

ASSUME HandlerAssumption ==
    /\ {INIT, ENTRY, EXIT} \subseteq Event /\ HSME_NULL \notin Event
    /\ RunEvent \subseteq Event
    /\ Handler \in [State -> [Event -> SUBSET Outcome]]

VARIABLES
    curState,   \* This->curState
    hsmTran,    \* This->hsmTran, set while HSM_Tran is between its guard and its commit
    pc,         \* where the thread is in the engine
    run,        \* the locals of HSM_Run: the event and the state it is offered to
    tran,       \* the locals of HSM_Tran
    back,       \* where HSM_Tran returns to
    active      \* history: the states entered and not exited since

engine == <<curState, hsmTran>>
vars == <<curState, hsmTran, pc, run, tran, back, active>>

NoRun  == [event |-> HSME_NULL, state |-> NoState]
NoTran == [next |-> NoState, src |-> NoState, dst |-> NoState,
           exits |-> <<>>, entries |-> <<>>]

Init ==
    /\ curState = NoState
    /\ hsmTran = FALSE
    /\ pc = "off"
    /\ run = NoRun
    /\ tran = NoTran
    /\ back = "idle"
    /\ active = {}

-----------------------------------------------------------------------------
\* HSM_Tran, up to its first step: a call made while another one is in
\* progress returns at once.  `after` is where the caller goes on.
AcceptTran(next, after) ==
    /\ hsmTran' = TRUE
    /\ tran' = [NoTran EXCEPT !.next = next, !.src = curState, !.dst = next]
    /\ pc' = "walk"
    /\ back' = after

\* Mutant: HSM_Tran without its guard against recursive calls.
CallTranUnguarded(o, after, t) ==
    IF o.tran = NoState
    THEN pc' = after /\ tran' = t /\ UNCHANGED <<hsmTran, back>>
    ELSE AcceptTran(o.tran, after)

\* One handler call that did o: its HSM_Tran, if it made one, runs or is
\* refused.  Without it the caller goes on at `after`, with its locals at t.
CallTran(o, after, t) ==
    IF o.tran = NoState \/ hsmTran
    THEN pc' = after /\ tran' = t /\ UNCHANGED <<hsmTran, back>>
    ELSE AcceptTran(o.tran, after)

\* The handler of the root drops what it gets.
Offer(s, e) == IF s = Root THEN {[tran |-> NoState, ret |-> HSME_NULL]}
                           ELSE Handler[s][e]

-----------------------------------------------------------------------------
\* HSM_Create: curState, then ENTRY and INIT to the initial state only.
Create ==
    /\ pc = "off"
    /\ curState' = InitState
    /\ pc' = "createEntry"
    /\ UNCHANGED <<hsmTran, run, tran, back, active>>

CreateEntry(o) ==
    /\ pc = "createEntry"
    /\ o \in Handler[curState][ENTRY]
    /\ active' = active \cup {curState}
    /\ CallTran(o, "createInit", tran)
    /\ UNCHANGED <<curState, run>>

CreateInit(o) ==
    /\ pc = "createInit"
    /\ o \in Handler[curState][INIT]
    /\ CallTran(o, "idle", tran)
    /\ UNCHANGED <<curState, run, active>>

-----------------------------------------------------------------------------
\* HSM_Run: offer the event to curState, and what each handler returns to
\* the parent of that state, until one returns HSME_NULL.  The walk goes on
\* from the state the event was offered to, whatever transition it caused.
Run(e) ==
    /\ pc = "idle"
    /\ run' = [event |-> e, state |-> curState]
    /\ pc' = "dispatch"
    /\ UNCHANGED <<engine, tran, back, active>>

\* Mutant: the parent is taken from curState, not from the state asked last.
DispatchFromCurrent(o) ==
    /\ pc = "dispatch"
    /\ run.event # HSME_NULL
    /\ o \in Offer(run.state, run.event)
    /\ run' = [event |-> o.ret, state |-> Parent[curState]]
    /\ CallTran(o, "dispatch", tran)
    /\ UNCHANGED <<curState, active>>

Dispatch(o) ==
    /\ pc = "dispatch"
    /\ run.event # HSME_NULL
    /\ o \in Offer(run.state, run.event)
    /\ run' = [event |-> o.ret,
               state |-> IF run.state = Root THEN NoState ELSE Parent[run.state]]
    /\ CallTran(o, "dispatch", tran)
    /\ UNCHANGED <<curState, active>>

RunReturns ==
    /\ pc = "dispatch"
    /\ run.event = HSME_NULL
    /\ run' = NoRun
    /\ pc' = "idle"
    /\ UNCHANGED <<engine, tran, back, active>>

-----------------------------------------------------------------------------
\* HSM_Tran, 1): from the source and the destination to their common parent.
\* list_exit is filled from the source up, list_entry from the destination up.
Up(s) == IF s = Root THEN NoState ELSE Parent[s]
\* Mutant: the source climbs before it is recorded.
SrcUpFirst(t) == [t EXCEPT !.exits = Append(@, Up(t.src)), !.src = Up(t.src)]
SrcUp(t) == [t EXCEPT !.exits = Append(@, t.src), !.src = Up(t.src)]
DstUp(t) == [t EXCEPT !.entries = Append(@, t.dst), !.dst = Up(t.dst)]

\* Mutant: 1b) does not record the source it leaves.
WalkStepForgetsSource(t) ==
    CASE Level[t.src] > Level[t.dst] -> SrcUp(t)
      [] Level[t.src] < Level[t.dst] -> DstUp(t)
      [] OTHER -> DstUp([t EXCEPT !.src = Up(t.src)])

\* One round of the two loops of 1a) and 1b).
WalkStep(t) ==
    CASE Level[t.src] > Level[t.dst] -> SrcUp(t)
      [] Level[t.src] < Level[t.dst] -> DstUp(t)
      [] OTHER -> DstUp(SrcUp(t))

\* Mutant: the walk does not stop at the common parent but at the top.
WalkToTop ==
    /\ pc = "walk"
    /\ IF tran.src # Root \/ tran.dst # Root
       THEN tran' = WalkStep(tran) /\ pc' = pc
       ELSE tran' = tran /\ pc' = "exit"
    /\ UNCHANGED <<engine, run, back, active>>

Walk ==
    /\ pc = "walk"
    /\ IF tran.src # tran.dst
       THEN tran' = WalkStep(tran) /\ pc' = pc
       ELSE tran' = tran /\ pc' = "exit"
    /\ UNCHANGED <<engine, run, back, active>>

\* 2) EXIT to the states left, in the order of list_exit.
ExitState(o) ==
    /\ pc = "exit"
    /\ tran.exits # <<>>
    /\ LET s == Head(tran.exits) IN
         /\ o \in Handler[s][EXIT]
         /\ active' = active \ {s}
    /\ CallTran(o, "exit", [tran EXCEPT !.exits = Tail(@)])
    /\ UNCHANGED <<curState, run>>

\* 3) The transition's own hook; an HSM_Tran it calls is refused as well.
CallMethod ==
    /\ pc = "exit"
    /\ tran.exits = <<>>
    /\ pc' = "entry"
    /\ UNCHANGED <<engine, run, tran, back, active>>

\* 4) ENTRY to the states entered, list_entry from its end.
\* Mutant: list_entry is read from its start.
NextEntryFromStart == Head(tran.entries)
NextEntry == Last(tran.entries)
DropEntry == Front(tran.entries)

EntryState(o) ==
    /\ pc = "entry"
    /\ tran.entries # <<>>
    /\ o \in Handler[NextEntry][ENTRY]
    /\ active' = active \cup {NextEntry}
    /\ CallTran(o, "entry", [tran EXCEPT !.entries = DropEntry])
    /\ UNCHANGED <<curState, run>>

\* 5) The destination becomes the current state and HSM_Tran may be called again.
\* Mutant: the destination is current, but hsmTran stays set.
CommitWithoutReset ==
    /\ pc = "entry"
    /\ tran.entries = <<>>
    /\ curState' = tran.next
    /\ tran' = NoTran
    /\ pc' = "init"
    /\ UNCHANGED <<hsmTran, run, back, active>>

Commit ==
    /\ pc = "entry"
    /\ tran.entries = <<>>
    /\ curState' = tran.next
    /\ hsmTran' = FALSE
    /\ tran' = NoTran
    /\ pc' = "init"
    /\ UNCHANGED <<run, back, active>>

\* 6) INIT, whose handler may start the next transition; nothing is left to do
\* in this call after it, so the new one returns where this one would have.
InitHandler(o) ==
    /\ pc = "init"
    /\ o \in Handler[curState][INIT]
    /\ CallTran(o, back, tran)
    /\ UNCHANGED <<curState, run, active>>

TranStep ==
    \/ Walk \/ CallMethod \/ Commit
    \/ \E o \in Outcome : ExitState(o) \/ EntryState(o) \/ InitHandler(o)

Inside ==
    \/ \E o \in Outcome : CreateEntry(o) \/ CreateInit(o) \/ Dispatch(o)
    \/ RunReturns
    \/ TranStep

Next ==
    \/ Create
    \/ \E e \in RunEvent : Run(e)
    \/ Inside

\* The thread that called the engine keeps running; nothing makes the
\* application call it again.
Spec == Init /\ [][Next]_vars /\ WF_vars(Inside)

-----------------------------------------------------------------------------
\* HSM_IsInState: the walk from curState towards the root that looks for s.
IsInState(s) ==
    LET found[c \in State \cup {Root}] == c = s \/ (c # Root /\ found[Parent[c]])
    IN  found[curState]

\* The states strictly between s and the root, and s itself.
Chain(s) ==
    LET up[c \in State \cup {Root}] == IF c = Root THEN {} ELSE {c} \cup up[Parent[c]]
    IN  up[s]

Locals == [next : State \cup {NoState},
           src : State \cup {Root, NoState}, dst : State \cup {Root, NoState},
           exits : Seq(State), entries : Seq(State)]

Types ==
    /\ curState \in State \cup {NoState}
    /\ hsmTran \in BOOLEAN
    /\ pc \in {"off", "createEntry", "createInit", "idle", "dispatch",
               "walk", "exit", "entry", "init"}
    /\ run \in [event : Event \cup {HSME_NULL}, state : State \cup {Root, NoState}]
    /\ tran \in Locals
    /\ back \in {"idle", "createInit", "dispatch"}
    /\ active \subseteq State

\* Types, and that the two lists of HSM_Tran stay within their HSM_MAX_DEPTH
\* slots (hsm.c writes list_exit[cnt_exit++] without a test).
TypeOK ==
    /\ Types
    /\ Len(tran.exits) < MAX_DEPTH /\ Len(tran.entries) < MAX_DEPTH

\* Between two calls of the application the engine is ready for the next
\* transition, and HSM_IsInState answers exactly what the ENTRY and EXIT calls
\* told the handlers: a state is reported iff it was entered and not exited.
IdleConsistent ==
    pc = "idle" =>
        /\ ~hsmTran
        /\ \A s \in State : IsInState(s) <=> s \in active

\* At every handler call, also in the middle of a transition, the entered
\* states form one path from the top: a state is never active without its
\* parent, nor together with a sibling.  It is what lets a handler rely on
\* what its parent's ENTRY set up.
ActivePath ==
    /\ \A s \in active : Parent[s] \in active \cup {Root}
    /\ \A s, t \in active : Level[s] = Level[t] => s = t

\* A transition runs in its order, whatever its handlers try: EXIT only reaches
\* a state that is active and ENTRY only one that is not, so none is entered or
\* left twice in a row; the hook runs when every state to leave has been left
\* and none of the new ones entered; and the HSM_Tran calls of EXIT and ENTRY
\* handlers do not divert it from the target it was called with.
TransitionOrder ==
    [][/\ \A o \in Outcome : ExitState(o) => Head(tran.exits) \in active
       /\ \A o \in Outcome : EntryState(o) => NextEntry \notin active
       /\ CallMethod => active = Chain(curState) \cap Chain(tran.next)
       /\ hsmTran => IF hsmTran' THEN tran'.next = tran.next
                                 ELSE curState' = tran.next]_vars

\* HSM_Run returns, whatever the handlers pass on, and so does every
\* transition under it.
EngineReturns == (pc # "idle" /\ pc # "off") ~> (pc = "idle")
=============================================================================
