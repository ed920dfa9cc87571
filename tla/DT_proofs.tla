------------------------------ MODULE DT_proofs ------------------------------
(***************************************************************************)
(* The application on the engine, for every file it may find: its tree and *)
(* its handlers are those that the theorems of HSM_proofs speak of, its    *)
(* modes are those of DTMode, the document names the mode, and the log     *)
(* tells the moves.                                                        *)
(***************************************************************************)
EXTENDS DT, TLAPS, SequenceTheorems

\* The theorems about the engine, for the engine of DT.
HP == INSTANCE HSM_proofs WITH
        Root <- "root", NoState <- "none", RunEvent <- Key,
        Handler <- [s \in State |-> [e \in Event |-> {HandlerOf(s, e)}]],
        InitState <- "normal", MAX_DEPTH <- 5

\* No file has a null member that Display would pass over (main.cpp only looks
\* at the first one, and puts another behind it when it is null).
NoNullMember == \A d \in InitialFile : Lookup(d) # "null"

-----------------------------------------------------------------------------
\* The tree of DT_Init and the handlers are what HSM assumes of its user.
LEMMA TreeFits == HP!TreeAssumption /\ HP!InitAssumption /\ HP!HandlerAssumption
<1>1. HP!TreeAssumption
  BY DEF HP!TreeAssumption, State, Parent, Level, HP!HSM_STATE_Create
<1>2. HP!InitAssumption
  BY DEF HP!InitAssumption, State, Parent
<1>3. HP!HandlerAssumption
  BY DEF HP!HandlerAssumption, State, Key, Event, HP!INIT, HP!ENTRY, HP!EXIT,
     HP!HSME_NULL, HP!Outcome, HandlerOf, NormalHandler, N1Handler, N2Handler,
     DamageHandler, MaintenanceHandler, To, Pass, Failure
<1> QED BY <1>1, <1>2, <1>3

\* No handler makes a transition of ENTRY or INIT.
LEMMA EntryPasses ==
    ASSUME NEW s \in State, NEW e \in {"INIT", "ENTRY"}
    PROVE  HandlerOf(s, e) = Pass(e)
BY DEF State, HandlerOf, NormalHandler, N1Handler, N2Handler, DamageHandler,
   MaintenanceHandler

\* A handler that makes a transition of a key consumes it.
LEMMA HandlersDo ==
    ASSUME NEW s \in State, NEW e \in Key
    PROVE  /\ HandlerOf(s, e).tran # "none" =>
                HandlerOf(s, e).ret = "NULL" /\ <<s, e, HandlerOf(s, e).tran>> \in Radio!Moves
           /\ HandlerOf(s, e).tran = "none" => HandlerOf(s, e).ret \in Key
BY DEF State, Key, HandlerOf, NormalHandler, N1Handler, N2Handler, DamageHandler,
   MaintenanceHandler, To, Pass, Failure, Radio!Moves

\* What n1 and n2 leave to normal, and what normal does with it.
LEMMA ParentDoes ==
    /\ \A e \in Key : HandlerOf("normal.n1", e).tran = "none" =>
            HandlerOf("normal.n1", e).ret \in {"JOIN", "JOIN_N1"}
    /\ \A e \in Key : HandlerOf("normal.n2", e).tran = "none" =>
            HandlerOf("normal.n2", e).ret \in {"JOIN", "JOIN_N1", "JOIN_N2", "EXIT"}
    /\ \A s \in {"normal.n1", "normal.n2"}, e \in {"JOIN", "JOIN_N1", "JOIN_N2", "EXIT"} :
            HandlerOf("normal", e).tran # "none" =>
                <<s, e, HandlerOf("normal", e).tran>> \in Radio!Moves
BY DEF Key, HandlerOf, NormalHandler, N1Handler, N2Handler, To, Pass, Failure, Radio!Moves

-----------------------------------------------------------------------------
\* The two instances of the engine are the same.
LEMMA EngineCalls ==
    /\ H!Outcome = HP!Outcome
    /\ \A o \in H!Outcome : H!ExitState(o) => HP!ExitState(o)
<1>1. ASSUME NEW o, NEW after, NEW t, H!CallTran(o, after, t)
      PROVE  HP!CallTran(o, after, t)
  BY <1>1 DEF H!CallTran, HP!CallTran, H!AcceptTran, HP!AcceptTran, H!NoTran, HP!NoTran
<1>2. H!Outcome = HP!Outcome
  BY DEF H!Outcome, HP!Outcome, H!HSME_NULL, HP!HSME_NULL
<1> QED BY <1>1, <1>2 DEF H!ExitState, HP!ExitState, H!EXIT, HP!EXIT

\* Every step of the application is one of the engine, or none, or the end of
\* the process, which leaves the engine as it was before HSM_Create.
LEMMA EngineSteps == [Next]_vars => [HP!Next]_(HP!vars) \/ HP!Init'
<1> USE DEF HP!vars
<1>1. Gone => HP!Init'
  BY DEF Gone, HP!Init, HP!NoRun, HP!NoTran, HP!HSME_NULL, H!NoRun, H!NoTran, H!HSME_NULL
<1>2. H!Create => HP!Create
  BY DEF H!Create, HP!Create
<1>3. ASSUME NEW o, NEW after, NEW t, H!CallTran(o, after, t)
      PROVE  HP!CallTran(o, after, t)
  BY <1>3 DEF H!CallTran, HP!CallTran, H!AcceptTran, HP!AcceptTran, H!NoTran, HP!NoTran
<1>4. H!Outcome = HP!Outcome
  BY EngineCalls
<1>5. ASSUME NEW o \in H!Outcome PROVE H!CreateEntry(o) => HP!CreateEntry(o)
  BY <1>3 DEF H!CreateEntry, HP!CreateEntry, H!ENTRY, HP!ENTRY
<1>6. ASSUME NEW o \in H!Outcome PROVE H!CreateInit(o) => HP!CreateInit(o)
  BY <1>3 DEF H!CreateInit, HP!CreateInit, H!INIT, HP!INIT
<1>7. ASSUME NEW e \in Key PROVE H!Run(e) => HP!Run(e)
  BY DEF H!Run, HP!Run, H!engine, HP!engine
<1>8. ASSUME NEW o \in H!Outcome PROVE H!Dispatch(o) => HP!Dispatch(o)
  BY <1>3 DEF H!Dispatch, HP!Dispatch, H!Offer, HP!Offer, H!HSME_NULL, HP!HSME_NULL
<1>9. H!RunReturns => HP!RunReturns
  BY DEF H!RunReturns, HP!RunReturns, H!NoRun, HP!NoRun, H!HSME_NULL, HP!HSME_NULL,
     H!engine, HP!engine
<1>10. H!Walk => HP!Walk
  BY DEF H!Walk, HP!Walk, H!WalkStep, HP!WalkStep, H!SrcUp, HP!SrcUp, H!DstUp, HP!DstUp,
     H!Up, HP!Up, H!engine, HP!engine
<1>11. ASSUME NEW o \in H!Outcome PROVE H!ExitState(o) => HP!ExitState(o)
  BY EngineCalls
<1>12. H!CallMethod => HP!CallMethod
  BY DEF H!CallMethod, HP!CallMethod, H!engine, HP!engine
<1>13. ASSUME NEW o \in H!Outcome PROVE H!EntryState(o) => HP!EntryState(o)
  BY <1>3 DEF H!EntryState, HP!EntryState, H!ENTRY, HP!ENTRY, H!NextEntry, HP!NextEntry,
     H!DropEntry, HP!DropEntry, H!Last, HP!Last, H!Front, HP!Front
<1>14. H!Commit => HP!Commit
  BY DEF H!Commit, HP!Commit, H!NoTran, HP!NoTran
<1>15. ASSUME NEW o \in H!Outcome PROVE H!InitHandler(o) => HP!InitHandler(o)
  BY <1>3 DEF H!InitHandler, HP!InitHandler, H!INIT, HP!INIT
<1>16. UNCHANGED hsm => UNCHANGED HP!vars
  BY DEF hsm
<1> SUFFICES ASSUME [Next]_vars PROVE HP!Next \/ UNCHANGED HP!vars \/ HP!Init'
  OBVIOUS
<1> USE DEF HP!Next, HP!Inside, HP!TranStep
<1>17. CASE Boot
  BY <1>2, <1>17 DEF Boot
<1>18. CASE \E e \in Key : Press(e)
  BY <1>7, <1>18 DEF Press
<1>19. CASE CreateStep
  BY <1>4, <1>5, <1>6, <1>19 DEF CreateStep
<1>20. CASE HandlerStep
  BY <1>4, <1>8, <1>11, <1>13, <1>15, <1>20 DEF HandlerStep
<1>21. CASE EngineStep
  BY <1>9, <1>10, <1>14, <1>21 DEF EngineStep
<1>22. CASE DisplayJson \/ OpenFile \/ OpenFails \/ WriteFile \/ WriteFails
  BY <1>16, <1>22 DEF DisplayJson, OpenFile, OpenFails, WriteFile, WriteFails
<1>23. CASE DisplayReturns
  BY <1>12, <1>23 DEF DisplayReturns
<1>24. CASE DisplayAborts \/ Stop
  BY <1>1, <1>24 DEF DisplayAborts, Stop
<1>25. CASE UNCHANGED vars
  BY <1>16, <1>25 DEF vars
<1> QED BY <1>17, <1>18, <1>19, <1>20, <1>21, <1>22, <1>23, <1>24, <1>25 DEF Next, Working

\* The engine starts as HSM's does.
LEMMA EngineInit == Init => HP!Init
BY DEF Init, HP!Init, HP!NoRun, HP!NoTran, HP!HSME_NULL, H!Init, H!NoRun, H!NoTran, H!HSME_NULL

\* So the engine's inductive invariant is kept, over restarts, too.
LEMMA EngineIInv == HP!IInv /\ [Next]_vars => HP!IInv'
<1>1. (HP!Init => HP!IInv) /\ (HP!IInv /\ [HP!Next]_(HP!vars) => HP!IInv')
  BY TreeFits, HP!InitIInv, HP!NextIInv
<1>2. HP!Init' => HP!IInv'
  BY <1>1, TreeFits, HP!InitIInv, PTL
<1> QED BY <1>1, <1>2, EngineSteps

-----------------------------------------------------------------------------
\* Where a transition is going to, or has gone.
Target == IF hsmTran THEN tran.next ELSE curState

\* Display has run for the last transition of the key.
Noted ==
    \/ display # "no"
    \/ pc = "entry"
    \/ pc \in {"init", "dispatch", "idle"} /\ logged # <<>>

Types ==
    /\ up \in BOOLEAN /\ saved \in BOOLEAN
    /\ json \in Document /\ file \in Document
    /\ display \in {"no", "save", "write", "done"}
    /\ asked \in [key : Key, from : State] \cup {NoKey}
    /\ logged \in Seq(State \X State)

Process ==
    /\ up <=> pc # "off"
    /\ ~up => ~json.ok
    /\ pc = "off" <=> curState = "none"
    /\ hsmTran \/ pc = "init" => back = "dispatch" /\ run.event = "NULL"
    /\ display # "no" => pc = "exit" /\ tran.exits = <<>>

\* An event is offered to the current state and then to its parent, which gets
\* what the state passes on, or EXIT_FAILURE.
Offered ==
    pc = "dispatch" /\ run.event # "NULL" =>
        /\ logged = <<>> /\ asked # NoKey
        /\ run.event \in Key
        /\ \/ run.state = curState
           \/ /\ run.state = "normal" /\ curState \in {"normal.n1", "normal.n2"}
              /\ run.event \in {"JOIN", "JOIN_N1", "JOIN_N2", "EXIT"}
           \/ run.state = "root"

\* A transition in progress is one of DTMode.
Moving == hsmTran => \E e \in Key : <<curState, e, tran.next>> \in Radio!Moves

\* n1 has been left by the transition that the log tells of.
Left ==
    IF pc \in {"walk", "exit"} THEN curState = "normal.n1" /\ "normal.n1" \notin active
                               ELSE asked.from = "normal.n1" /\ Target # "normal.n1"

\* The first line of the log is that of the transition that was accepted, and
\* another is written when n1 is left.
Lines == IF Left THEN <<<<asked.from, Target>>, <<"normal.n1", "normal">>>>
                 ELSE <<<<asked.from, Target>>>>

Logged ==
    /\ asked = NoKey => logged = <<>> /\ pc \in {"off", "createEntry", "createInit", "idle"}
    /\ pc \in {"off", "createEntry", "createInit"} => logged = <<>> /\ asked = NoKey
    /\ hsmTran \/ pc = "init" => logged # <<>>
    /\ hsmTran => curState = asked.from
    /\ pc \in {"walk", "exit"} /\ "normal.n1" \in active => curState = "normal.n1"
    /\ asked # NoKey /\ logged = <<>> => curState = asked.from
    /\ logged # <<>> => logged = Lines

\* The document names the target since Display ran, and the file holds it since
\* it was written by the last save.
Recorded ==
    /\ NoNullMember => /\ Lookup(json) # "null" /\ Lookup(file) # "null"
                       /\ Noted => Lookup(json) = Target
    /\ saved /\ Noted /\ display \notin {"save", "write"} => file = json

App  == Types /\ Process /\ Offered /\ Moving /\ Logged /\ Recorded
IInv == HP!IInv /\ App

-----------------------------------------------------------------------------
\* What the engine's invariant says of its variables.
LEMMA EngineFacts ==
    ASSUME HP!IInv
    PROVE  /\ hsmTran \in BOOLEAN /\ hsmTran <=> pc \in {"walk", "exit", "entry"}
           /\ pc \in {"off", "createEntry", "createInit", "idle", "dispatch",
                      "walk", "exit", "entry", "init"}
           /\ pc \in {"off", "createEntry"} \/ curState \in State
           /\ pc = "createEntry" => curState = "normal"
           /\ curState \in State \cup {"none"}
           /\ hsmTran => tran.next \in State
           /\ run.event # "NULL" => run.state \in State \cup {"root"}
           /\ tran.exits \in Seq(State) /\ tran.entries \in Seq(State)
           /\ tran \in HP!Locals
BY DEF HP!IInv, HP!TypeOK, HP!Types, HP!Control, HP!HSME_NULL, HP!Node, HP!Locals

\* n1 is active while the current state is n1 and no transition has left it; the
\* hook runs when it is active no more, but for a transition from n1 to itself.
LEMMA N1Active ==
    ASSUME HP!IInv
    PROVE  /\ pc \in {"dispatch", "walk"} => ("normal.n1" \in active <=> curState = "normal.n1")
           /\ pc = "exit" /\ tran.exits = <<>> =>
                ("normal.n1" \in active <=> curState = "normal.n1" /\ tran.next = "normal.n1")
<1>1. ASSUME NEW s \in State PROVE "normal.n1" \in HP!Chain(s) <=> s = "normal.n1"
  <2>1. HP!Chain("root") = {}
    BY TreeFits, HP!ChainUp DEF HP!Node
  <2>2. \A t \in State : HP!Chain(t) = {t} \cup HP!Chain(Parent[t])
    BY TreeFits, HP!ChainOfState
  <2>3. HP!Chain("normal") = {"normal"}
    BY <2>1, <2>2 DEF State, Parent
  <2>4. CASE Parent[s] = "root"
    BY <2>1, <2>2, <2>4 DEF Parent
  <2>5. CASE Parent[s] # "root"
    <3>1. Parent[s] = "normal" /\ s \in {"normal.n1", "normal.n2"}
      BY <2>5 DEF Parent
    <3>2. HP!Chain(s) = {s, "normal"}
      BY <2>2, <2>3, <3>1
    <3> QED BY <3>1, <3>2
  <2> QED BY <2>4, <2>5
<1>2. CASE pc \in {"dispatch", "walk"}
  <2>1. curState \in State /\ active = HP!Chain(curState)
    BY <1>2, EngineFacts DEF HP!IInv, HP!Path, HP!Reached
  <2> QED BY <1>1, <1>2, <2>1
<1>3. CASE pc = "exit" /\ tran.exits = <<>>
  <2>1. Append(<<>>, tran.src)[1] = tran.src
    OBVIOUS
  <2>2. active = HP!Chain(curState) \cap HP!Chain(tran.next)
    BY <1>3, <2>1 DEF HP!IInv, HP!Path, HP!Reached, HP!Lists
  <2>3. curState \in State /\ tran.next \in State
    BY <1>3, EngineFacts
  <2> QED BY <1>1, <1>3, <2>2, <2>3
<1> QED BY <1>2, <1>3

\* The handler calls of HSM_Create and of 6) in HSM_Tran change nothing but
\* where the engine is.
LEMMA CreateDoes ==
    ASSUME HP!IInv, CreateStep
    PROVE  /\ pc \in {"createEntry", "createInit"} /\ pc' \in {"createInit", "idle"}
           /\ UNCHANGED <<curState, hsmTran, run, tran, back, app>>
<1> USE EngineFacts
<1>1. PICK o \in H!Outcome : H!CreateEntry(o) \/ H!CreateInit(o)
  BY DEF CreateStep
<1>2. CASE H!CreateEntry(o)
  <2>1. "ENTRY" \in Event /\ "normal" \in State /\ pc = "createEntry"
    BY <1>2 DEF Event, State, H!CreateEntry
  <2>2. o = Pass("ENTRY")
    BY <1>2, <2>1, EntryPasses DEF H!CreateEntry, H!ENTRY
  <2> QED BY <1>2, <2>1, <2>2 DEF H!CreateEntry, H!CallTran, Pass, CreateStep
<1>3. CASE H!CreateInit(o)
  <2>1. "INIT" \in Event /\ pc = "createInit" /\ curState \in State
    BY <1>3 DEF Event, H!CreateInit
  <2>2. o = Pass("INIT")
    BY <1>3, <2>1, EntryPasses DEF H!CreateInit, H!INIT
  <2> QED BY <1>3, <2>1, <2>2 DEF H!CreateInit, H!CallTran, Pass, CreateStep
<1> QED BY <1>1, <1>2, <1>3

\* The handlers that 6) in HSM_Tran calls do nothing.
LEMMA InitDoes ==
    ASSUME HP!IInv, NEW o \in H!Outcome, H!InitHandler(o)
    PROVE  /\ pc = "init" /\ pc' = back /\ o.tran = "none"
           /\ UNCHANGED <<curState, hsmTran, run, tran, back>>
<1>1. "INIT" \in Event /\ pc = "init" /\ curState \in State
  BY EngineFacts DEF Event, H!InitHandler
<1>2. o = Pass("INIT")
  BY <1>1, EntryPasses DEF H!InitHandler, H!INIT
<1> QED BY <1>1, <1>2 DEF H!InitHandler, H!CallTran, Pass

\* A handler call of HSM_Run: it passes the event on, or makes a transition
\* that is one of DTMode.
LEMMA DispatchDoes ==
    ASSUME HP!IInv, Offered, NEW o \in H!Outcome, H!Dispatch(o)
    PROVE  /\ pc = "dispatch" /\ run.event # "NULL" /\ ~hsmTran
           /\ UNCHANGED curState /\ run'.event = o.ret
           /\ \/ /\ o.tran = "none" /\ pc' = "dispatch" /\ UNCHANGED <<hsmTran, tran, back>>
                 /\ o.ret # "NULL" =>
                      /\ run.state \in State /\ o.ret \in Key
                      /\ run.state = curState /\ run'.state = "normal" =>
                           o.ret \in {"JOIN", "JOIN_N1", "JOIN_N2", "EXIT"}
                      /\ run'.state = Parent[run.state]
              \/ /\ o.tran \in State /\ o.ret = "NULL" /\ pc' = "walk" /\ back' = "dispatch"
                 /\ hsmTran' = TRUE /\ tran'.next = o.tran
                 /\ \E e \in Key : <<curState, e, o.tran>> \in Radio!Moves
<1>1. pc = "dispatch" /\ run.event # "NULL" /\ ~hsmTran /\ curState \in State
  BY EngineFacts DEF H!Dispatch, H!HSME_NULL
<1>2. UNCHANGED curState
      /\ run' = [event |-> o.ret,
                 state |-> IF run.state = "root" THEN "none" ELSE Parent[run.state]]
  BY DEF H!Dispatch
<1>3. CASE run.state = "root"
  <2>1. o = [tran |-> "none", ret |-> "NULL"]
    BY <1>3 DEF H!Dispatch, H!Offer, H!HSME_NULL
  <2> QED BY <1>1, <1>2, <2>1 DEF H!Dispatch, H!CallTran
<1>4. CASE run.state # "root"
  <2>1. run.event \in Key /\ run.event \in Event /\ run.state \in State
    BY <1>1, <1>4, EngineFacts DEF Offered, Event
  <2>2. o = HandlerOf(run.state, run.event)
    BY <1>4, <2>1 DEF H!Dispatch, H!Offer
  <2>3. CASE o.tran = "none"
    <3>1. pc' = "dispatch" /\ UNCHANGED <<hsmTran, tran, back>>
      BY <2>3 DEF H!Dispatch, H!CallTran
    <3>2. o.ret \in Key
      BY <2>1, <2>2, <2>3, HandlersDo
    <3>3. Parent[run.state] = "normal" => run.state \in {"normal.n1", "normal.n2"}
      BY <2>1 DEF Parent
    <3>4. Parent[run.state] = "normal" => o.ret \in {"JOIN", "JOIN_N1", "JOIN_N2", "EXIT"}
      BY <2>1, <2>2, <2>3, <3>3, ParentDoes
    <3> QED BY <1>1, <1>2, <1>4, <2>1, <2>3, <3>1, <3>2, <3>4
  <2>4. CASE o.tran # "none"
    <3>1. o.tran \in State /\ o.ret = "NULL"
      BY <2>1, <2>2, <2>4, HandlersDo DEF H!Outcome
    <3>2. pc' = "walk" /\ back' = "dispatch" /\ hsmTran' = TRUE /\ tran'.next = o.tran
      BY <1>1, <2>4 DEF H!Dispatch, H!CallTran, H!AcceptTran, H!NoTran
    <3>3. CASE run.state = curState
      BY <1>1, <1>2, <2>1, <2>2, <2>4, <3>1, <3>2, <3>3, HandlersDo
    <3>4. CASE run.state # curState
      <4>1. /\ run.state = "normal" /\ curState \in {"normal.n1", "normal.n2"}
            /\ run.event \in {"JOIN", "JOIN_N1", "JOIN_N2", "EXIT"}
        BY <1>1, <1>4, <3>4 DEF Offered
      <4>2. <<curState, run.event, o.tran>> \in Radio!Moves
        BY <2>2, <2>4, <4>1, ParentDoes
      <4> QED BY <1>1, <1>2, <2>1, <3>1, <3>2, <4>2
    <3> QED BY <3>3, <3>4
  <2> QED BY <2>3, <2>4
<1> QED BY <1>3, <1>4

\* The handlers that HSM_Tran calls of EXIT and ENTRY cannot divert it; n1 is
\* the only one that tries, and is not left twice.
LEMMA MoveDoes ==
    ASSUME HP!IInv, NEW o \in H!Outcome, H!ExitState(o) \/ H!EntryState(o)
    PROVE  /\ pc \in {"exit", "entry"} /\ pc' = pc /\ tran'.next = tran.next
           /\ pc = "exit" => tran.exits # <<>> /\ active' \subseteq active
           /\ o.tran # "none" => pc = "exit" /\ o.tran = "normal"
           /\ pc = "exit" => (o.tran # "none" <=> "normal.n1" \in active \ active')
           /\ UNCHANGED <<curState, hsmTran, run, back>>
<1>1. CASE H!ExitState(o)
  <2>1. /\ pc = "exit" /\ pc' = pc /\ tran'.next = tran.next /\ tran.exits # <<>>
        /\ active' = active \ {Head(tran.exits)}
        /\ UNCHANGED <<curState, hsmTran, run, back>>
    BY <1>1, EngineFacts DEF H!ExitState, H!CallTran, HP!Locals
  <2>2. Head(tran.exits) \in State /\ "EXIT" \in Event
    BY <2>1, EngineFacts DEF Event, Key
  <2>3. o = HandlerOf(Head(tran.exits), "EXIT")
    BY <1>1, <2>2 DEF H!ExitState, H!EXIT
  <2>4. /\ o.tran # "none" <=> Head(tran.exits) = "normal.n1"
        /\ o.tran # "none" => o.tran = "normal"
    BY <2>2, <2>3 DEF State, HandlerOf, NormalHandler, N1Handler, N2Handler, DamageHandler,
       MaintenanceHandler, Pass, To
  <2>5. Head(tran.exits) \in active
    <3>1. HP!ExitState(o) /\ o \in HP!Outcome
      BY <1>1, EngineCalls
    <3> QED BY <3>1, TreeFits, HP!ExitIsActive
  <2> QED BY <2>1, <2>4, <2>5
<1>2. CASE H!EntryState(o)
  <2>1. /\ pc = "entry" /\ pc' = pc /\ tran'.next = tran.next /\ tran.entries # <<>>
        /\ UNCHANGED <<curState, hsmTran, run, back>>
    BY <1>2, EngineFacts DEF H!EntryState, H!CallTran, HP!Locals
  <2>2. H!NextEntry \in State /\ "ENTRY" \in Event
    BY <2>1, EngineFacts DEF H!NextEntry, H!Last, Event
  <2>3. o = Pass("ENTRY")
    BY <1>2, <2>2, EntryPasses DEF H!EntryState, H!ENTRY
  <2> QED BY <2>1, <2>3 DEF Pass
<1> QED BY <1>1, <1>2

\* Nor does the search for the common parent divert the transition.
LEMMA WalkDoes ==
    ASSUME HP!IInv, H!Walk
    PROVE  /\ pc = "walk" /\ pc' \in {"walk", "exit"} /\ tran'.next = tran.next
           /\ UNCHANGED <<curState, hsmTran, run, back, active>>
BY EngineFacts DEF H!Walk, H!WalkStep, H!SrcUp, H!DstUp, H!engine, HP!Locals

-----------------------------------------------------------------------------
\* A member that Display finds, or does not find, is the first one afterwards.
LEMMA RecordNames ==
    ASSUME NEW d \in Document, NEW v \in State
    PROVE  /\ Record(d, v) \in Document
           /\ Lookup(d) # "null" => Lookup(Record(d, v)) = v
<1>1. v \in Value /\ d.dt \in Seq(Value)
  BY DEF Document, State, Value
<1>2. ASSUME NEW s, Record(d, v) = [d EXCEPT !.dt = s] PROVE Record(d, v).dt = s
  BY <1>2 DEF Document
<1>3. CASE d.dt = <<>>
  <2>1. Record(d, v) = [d EXCEPT !.dt = Append(<<>>, v)]
    BY <1>3 DEF Record
  <2>2. Append(<<>>, v) \in Seq(Value) /\ Append(<<>>, v) # <<>> /\ Head(Append(<<>>, v)) = v
    BY <1>1
  <2> QED BY <1>2, <2>1, <2>2 DEF Lookup, Document
<1>4. CASE d.dt # <<>> /\ Head(d.dt) = "null"
  <2>1. Append(d.dt, v) \in Seq(Value) /\ Lookup(d) = "null"
    BY <1>1, <1>4 DEF Lookup
  <2> QED BY <1>4, <2>1 DEF Record, Document
<1>5. CASE d.dt # <<>> /\ Head(d.dt) # "null"
  <2>1. Record(d, v) = [d EXCEPT !.dt = <<v>> \o Tail(d.dt)]
    BY <1>5 DEF Record
  <2>2. Tail(d.dt) \in Seq(Value)
    BY <1>1, <1>5
  <2>3. /\ <<v>> \o Tail(d.dt) \in Seq(Value) /\ <<v>> \o Tail(d.dt) # <<>>
        /\ Head(<<v>> \o Tail(d.dt)) = v
    BY <1>1, <2>2
  <2> QED BY <1>2, <2>1, <2>3 DEF Lookup, Document
<1> QED BY <1>3, <1>4, <1>5

-----------------------------------------------------------------------------
\* The steps, one by one.
LEMMA InitApp == Init => App
<1> SUFFICES ASSUME Init PROVE App
  OBVIOUS
<1>1. NoDocument \in Document /\ ~NoDocument.ok /\ file \in Document
  BY FileAssumption DEF Document, NoDocument, Init
<1>2. Types
  <2>1. <<>> \in Seq(State \X State)
    OBVIOUS
  <2> QED BY <1>1, <2>1 DEF Init, Types
<1>3. Process /\ Offered /\ Moving /\ Logged
  BY <1>1 DEF Init, H!Init, Process, Offered, Moving, Logged
<1>4. Recorded
  BY DEF Init, H!Init, Recorded, Noted, NoDocument, Lookup, NoNullMember
<1> QED BY <1>2, <1>3, <1>4 DEF App

\* Boot keeps what the application adds to the invariant.
LEMMA BootApp == ASSUME IInv, Boot PROVE App'
<1> USE DEF IInv, App, Boot, H!Create
<1>1. pc = "off" /\ ~hsmTran /\ hsmTran' = hsmTran /\ pc' = "createEntry"
      /\ display = "no" /\ logged = <<>> /\ asked = NoKey
  BY EngineFacts DEF Process, Logged, Types
<1>2. Types'
  BY DEF Types
<1>3. Process' /\ Offered' /\ Moving' /\ Logged'
  BY <1>1 DEF Process, Offered, Moving, Logged
<1>4. Recorded'
  BY <1>1 DEF Recorded, Noted
<1> QED BY <1>2, <1>3, <1>4

\* Create keeps what the application adds to the invariant.
LEMMA CreateApp == ASSUME IInv, CreateStep PROVE App'
<1> USE DEF IInv, App, app
<1>1. /\ pc \in {"createEntry", "createInit"} /\ pc' \in {"createInit", "idle"} /\ ~hsmTran
      /\ UNCHANGED <<curState, hsmTran, run, tran, back, app>>
  BY CreateDoes, EngineFacts
<1>2. Types'
  BY <1>1 DEF Types
<1>3. logged = <<>> /\ display = "no"
  BY <1>1 DEF Logged, Process
<1>4. Process' /\ Offered' /\ Moving' /\ Logged'
  BY <1>1, <1>3 DEF Process, Offered, Moving, Logged, Lines, Left, Target
<1>5. Recorded'
  BY <1>1, <1>3 DEF Recorded, Noted
<1> QED BY <1>2, <1>4, <1>5

\* Press keeps what the application adds to the invariant.
LEMMA PressApp == ASSUME IInv, NEW e \in Key, Press(e) PROVE App'
<1> USE DEF IInv, App, Press, H!Run, H!engine
<1>1. pc = "idle" /\ ~hsmTran /\ curState \in State
  BY EngineFacts
<1>2. Types'
  BY <1>1 DEF Types
<1>3. display = "no" /\ asked' # NoKey
  BY <1>1 DEF Process, NoKey, Key
<1>4. Process' /\ Offered' /\ Moving' /\ Logged'
  BY <1>1, <1>3 DEF Process, Offered, Moving, Logged, Lines, Left, Target
<1>5. Recorded'
  BY <1>1, <1>3 DEF Recorded, Noted
<1> QED BY <1>2, <1>4, <1>5

\* A line is added to the log, or none.
LEMMA LogDoes ==
    ASSUME logged \in Seq(State \X State), curState \in State,
           NEW o \in H!Outcome, Log(o)
    PROVE  /\ logged' \in Seq(State \X State)
           /\ o.tran = "none" => logged' = logged
           /\ o.tran # "none" /\ logged = <<>> => logged' = <<<<curState, o.tran>>>>
           /\ \A m : o.tran # "none" /\ logged = <<m>> => logged' = <<m, <<curState, o.tran>>>>
<1>1. CASE o.tran = "none"
  BY <1>1 DEF Log
<1>2. CASE o.tran # "none"
  <2> DEFINE line == <<curState, o.tran>>
  <2>1. line \in State \X State /\ logged' = Append(logged, line)
    BY <1>2 DEF H!Outcome, Log
  <2>2. logged' \in Seq(State \X State)
    <3> HIDE DEF line
    <3> QED BY <2>1
  <2>3. logged = <<>> => logged' = <<line>>
    <3> HIDE DEF line
    <3> QED BY <2>1
  <2>4. ASSUME NEW m, logged = <<m>> PROVE logged' = <<m, line>>
    <3> HIDE DEF line
    <3> DEFINE S == {m, line}
    <3>1. <<m>> \in Seq(S) /\ line \in S /\ Len(<<m>>) = 1
      OBVIOUS
    <3>2. /\ Append(<<m>>, line) \in Seq(S)
          /\ Len(Append(<<m>>, line)) = 2
          /\ Append(<<m>>, line)[1] = m
          /\ Append(<<m>>, line)[2] = line
      BY <3>1
    <3>3. <<m, line>> \in Seq(S) /\ Len(<<m, line>>) = 2
      OBVIOUS
    <3> DEFINE p == Append(<<m>>, line)
               q == <<m, line>>
    <3>4. Append(<<m>>, line) = <<m, line>>
      <4>1. q[1] = m /\ q[2] = line
        OBVIOUS
      <4>2. \A i \in 1..2 : p[i] = q[i]
        BY <3>2, <4>1
      <4> HIDE DEF p, q
      <4> QED BY <3>2, <3>3, <4>2, SeqEqual DEF p, q
    <3> QED BY <2>1, <2>4, <3>4
  <2> QED BY <1>2, <2>2, <2>3, <2>4
<1> QED BY <1>1, <1>2

\* Dispatch keeps what the application adds to the invariant.
LEMMA DispatchApp ==
    ASSUME IInv, NEW o \in H!Outcome, H!Dispatch(o), Log(o),
           UNCHANGED <<up, json, file, display, asked, saved>>
    PROVE  App'
<1> USE DEF IInv, App
<1>1. /\ pc = "dispatch" /\ run.event # "NULL" /\ ~hsmTran /\ curState' = curState
      /\ run'.event = o.ret /\ curState \in State
  BY DispatchDoes, EngineFacts
<1>2. logged = <<>> /\ asked # NoKey /\ display = "no" /\ curState = asked.from
  BY <1>1 DEF Offered, Process, Logged
<1>3. Types'
  BY <1>1, LogDoes DEF Types
<1>4. CASE o.tran = "none"
  <2>1. pc' = "dispatch" /\ UNCHANGED <<hsmTran, tran, back, logged>>
    BY <1>1, <1>4, DispatchDoes DEF State, Log
  <2>2. o.ret # "NULL" => /\ run.state \in State /\ o.ret \in Key
                          /\ run.state = curState /\ run'.state = "normal" =>
                               o.ret \in {"JOIN", "JOIN_N1", "JOIN_N2", "EXIT"}
                          /\ run'.state = Parent[run.state]
    BY <1>4, DispatchDoes
  <2>3. Offered'
    <3> SUFFICES ASSUME o.ret # "NULL"
                 PROVE  /\ o.ret \in Key
                        /\ \/ /\ run'.state = "normal"
                              /\ curState \in {"normal.n1", "normal.n2"}
                              /\ o.ret \in {"JOIN", "JOIN_N1", "JOIN_N2", "EXIT"}
                           \/ run'.state = "root"
      BY <1>1, <1>2, <2>1 DEF Offered
    <3>1. CASE run.state = curState
      BY <2>2, <3>1 DEF Parent, State
    <3>2. CASE run.state # curState
      BY <1>1, <2>2, <3>2 DEF Offered, Parent, State
    <3> QED BY <3>1, <3>2
  <2>4. Process' /\ Moving' /\ Logged'
    BY <1>1, <1>2, <2>1 DEF Process, Moving, Logged, Target
  <2>5. Recorded'
    BY <1>1, <1>2, <2>1 DEF Recorded, Noted
  <2> QED BY <1>3, <2>3, <2>4, <2>5
<1>5. CASE o.tran # "none"
  <2>1. /\ o.tran \in State /\ o.ret = "NULL" /\ pc' = "walk" /\ back' = "dispatch"
        /\ hsmTran' = TRUE /\ tran'.next = o.tran
        /\ \E e \in Key : <<curState, e, o.tran>> \in Radio!Moves
    BY <1>5, DispatchDoes
  <2>2. logged' = <<<<curState, o.tran>>>>
    BY <1>1, <1>2, <1>5, LogDoes DEF Types
  <2>3. Process' /\ Offered' /\ Moving'
    BY <1>1, <1>2, <2>1 DEF Process, Offered, Moving
  <2>4. Logged'
    <3>1. active' = active /\ ("normal.n1" \in active <=> curState = "normal.n1")
      BY <1>1, N1Active DEF H!Dispatch
    <3> QED BY <1>1, <1>2, <2>1, <2>2, <3>1 DEF Logged, Lines, Left, Target
  <2>5. Recorded'
    BY <1>1, <1>2, <2>1 DEF Recorded, Noted
  <2> QED BY <1>3, <2>3, <2>4, <2>5
<1> QED BY <1>4, <1>5

\* Move keeps what the application adds to the invariant.
LEMMA MoveApp ==
    ASSUME IInv, NEW o \in H!Outcome, H!ExitState(o) \/ H!EntryState(o), Log(o),
           UNCHANGED <<up, json, file, display, asked, saved>>
    PROVE  App'
<1> USE DEF IInv, App
<1>1. /\ pc \in {"exit", "entry"} /\ pc' = pc /\ tran'.next = tran.next
      /\ pc = "exit" => tran.exits # <<>> /\ active' \subseteq active
      /\ o.tran # "none" => pc = "exit" /\ o.tran = "normal"
      /\ pc = "exit" => (o.tran # "none" <=> "normal.n1" \in active \ active')
      /\ UNCHANGED <<curState, hsmTran, run, back>>
  BY MoveDoes
<1>2. hsmTran /\ curState \in State /\ asked # NoKey
  BY <1>1, EngineFacts DEF Logged
<1>3. display = "no"
  BY <1>1 DEF Process
<1>4. logged # <<>> /\ logged = Lines
  BY <1>2 DEF Logged
<1>5. Types'
  BY <1>2, LogDoes DEF Types
<1>6. Process' /\ Offered' /\ Moving'
  BY <1>1, <1>2, <1>3 DEF Process, Offered, Moving
<1>7. Logged'
  <2>1. logged' # <<>> /\ logged' = Lines'
    <3>1. CASE o.tran = "none"
      <4>1. logged' = logged /\ Left' = Left /\ Target' = Target
        BY <1>1, <1>2, <3>1 DEF Log, Left, Target
      <4> QED BY <1>4, <4>1 DEF Lines
    <3>2. CASE o.tran # "none"
      <4>1. /\ pc = "exit" /\ curState = "normal.n1" /\ ~Left /\ Left'
            /\ o.tran = "normal" /\ Target' = Target
        BY <1>1, <1>2, <3>2 DEF Logged, Left, Target
      <4>2. logged = <<<<asked.from, Target>>>>
        BY <1>4, <4>1 DEF Lines
      <4>3. logged' = <<<<asked.from, Target>>, <<"normal.n1", "normal">>>>
        BY <1>2, <3>2, <4>1, <4>2, LogDoes DEF Types
      <4> QED BY <4>1, <4>3 DEF Lines
    <3> QED BY <3>1, <3>2
  <2> QED BY <1>1, <1>2, <2>1 DEF Logged
<1>8. Recorded'
  BY <1>1, <1>2, <1>3 DEF Recorded, Noted, Target
<1> QED BY <1>5, <1>6, <1>7, <1>8

\* InitHandler keeps what the application adds to the invariant.
LEMMA InitHandlerApp ==
    ASSUME IInv, NEW o \in H!Outcome, H!InitHandler(o), Log(o),
           UNCHANGED <<up, json, file, display, asked, saved>>
    PROVE  App'
<1> USE DEF IInv, App
<1>1. /\ pc = "init" /\ pc' = "dispatch" /\ run.event = "NULL" /\ o.tran = "none"
      /\ UNCHANGED <<curState, hsmTran, run, tran, back>>
  BY InitDoes DEF Process
<1>2. ~hsmTran /\ logged' = logged /\ logged # <<>> /\ display = "no" /\ asked # NoKey
  BY <1>1, EngineFacts DEF Log, Logged, Process
<1>3. Types'
  BY <1>2 DEF Types
<1>4. Process' /\ Offered' /\ Moving' /\ Logged'
  BY <1>1, <1>2 DEF Process, Offered, Moving, Logged, Lines, Left, Target
<1>5. Recorded'
  BY <1>1, <1>2 DEF Recorded, Noted, Target
<1> QED BY <1>3, <1>4, <1>5

\* Engine keeps what the application adds to the invariant.
LEMMA EngineApp == ASSUME IInv, EngineStep PROVE App'
<1> USE DEF IInv, App, app, EngineStep
<1>1. Types'
  BY DEF Types
<1>2. CASE H!RunReturns
  <2>1. pc = "dispatch" /\ pc' = "idle" /\ ~hsmTran /\ display = "no" /\ ~hsmTran'
        /\ UNCHANGED <<curState, tran, back>>
    BY <1>2, EngineFacts DEF H!RunReturns, H!engine, Process
  <2>2. Process' /\ Offered' /\ Moving' /\ Logged'
    BY <2>1 DEF Process, Offered, Moving, Logged, Lines, Left, Target
  <2>3. Recorded'
    BY <2>1 DEF Recorded, Noted, Target
  <2> QED BY <1>1, <2>2, <2>3
<1>3. CASE H!Walk
  <2>1. pc = "walk" /\ pc' \in {"walk", "exit"} /\ tran'.next = tran.next /\ hsmTran
        /\ ("normal.n1" \in active <=> curState = "normal.n1")
        /\ display = "no" /\ UNCHANGED <<curState, hsmTran, run, back, active>>
    BY <1>3, WalkDoes, EngineFacts, N1Active DEF Process
  <2>2. Process' /\ Offered' /\ Moving' /\ Logged'
    BY <2>1 DEF Process, Offered, Moving, Logged, Lines, Left, Target
  <2>3. Recorded'
    BY <2>1 DEF Recorded, Noted, Target
  <2> QED BY <1>1, <2>2, <2>3
<1>4. CASE H!Commit
  <2>1. /\ pc = "entry" /\ pc' = "init" /\ curState' = tran.next /\ hsmTran /\ ~hsmTran'
        /\ tran.next \in State /\ display = "no" /\ UNCHANGED <<run, back>>
    BY <1>4, EngineFacts DEF H!Commit, Process
  <2>2. logged # <<>> /\ asked # NoKey /\ tran.next # "none"
    BY <2>1 DEF Logged, State
  <2>3. Process' /\ Offered' /\ Moving' /\ Logged'
    BY <2>1, <2>2 DEF Process, Offered, Moving, Logged, Lines, Left, Target
  <2>4. Recorded'
    BY <2>1, <2>2 DEF Recorded, Noted, Target
  <2> QED BY <1>1, <2>3, <2>4
<1> QED BY <1>2, <1>3, <1>4

\* DisplayJson keeps what the application adds to the invariant.
LEMMA DisplayJsonApp == ASSUME IInv, DisplayJson PROVE App'
<1> USE DEF IInv, App, DisplayJson, hsm, InHook
<1>1. hsmTran /\ tran.next \in State /\ ~Noted
  BY EngineFacts DEF Noted
<1>2. Types'
  BY <1>1, RecordNames DEF Types
<1>3. Process' /\ Offered' /\ Moving' /\ Logged'
  BY DEF Process, Offered, Moving, Logged, Lines, Left, Target
<1>4. NoNullMember => Lookup(json') = tran.next /\ tran.next # "null"
  BY <1>1, RecordNames DEF Recorded, Types, State
<1>5. Recorded'
  BY <1>1, <1>4 DEF Recorded, Target
<1> QED BY <1>2, <1>3, <1>5

\* Save keeps what the application adds to the invariant.
LEMMA SaveApp ==
    ASSUME IInv, OpenFile \/ OpenFails \/ WriteFile \/ WriteFails
    PROVE  App'
<1> USE DEF IInv, App, hsm, OpenFile, OpenFails, WriteFile, WriteFails
<1>1. NoDocument \in Document /\ ~NoDocument.ok /\ Lookup(NoDocument) # "null"
  BY DEF NoDocument, Document, Lookup
<1>2. Types'
  BY <1>1 DEF Types
<1>3. Process' /\ Offered' /\ Moving' /\ Logged'
  BY DEF Process, Offered, Moving, Logged, Lines, Left, Target
<1>4. Noted /\ hsmTran = hsmTran'
  BY DEF Noted
<1>5. Recorded'
  BY <1>1, <1>4 DEF Recorded, Target
<1> QED BY <1>2, <1>3, <1>5

\* DisplayReturns keeps what the application adds to the invariant.
LEMMA DisplayReturnsApp == ASSUME IInv, DisplayReturns PROVE App'
<1> USE DEF IInv, App, DisplayReturns, H!CallMethod, H!engine
<1>1. /\ hsmTran /\ Noted /\ hsmTran' = hsmTran /\ pc' = "entry"
      /\ "normal.n1" \in active <=> curState = "normal.n1" /\ tran.next = "normal.n1"
  BY EngineFacts, N1Active DEF Noted
<1>2. Types'
  BY DEF Types
<1>3. Process' /\ Offered' /\ Moving' /\ Logged'
  BY <1>1 DEF Process, Offered, Moving, Logged, Lines, Left, Target
<1>4. Recorded'
  BY <1>1 DEF Recorded, Noted, Target
<1> QED BY <1>2, <1>3, <1>4

\* Gone keeps what the application adds to the invariant.
LEMMA GoneApp == ASSUME IInv, Gone PROVE App'
<1> USE DEF IInv, App, Gone
<1>1. NoDocument \in Document /\ ~NoDocument.ok /\ Lookup(NoDocument) # "null"
  BY DEF NoDocument, Document, Lookup
<1>2. Types'
  <2>1. <<>> \in Seq(State \X State)
    OBVIOUS
  <2> QED BY <1>1, <2>1 DEF Types
<1>3. Process' /\ Offered' /\ Moving' /\ Logged'
  BY <1>1 DEF Process, Offered, Moving, Logged
<1>4. Recorded'
  BY <1>1 DEF Recorded, Noted
<1> QED BY <1>2, <1>3, <1>4

\* Every step keeps the inductive invariant.
LEMMA NextIInv == IInv /\ [Next]_vars => IInv'
<1> SUFFICES ASSUME IInv, [Next]_vars PROVE App'
  BY EngineIInv DEF IInv
<1>1. CASE Boot
  BY <1>1, BootApp
<1>2. CASE \E e \in Key : Press(e)
  BY <1>2, PressApp
<1>3. CASE CreateStep
  BY <1>3, CreateApp
<1>4. CASE HandlerStep
  BY <1>4, DispatchApp, MoveApp, InitHandlerApp DEF HandlerStep
<1>5. CASE EngineStep
  BY <1>5, EngineApp
<1>6. CASE DisplayJson
  BY <1>6, DisplayJsonApp
<1>7. CASE OpenFile \/ OpenFails \/ WriteFile \/ WriteFails
  BY <1>7, SaveApp
<1>8. CASE DisplayReturns
  BY <1>8, DisplayReturnsApp
<1>9. CASE DisplayAborts \/ Stop
  BY <1>9, GoneApp DEF DisplayAborts, Stop
<1>10. CASE UNCHANGED vars
  BY <1>10 DEF vars, hsm, app, IInv, App, Types, Process, Offered, Moving, Logged, Recorded,
     Lines, Left, Noted, Target
<1> QED BY <1>1, <1>2, <1>3, <1>4, <1>5, <1>6, <1>7, <1>8, <1>9, <1>10 DEF Next, Working

\* The inductive invariant holds, over restarts, too.
LEMMA IInvAlways == Spec => []IInv
<1>1. Init => IInv
  BY InitApp, EngineInit, TreeFits, HP!InitIInv DEF IInv
<1>2. IInv /\ [Next]_vars => IInv'
  BY NextIInv
<1> QED BY <1>1, <1>2, PTL DEF Spec

-----------------------------------------------------------------------------
\* Under the handlers of main.cpp, and however often the process is stopped and
\* started, the engine keeps what HSM promises: one path of active states, and
\* HSM_IsInState true to it between two keys.
THEOREM EngineKept == Spec => [](H!ActivePath /\ H!IdleConsistent)
<1>1. IInv => HP!ActivePath /\ HP!IdleConsistent
  BY TreeFits, HP!ActiveIsPath, HP!IdleIsConsistent DEF IInv
<1>2. HP!ActivePath => H!ActivePath
  BY DEF HP!ActivePath, H!ActivePath
<1>3. HP!IdleConsistent => H!IdleConsistent
  BY DEF HP!IdleConsistent, H!IdleConsistent, HP!IsInState, H!IsInState
<1> QED BY <1>1, <1>2, <1>3, IInvAlways, PTL

\* Types; and a key makes two lines of log at most, the second when n1 refuses
\* to be left: no state is left twice.
THEOREM TypeCorrect == Spec => []TypeOK
<1>1. HP!TypeOK => H!TypeOK
  BY DEF HP!TypeOK, H!TypeOK, HP!Types, H!Types, HP!Locals, H!Locals, HP!HSME_NULL, H!HSME_NULL
<1>2. ASSUME Logged PROVE Len(logged) <= 2
  <2>1. ASSUME NEW m, NEW l PROVE Len(<<>>) = 0 /\ Len(<<m>>) = 1 /\ Len(<<m, l>>) = 2
    OBVIOUS
  <2> DEFINE a == <<asked.from, Target>>
             b == <<"normal.n1", "normal">>
  <2>2. logged = <<>> \/ logged = <<a>> \/ logged = <<a, b>>
    BY <1>2 DEF Logged, Lines
  <2> HIDE DEF a, b
  <2>3. Len(<<>>) = 0 /\ Len(<<a>>) = 1 /\ Len(<<a, b>>) = 2
    BY <2>1
  <2>4. Len(logged) \in {0, 1, 2}
    BY <2>2, <2>3
  <2>5. \A n \in {0, 1, 2} : n <= 2
    OBVIOUS
  <2> QED BY ONLY <2>4, <2>5
<1>3. IInv => TypeOK
  BY <1>1, <1>2 DEF IInv, HP!IInv, App, Types, TypeOK
<1> QED BY <1>3, IInvAlways, PTL

\* Whenever the program waits for a key after a transition, the document names
\* the mode, and so does the file when that transition's save was complete:
\* whatever file it was started with, but for one with a null member in front.
THEOREM RecordFollowsModeAlways ==
    ASSUME NoNullMember
    PROVE  Spec => []RecordFollowsMode
<1>1. IInv => RecordFollowsMode
  <2> SUFFICES ASSUME IInv, Idle, logged # <<>>
               PROVE  Lookup(json) = curState /\ (saved => file = json)
    BY DEF RecordFollowsMode
  <2>1. HP!IInv /\ Process /\ Recorded
    BY DEF IInv, App
  <2>2. ~hsmTran /\ Noted /\ display = "no"
    BY <2>1, EngineFacts DEF Idle, Noted, Process
  <2> QED BY <2>1, <2>2, NoNullMember DEF Recorded, Target
<1> QED BY <1>1, IInvAlways, PTL

\* A program that was stopped with nothing to read in its file never gets beyond
\* the first transition of any later run, and never writes the file again.
THEOREM LostFileStaysLostAlways == Spec => LostFileStaysLost
<1> DEFINE Lost   == ~up /\ ~file.ok
           Broken == /\ ~json.ok /\ ~file.ok /\ display = "no" /\ pc # "entry"
                     /\ curState \in {"none", "normal"}
<1>1. IInv /\ Lost => Broken
  BY DEF IInv, App, Process
<1>2. IInv /\ Broken /\ [Next]_vars => Broken'
  <2> SUFFICES ASSUME IInv, Broken, [Next]_vars PROVE Broken'
    OBVIOUS
  <2> USE DEF IInv, App
  <2>1. CASE Boot
    BY <2>1 DEF Boot, H!Create
  <2>2. CASE \E e \in Key : Press(e)
    BY <2>2 DEF Press, H!Run, H!engine
  <2>3. CASE CreateStep
    BY <2>3, CreateDoes DEF app
  <2>4. CASE HandlerStep
    BY <2>4, DispatchDoes, MoveDoes, InitDoes DEF HandlerStep, Process
  <2>5. CASE EngineStep
    BY <2>5, WalkDoes DEF EngineStep, H!RunReturns, H!Commit, H!engine, app
  <2>6. CASE DisplayJson \/ OpenFile \/ OpenFails \/ WriteFile \/ WriteFails \/ DisplayReturns
    BY <2>6 DEF DisplayJson, OpenFile, OpenFails, WriteFile, WriteFails, DisplayReturns
  <2>7. CASE DisplayAborts \/ Stop
    BY <2>7 DEF DisplayAborts, Stop, Gone, NoDocument
  <2>8. CASE UNCHANGED vars
    BY <2>8 DEF vars, hsm, app
  <2> QED BY <2>1, <2>2, <2>3, <2>4, <2>5, <2>6, <2>7, <2>8 DEF Next, Working
<1>3. Broken => ~file.ok /\ curState \in {"none", "normal"}
  OBVIOUS
<1>4. Spec => [](Lost => [](~file.ok /\ curState \in {"none", "normal"}))
  <2> HIDE DEF Lost, Broken
  <2> QED BY <1>1, <1>2, <1>3, IInvAlways, PTL DEF Spec
<1> QED BY <1>4 DEF LostFileStaysLost

\* The lines log2file wrote since a key are the change of mode that the key made
\* and, when n1 was left, the one of a move that never happens; without a line
\* the mode is the same.
THEOREM LogTellsTheMoveAlways == Spec => []LogTellsTheMove
<1>1. IInv => LogTellsTheMove
  <2> SUFFICES ASSUME IInv, Idle, asked # NoKey
               PROVE  IF logged = <<>> THEN curState = asked.from
                                       ELSE logged = Told(asked.from, curState)
    BY DEF LogTellsTheMove
  <2>1. ~hsmTran
    BY EngineFacts DEF Idle, IInv
  <2> QED BY <2>1 DEF IInv, App, Logged, Lines, Left, Target, Told, Idle
<1> QED BY <1>1, IInvAlways, PTL

\* The application implements DTMode: its mode moves as the keys of DTMode say.
THEOREM DTModeImplemented == Spec => ImplementsDTMode
<1>1. Init => Radio!Init
  BY DEF Init, H!Init, Radio!Init, Radio!Off
<1>2. IInv /\ [Next]_vars => [Radio!Next]_curState
  <2> SUFFICES ASSUME IInv, [Next]_vars PROVE Radio!Next \/ UNCHANGED curState
    OBVIOUS
  <2> USE DEF IInv, App
  <2>1. CASE Boot
    BY <2>1 DEF Boot, H!Create, Process, Radio!Next, Radio!Start, Radio!Off
  <2>2. CASE Gone
    BY <2>2 DEF Gone, Radio!Next, Radio!SwitchOff, Radio!Off
  <2>3. CASE H!Commit
    <3>1. curState' = tran.next /\ hsmTran
      BY <2>3, EngineFacts DEF H!Commit
    <3>2. PICK e \in Key : <<curState, e, tran.next>> \in Radio!Moves
      BY <3>1 DEF Moving
    <3> DEFINE mv == <<curState, e, tran.next>>
    <3>3. mv \in Radio!Moves /\ mv[1] = curState /\ mv[3] = tran.next
      BY <3>2
    <3> QED BY <3>1, <3>3 DEF Radio!Next, Radio!Move
  <2>4. CASE CreateStep
    BY <2>4, CreateDoes
  <2>5. CASE HandlerStep
    BY <2>5, DispatchDoes, MoveDoes, InitDoes DEF HandlerStep
  <2>6. CASE H!RunReturns \/ H!Walk
    BY <2>6 DEF H!RunReturns, H!Walk, H!engine
  <2>7. CASE \E e \in Key : Press(e)
    BY <2>7 DEF Press, H!Run, H!engine
  <2>8. CASE DisplayJson \/ OpenFile \/ OpenFails \/ WriteFile \/ WriteFails \/ DisplayReturns
    BY <2>8 DEF DisplayJson, OpenFile, OpenFails, WriteFile, WriteFails, DisplayReturns,
       hsm, H!CallMethod, H!engine
  <2>9. CASE UNCHANGED vars
    BY <2>9 DEF vars, hsm
  <2> QED BY <2>1, <2>2, <2>3, <2>4, <2>5, <2>6, <2>7, <2>8, <2>9
          DEF Next, Working, EngineStep, DisplayAborts, Stop
<1> QED BY <1>1, <1>2, IInvAlways, PTL DEF Spec, ImplementsDTMode, Radio!Spec
=============================================================================
