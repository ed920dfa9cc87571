--------------------------------- MODULE DT ---------------------------------
(***************************************************************************)
(* The application of tests/main.cpp: five states and their handlers on    *)
(* the HSM engine, the cJSON document that records the mode, and the file  *)
(* it is saved to.  The program may be killed between any two steps and    *)
(* started again; only the file survives.                                  *)
(*                                                                         *)
(* A document is what the program can tell of it: whether it parses, and   *)
(* the values of its members named "dt", in their order.                   *)
(***************************************************************************)
EXTENDS Naturals, Sequences

CONSTANT InitialFile    \* what json-demo1.json may hold when the program first runs

Value == {"normal", "normal.n1", "normal.n2", "damage", "maintenance",
          "null",       \* a member of type cJSON_NULL
          "other"}      \* any other value
Document == [ok : BOOLEAN, dt : Seq(Value)]
NoDocument == [ok |-> FALSE, dt |-> <<>>]     \* missing, empty or not JSON

ASSUME FileAssumption == InitialFile \subseteq Document

\* DT_Init: the five HSM_STATE objects; the text of a name is its json value.
State  == {"normal", "normal.n1", "normal.n2", "damage", "maintenance"}
Parent == [s \in State |-> IF s \in {"normal.n1", "normal.n2"} THEN "normal" ELSE "root"]
Level  == [s \in State \cup {"root"} |->
    IF s = "root" THEN 0 ELSE IF s \in {"normal.n1", "normal.n2"} THEN 2 ELSE 1]

\* The keys 'd', 'm', 'n', '1', '2' and 'e' of main, by the event they run.
Key   == {"ERROR", "MAINTAIN", "JOIN", "JOIN_N1", "JOIN_N2", "EXIT"}
Event == Key \cup {"INIT", "ENTRY"}

\* What a handler does with an event: go to a state and consume the event,
\* pass it on, or return EXIT_FAILURE, which is 1 and so is DTE_JOIN.
To(s)   == [tran |-> s, ret |-> "NULL"]
Pass(e) == [tran |-> "none", ret |-> e]
Failure == [tran |-> "none", ret |-> "JOIN"]

NormalHandler(e) ==
    CASE e = "ERROR"    -> To("damage")
      [] e = "MAINTAIN" -> To("maintenance")
      [] e = "JOIN_N1"  -> To("normal.n1")
      [] e = "JOIN_N2"  -> To("normal.n2")
      [] OTHER          -> Pass(e)

\* Mutant: n1 passes on the two events it refuses.
N1HandlerPasses(e) ==
    CASE e = "EXIT"    -> To("normal")
      [] e = "JOIN_N2" -> To("normal.n2")
      [] OTHER         -> Pass(e)

\* Its EXIT branch is meant for the key 'e', and also runs whenever HSM_Tran
\* leaves the state.
N1Handler(e) ==
    CASE e = "EXIT"                  -> To("normal")
      [] e = "JOIN_N2"               -> To("normal.n2")
      [] e \in {"ERROR", "MAINTAIN"} -> Failure
      [] OTHER                       -> Pass(e)

N2Handler(e) ==
    CASE e = "ERROR"    -> To("damage")
      [] e = "MAINTAIN" -> To("maintenance")
      [] e = "JOIN"     -> Failure
      [] OTHER          -> Pass(e)

DamageHandler(e) ==
    CASE e = "JOIN"     -> To("normal")
      [] e = "MAINTAIN" -> To("maintenance")
      [] OTHER          -> Pass(e)

MaintenanceHandler(e) ==
    CASE e = "JOIN"  -> To("normal")
      [] e = "ERROR" -> To("damage")
      [] OTHER       -> Pass(e)

HandlerOf(s, e) ==
    CASE s = "normal"      -> NormalHandler(e)
      [] s = "normal.n1"   -> N1Handler(e)
      [] s = "normal.n2"   -> N2Handler(e)
      [] s = "damage"      -> DamageHandler(e)
      [] s = "maintenance" -> MaintenanceHandler(e)

VARIABLES curState, hsmTran, pc, run, tran, back, active

H == INSTANCE HSM WITH
        Root <- "root", NoState <- "none", RunEvent <- Key,
        Handler <- [s \in State |-> [e \in Event |-> {HandlerOf(s, e)}]],
        InitState <- "normal", MAX_DEPTH <- 5

VARIABLES
    up,       \* the process runs
    json,     \* cjson_root, the document in memory
    file,     \* what json-demo1.json holds
    display,  \* where the thread is in Display: "no", "save", "write", "done"
    asked,    \* history: the last key and the mode it was pressed in
    logged,   \* history: the "Tran" lines log2file wrote since that key
    saved     \* history: the last save since the start, if any, was complete

app  == <<up, json, file, display, asked, logged, saved>>
hsm  == <<curState, hsmTran, pc, run, tran, back, active>>
vars == <<hsm, app>>

NoKey == [key |-> "none", from |-> "none"]

Init ==
    /\ H!Init
    /\ up = FALSE
    /\ json = NoDocument
    /\ file \in InitialFile
    /\ display = "no"
    /\ asked = NoKey
    /\ logged = <<>>
    /\ saved = TRUE

-----------------------------------------------------------------------------
\* Mutant: the program starts from an empty object.
BootWithoutReadFile ==
    /\ ~up
    /\ up' = TRUE
    /\ json' = [ok |-> TRUE, dt |-> <<>>]
    /\ saved' = TRUE
    /\ H!Create
    /\ UNCHANGED <<file, display, asked, logged>>

\* main up to its loop: ReadFile and cJSON_Parse, then DT_Init, which enters
\* normal whatever the document says.
Boot ==
    /\ ~up
    /\ up' = TRUE
    /\ json' = file
    /\ saved' = TRUE
    /\ H!Create
    /\ UNCHANGED <<file, display, asked, logged>>

CreateStep ==
    /\ up
    /\ \E o \in H!Outcome : H!CreateEntry(o) \/ H!CreateInit(o)
    /\ UNCHANGED app

\* Mutant: the lines of the previous key are not told from this one's.
PressKeepsLog(e) ==
    /\ up
    /\ H!Run(e)
    /\ asked' = [key |-> e, from |-> curState]
    /\ UNCHANGED <<up, json, file, display, logged, saved>>

\* A key of the loop's switch.
Press(e) ==
    /\ up
    /\ H!Run(e)
    /\ asked' = [key |-> e, from |-> curState]
    /\ logged' = <<>>
    /\ UNCHANGED <<up, json, file, display, saved>>

\* Mutant: only the last line is kept.
LogOverwrites(o) == logged' = IF o.tran = "none" THEN logged ELSE <<<<curState, o.tran>>>>

\* log2file, which every State2... function calls before HSM_Tran.
Log(o) == logged' = IF o.tran = "none" THEN logged
                                       ELSE Append(logged, <<curState, o.tran>>)

\* A handler call made by HSM_Run or by HSM_Tran.
HandlerStep ==
    /\ up
    /\ \E o \in H!Outcome :
         /\ \/ H!Dispatch(o) \/ H!ExitState(o)
            \/ H!EntryState(o) \/ H!InitHandler(o)
         /\ Log(o)
    /\ UNCHANGED <<up, json, file, display, asked, saved>>

EngineStep ==
    /\ up
    /\ H!RunReturns \/ H!Walk \/ H!Commit
    /\ UNCHANGED app

-----------------------------------------------------------------------------
\* Mutant: the member is added without looking for the one there is.
RecordAppends(d, v) == [d EXCEPT !.dt = Append(@, v)]

\* Display, the hook of every transition.  A missing or null member gets a
\* new one at the end, else the first is replaced.
Record(d, v) ==
    IF d.dt = <<>> \/ Head(d.dt) = "null"
    THEN [d EXCEPT !.dt = Append(@, v)]
    ELSE [d EXCEPT !.dt = <<v>> \o Tail(@)]

InHook == up /\ pc = "exit" /\ tran.exits = <<>>

DisplayJson ==
    /\ InHook
    /\ display = "no"
    /\ json.ok
    /\ json' = Record(json, tran.next)
    /\ display' = "save"
    /\ UNCHANGED <<hsm, up, file, asked, logged, saved>>

\* SaveToFile: opening the file empties it, and the text follows.
OpenFile ==
    /\ display = "save"
    /\ file' = NoDocument
    /\ display' = "write"
    /\ UNCHANGED <<hsm, up, json, asked, logged, saved>>

\* Mutant: Display starts over until the file opens.
OpenFailsRetry ==
    /\ display = "save"
    /\ saved' = FALSE
    /\ display' = "no"
    /\ UNCHANGED <<hsm, up, json, file, asked, logged>>

\* A file that cannot be opened keeps what it holds; Display ignores the result.
OpenFails ==
    /\ display = "save"
    /\ saved' = FALSE
    /\ display' = "done"
    /\ UNCHANGED <<hsm, up, json, file, asked, logged>>

WriteFile ==
    /\ display = "write"
    /\ file' = json
    /\ saved' = TRUE
    /\ display' = "done"
    /\ UNCHANGED <<hsm, up, json, asked, logged>>

\* The device is full: the stream's state is not looked at.
WriteFails ==
    /\ display = "write"
    /\ saved' = FALSE
    /\ display' = "done"
    /\ UNCHANGED <<hsm, up, json, file, asked, logged>>

DisplayReturns ==
    /\ up
    /\ display = "done"
    /\ H!CallMethod
    /\ display' = "no"
    /\ UNCHANGED <<up, json, file, asked, logged, saved>>

-----------------------------------------------------------------------------
\* The process is gone, and with it everything but the file.
Gone ==
    /\ up' = FALSE
    /\ json' = NoDocument
    /\ display' = "no"
    /\ asked' = NoKey
    /\ logged' = <<>>
    /\ saved' = TRUE
    /\ curState' = "none" /\ hsmTran' = FALSE /\ pc' = "off"
    /\ run' = H!NoRun /\ tran' = H!NoTran /\ back' = "idle" /\ active' = {}
    /\ UNCHANGED file

\* The key 'E', or a kill at any other moment.
Stop == up /\ Gone

\* Without a document cJSON_Print returns null, and the std::string made of
\* it in Display throws through HSM_Tran: nobody catches it.
DisplayAborts == InHook /\ display = "no" /\ ~json.ok /\ Gone

Working ==
    \/ CreateStep \/ HandlerStep \/ EngineStep
    \/ DisplayJson \/ OpenFile \/ OpenFails \/ WriteFile \/ WriteFails
    \/ DisplayReturns \/ DisplayAborts

Next ==
    \/ Boot
    \/ \E e \in Key : Press(e)
    \/ Working
    \/ Stop

\* The running process goes on; nothing makes the operator press a key.
Spec == Init /\ [][Next]_vars /\ WF_vars(Working)

-----------------------------------------------------------------------------
TypeOK ==
    /\ H!TypeOK
    /\ up \in BOOLEAN /\ saved \in BOOLEAN
    /\ json \in Document /\ file \in Document
    /\ display \in {"no", "save", "write", "done"}
    /\ asked \in [key : Key, from : State] \cup {NoKey}
    /\ logged \in Seq(State \X State) /\ Len(logged) <= 2

\* cJSON_GetObjectItem: the first member named "dt", or "none".
Lookup(d) == IF d.dt = <<>> THEN "none" ELSE Head(d.dt)

Idle  == up /\ pc = "idle"

\* Display runs inside HSM_Tran, before curState is set, and its failures are
\* ignored: still, whenever the program waits for a key after a transition
\* that key caused, the document in memory names the mode, and so does the
\* file when the save of that transition was complete, whatever became of the
\* saves before it.
RecordFollowsMode ==
    Idle /\ logged # <<>> =>
        /\ Lookup(json) = curState
        /\ saved => file = json

\* SaveToFile empties the file and then writes it.  A program stopped between
\* the two, or with a full device, leaves nothing to read, and that is for good:
\* every later run throws in Display before it opens the file, so none repairs
\* it, and none gets out of normal.
LostFileStaysLost ==
    [](~up /\ ~file.ok => [](~file.ok /\ curState \in {"none", "normal"}))

\* What the log tells of a key: nothing when the mode stays, else one line with
\* the move, and behind it, when n1 is left, the line of a move from n1 to normal
\* that never happens, since its EXIT branch runs inside HSM_Tran.
Told(from, to) ==
    IF from = "normal.n1" /\ to # "normal.n1"
    THEN <<<<from, to>>, <<"normal.n1", "normal">>>>
    ELSE <<<<from, to>>>>

\* The lines log2file wrote since the key are those of Told for the mode it was
\* pressed in and the present one; without a line the mode has not changed.
LogTellsTheMove ==
    Idle /\ asked # NoKey =>
        IF logged = <<>> THEN curState = asked.from
                         ELSE logged = Told(asked.from, curState)

\* The application's modes are those of DTMode: bubbling through normal,
\* EXIT_FAILURE read as DTE_JOIN by the parent, the EXIT branch of n1 and a
\* kill in the middle of a transition give no other move.
Radio == INSTANCE DTMode WITH mode <- curState
ImplementsDTMode == Radio!Spec

\* Every key is answered, unless the process is stopped meanwhile.
KeyAnswered == (up /\ pc # "idle") ~> (~up \/ pc = "idle")

-----------------------------------------------------------------------------
\* The diagram of main.cpp: error leads from the box of normal, n1 and n2 to
\* Damage, and maintain to Maintainance.
DiagramMoves ==
    Idle /\ asked.from \in {"normal", "normal.n1", "normal.n2"} =>
        /\ asked.key = "ERROR" => curState = "damage"
        /\ asked.key = "MAINTAIN" => curState = "maintenance"
=============================================================================
