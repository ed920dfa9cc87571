----------------------------- MODULE ElogFilter -----------------------------
(***************************************************************************)
(* The level filters of easylogger/elog.c: one level for all logs, and a   *)
(* table of levels for single tags, searched by elog_output before every   *)
(* log.  Setting a tag's level and looking it up hold the output lock      *)
(* (ElogLock says what that means), so each is one step here.              *)
(***************************************************************************)
EXTENDS Naturals, FiniteSets

CONSTANTS Slots,  \* ELOG_FILTER_TAG_LVL_MAX_NUM
          Tag,    \* the tags of logs
          Key,    \* tags as the table keeps them
          Cut,    \* the first ELOG_FILTER_TAG_MAX_LEN characters of a tag
          NoTag   \* the empty tag

ASSUME FilterAssumption ==
    /\ Slots \in Nat \ {0}
    /\ Cut \in [Tag -> Key]

\* ELOG_LVL_ASSERT .. ELOG_LVL_VERBOSE: the greater, the less important
Level  == 0..5
Silent == 0    \* ELOG_FILTER_LVL_SILENT
All    == 5    \* ELOG_FILTER_LVL_ALL

VARIABLES initOk,  \* elog.init_ok
          level,   \* filter.level
          tagLvl   \* filter.tag_lvl

vars == <<initOk, level, tagLvl>>

Free == [used |-> FALSE, tag |-> NoTag, level |-> Silent]
Slot == [used : BOOLEAN, tag : Key \cup {NoTag}, level : Level]

Default == [i \in 1..Slots |-> Free]

Init ==
    /\ initOk = FALSE
    /\ level = 0 /\ tagLvl = Default

\* The least of some slots; 0 when there is none.
First(slots) == IF slots = {} THEN 0 ELSE CHOOSE i \in slots : \A j \in slots : i <= j

\* Mutant: the search ends at the first free slot.
FindToFirstFree(tag) ==
    First({i \in 1..Slots : /\ tagLvl[i].used /\ tagLvl[i].tag = Cut[tag]
                            /\ \A j \in 1..i : tagLvl[j].used})

Find(tag) == First({i \in 1..Slots : tagLvl[i].used /\ tagLvl[i].tag = Cut[tag]})

\* elog_get_filter_tag_lvl
GetFilterTagLvl(tag) == IF initOk /\ Find(tag) # 0 THEN tagLvl[Find(tag)].level ELSE All

\* elog_output, up to the filter by tag
Passes(tag, lvl) == lvl <= level /\ lvl <= GetFilterTagLvl(tag)

\* elog_init; it does nothing the second time.
ElogInit ==
    /\ ~initOk /\ initOk' = TRUE
    /\ level' = All /\ tagLvl' = Default

ElogDeinit == initOk /\ initOk' = FALSE /\ UNCHANGED <<level, tagLvl>>

SetFilterLvl(l) == level' = l /\ UNCHANGED <<initOk, tagLvl>>

\* Mutant: a tag whose filter is removed keeps its slot.
RemovedKeepsSlot(tag) == tagLvl' = [tagLvl EXCEPT ![Find(tag)].level = All]

Removed(tag) == tagLvl' = [tagLvl EXCEPT ![Find(tag)] = Free]
Changed(tag, l) == tagLvl' = [tagLvl EXCEPT ![Find(tag)].level = l]

\* Mutant: the tag is kept whole.
AddedWhole(tag, l) ==
    LET i == First({j \in 1..Slots : ~tagLvl[j].used}) IN
    tagLvl' = IF i = 0 THEN tagLvl
              ELSE [tagLvl EXCEPT ![i] = [used |-> TRUE, tag |-> tag, level |-> l]]

\* A new tag gets the first free slot; without one, nothing happens.
Added(tag, l) ==
    LET i == First({j \in 1..Slots : ~tagLvl[j].used}) IN
    tagLvl' = IF i = 0 THEN tagLvl
              ELSE [tagLvl EXCEPT ![i] = [used |-> TRUE, tag |-> Cut[tag], level |-> l]]

\* elog_set_filter_tag_lvl
SetFilterTagLvl(tag, l) ==
    /\ initOk
    /\ IF Find(tag) # 0 THEN IF l = All THEN Removed(tag) ELSE Changed(tag, l)
                        ELSE IF l = All THEN UNCHANGED tagLvl ELSE Added(tag, l)
    /\ UNCHANGED <<initOk, level>>

Next ==
    \/ ElogInit \/ ElogDeinit
    \/ \E l \in Level : SetFilterLvl(l)
    \/ \E tag \in Tag, l \in Level : SetFilterTagLvl(tag, l)

Spec == Init /\ [][Next]_vars

-----------------------------------------------------------------------------
TypeOK ==
    /\ initOk \in BOOLEAN /\ level \in Level
    /\ tagLvl \in [1..Slots -> Slot]

\* A tag has one slot, whatever was removed and set again before, and a free
\* slot has no level: so the table is a function from tags to levels, and a
\* call sets, removes or changes one of its values.
Used == {i \in 1..Slots : tagLvl[i].used}
OneSlotEach ==
    /\ \A i, j \in Used : tagLvl[i].tag = tagLvl[j].tag => i = j
    /\ \A i \in (1..Slots) \ Used : tagLvl[i] = Free
    /\ \A i \in Used : tagLvl[i].level # All

\* The table stands for the levels of TagLevels.
Levels == [k \in {tagLvl[i].tag : i \in Used} |->
              tagLvl[CHOOSE i \in Used : tagLvl[i].tag = k].level]
Table == INSTANCE TagLevels WITH levels <- Levels
ImplementsTable == Table!Spec
=============================================================================
