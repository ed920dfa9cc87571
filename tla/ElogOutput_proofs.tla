--------------------------- MODULE ElogOutput_proofs ---------------------------
(***************************************************************************)
(* For every number of slots and every set of tags: the filter table of    *)
(* elog.c has one slot for a tag, and implements TagLevels.  It does so    *)
(* too among the other calls of ElogOutput.                                *)
(*                                                                         *)
(* And for every format, every size of the line, and tags, messages and    *)
(* infos of any length: a line that elog_output puts out is its header and *)
(* message, as far as they have room, and a newline sign, and can be read  *)
(* again.                                                                  *)
(*                                                                         *)
(* And for every size of the buffer behind the asynchronous output, of its *)
(* reader's buffer and set of non-empty logs: the indices stay in the      *)
(* buffer, the size the code computes is the number of bytes held, a put   *)
(* drops nothing that fits, and the ring is a queue of bytes.              *)
(***************************************************************************)
EXTENDS ElogOutput, ElogRing, TLAPS, FiniteSetTheorems, SequenceTheorems, ProofFacts

\* The inductive invariant of the filter
IInv == TypeOK /\ OneSlotEach

-----------------------------------------------------------------------------
\* The least of some slots is one of them.
LEMMA FirstIsOne ==
    ASSUME NEW slots \in SUBSET (1..Slots)
    PROVE  /\ slots = {} => First(slots) = 0
           /\ slots # {} => First(slots) \in slots
<1>1. slots \subseteq Nat
  BY FilterAssumption
<1>2. CASE slots # {}
  <2>1. \E i \in slots : \A j \in slots : i <= j
    BY <1>1, <1>2, LeastElement
  <2> QED BY <1>2, <2>1 DEF First
<1> QED BY <1>2 DEF First

\* What a search finds.
LEMMA FindFinds ==
    ASSUME NEW tag
    PROVE  /\ Find(tag) # 0 => Find(tag) \in Used /\ tagLvl[Find(tag)].tag = Cut[tag]
           /\ Find(tag) = 0 => \A i \in Used : tagLvl[i].tag # Cut[tag]
<1> DEFINE S == {i \in 1..Slots : tagLvl[i].used /\ tagLvl[i].tag = Cut[tag]}
<1>1. Find(tag) = First(S)
  BY DEF Find
<1>2. S = {} => First(S) = 0
  BY FirstIsOne
<1>3. S # {} => First(S) \in S
  BY FirstIsOne
<1>4. \A i \in S : i # 0
  BY FilterAssumption
<1> QED BY <1>1, <1>2, <1>3, <1>4 DEF Used

\* The function that the table stands for, without its CHOOSE.
LevelsAre ==
    /\ DOMAIN Levels = {tagLvl[i].tag : i \in Used}
    /\ Levels = [k \in DOMAIN Levels |-> Levels[k]]
    /\ \A i \in Used : Levels[tagLvl[i].tag] = tagLvl[i].level

\* The table that TagLevels sees has the level of every slot that is used.
LEMMA LevelsOf == IInv => LevelsAre
<1> SUFFICES ASSUME IInv PROVE LevelsAre
  OBVIOUS
<1>1. \A i \in Used : (CHOOSE j \in Used : tagLvl[j].tag = tagLvl[i].tag) = i
  BY DEF IInv, OneSlotEach
<1> DEFINE D == {tagLvl[i].tag : i \in Used}
           slot(k) == CHOOSE j \in Used : tagLvl[j].tag = k
<1>2. Levels = [k \in D |-> tagLvl[slot(k)].level]
  BY DEF Levels
<1>3. ASSUME NEW i \in Used PROVE Levels[tagLvl[i].tag] = tagLvl[i].level
  <2>1. slot(tagLvl[i].tag) = i
    BY <1>1
  <2>2. tagLvl[i].tag \in D
    OBVIOUS
  <2> HIDE DEF D, slot
  <2> QED BY <1>2, <2>1, <2>2
<1>4. DOMAIN Levels = D
  BY <1>2
<1>5. Levels = [k \in DOMAIN Levels |-> Levels[k]]
  BY <1>2
<1> QED BY <1>3, <1>4, <1>5 DEF LevelsAre

\* After a step that keeps the invariant as before it.
LEMMA LevelsOfNext == IInv' => LevelsAre'
BY LevelsOf, PTL

\* A level that was set has left a slot free for those that were not.
LEMMA FreeMeansRoom ==
    ASSUME IInv, NEW i \in 1..Slots, i \notin Used
    PROVE  Cardinality(DOMAIN Levels) < Slots
<1> DEFINE D == {tagLvl[j].tag : j \in Used}
           Rest == (1..Slots) \ {i}
           slot == [k \in D |-> CHOOSE j \in Used : tagLvl[j].tag = k]
<1>1. IsFiniteSet(1..Slots) /\ Cardinality(1..Slots) = Slots
  <2>1. 1 \in Int /\ Slots \in Int /\ ~(1 > Slots) /\ Slots - 1 + 1 = Slots
    BY FilterAssumption
  <2> QED BY ONLY <2>1, FS_Interval
<1>2. IsFiniteSet(Rest) /\ Cardinality(Rest) = Slots - 1
  BY <1>1, FS_RemoveElement
<1>3. \A k \in D : slot[k] \in Used /\ tagLvl[slot[k]].tag = k
  OBVIOUS
<1>4. Used \subseteq Rest
  BY DEF Used
<1>5. slot \in Injection(D, Rest)
  BY <1>3, <1>4, ZenonT(60) DEF Injection, IsInjective
<1>6. Cardinality(D) <= Cardinality(Rest) /\ IsFiniteSet(D)
  BY ONLY <1>2, <1>5, FS_Injection
<1>7. Cardinality(D) \in Nat
  BY ONLY <1>6, FS_CardinalityType
<1>8. DOMAIN Levels = D
  BY LevelsOf DEF LevelsAre
<1> HIDE DEF D, Rest
<1> QED BY <1>2, <1>6, <1>7, <1>8, FilterAssumption

-----------------------------------------------------------------------------
\* The three ways in which a call changes the table.
LEMMA RemovedOK ==
    ASSUME IInv, NEW tag \in Tag, Find(tag) # 0, Removed(tag),
           UNCHANGED <<initOk, level>>
    PROVE  IInv' /\ Table!Remove(Cut[tag])
<1> DEFINE f == Find(tag)
<1>1. f \in Used /\ f \in 1..Slots /\ tagLvl[f].tag = Cut[tag]
  BY FindFinds DEF Used
<1>2. tagLvl' = [tagLvl EXCEPT ![f] = Free] /\ tagLvl \in [1..Slots -> Slot]
  BY DEF Removed, IInv, TypeOK
<1> HIDE DEF f
<1>3. Used' = Used \ {f}
  BY <1>1, <1>2 DEF Used, Free
<1>4. \A i \in 1..Slots : tagLvl'[i] = IF i = f THEN Free ELSE tagLvl[i]
  BY <1>2
<1>5. Used \subseteq 1..Slots
  BY DEF Used
<1>6. IInv'
  <2>1. TypeOK'
    <3>1. Free \in Slot
      BY DEF Free, Slot, Level, Silent
    <3> QED BY <1>1, <1>2, <3>1 DEF IInv, TypeOK
  <2>2. \A i, j \in Used' : tagLvl'[i].tag = tagLvl'[j].tag => i = j
    <3> TAKE i, j \in Used'
    <3>1. i \in Used /\ j \in Used /\ tagLvl'[i] = tagLvl[i] /\ tagLvl'[j] = tagLvl[j]
      BY <1>3, <1>4, <1>5
    <3> QED BY <3>1 DEF IInv, OneSlotEach
  <2>3. \A i \in (1..Slots) \ Used' : tagLvl'[i] = Free
    BY <1>3, <1>4 DEF IInv, OneSlotEach
  <2>4. \A i \in Used' : tagLvl'[i].level # All
    BY <1>3, <1>4, <1>5 DEF IInv, OneSlotEach
  <2> QED BY <2>1, <2>2, <2>3, <2>4 DEF IInv, OneSlotEach
<1>7. LevelsAre /\ LevelsAre'
  BY <1>6, LevelsOf, LevelsOfNext
<1>8. {tagLvl'[i].tag : i \in Used'} = {tagLvl[i].tag : i \in Used} \ {Cut[tag]}
  BY <1>1, <1>3, <1>4, <1>5 DEF IInv, OneSlotEach
<1>9. DOMAIN Levels' = DOMAIN Levels \ {Cut[tag]}
  BY <1>7, <1>8 DEF LevelsAre
<1>10. ASSUME NEW k \in DOMAIN Levels' PROVE Levels'[k] = Levels[k]
  <2>1. PICK i \in Used' : tagLvl'[i].tag = k
    BY <1>7 DEF LevelsAre
  <2>2. i \in Used /\ tagLvl'[i] = tagLvl[i]
    BY <1>3, <1>4, <1>5
  <2> QED BY <1>7, <2>1, <2>2 DEF LevelsAre
<1>11. Levels' = [k \in DOMAIN Levels \ {Cut[tag]} |-> Levels[k]]
  BY <1>7, <1>9, <1>10 DEF LevelsAre
<1> QED BY <1>6, <1>11 DEF Table!Remove, Table!Restrict

\* A tag that has a slot gets another level.
LEMMA ChangedOK ==
    ASSUME IInv, NEW tag \in Tag, NEW l \in Level, l # All, Find(tag) # 0,
           Changed(tag, l), UNCHANGED <<initOk, level>>
    PROVE  IInv' /\ Table!Change(Cut[tag], l)
<1> DEFINE f == Find(tag)
<1>1. f \in Used /\ f \in 1..Slots /\ tagLvl[f].tag = Cut[tag]
  BY FindFinds DEF Used
<1>2. tagLvl' = [tagLvl EXCEPT ![f].level = l] /\ tagLvl \in [1..Slots -> Slot]
  BY DEF Changed, IInv, TypeOK
<1> HIDE DEF f
<1>3. \A i \in 1..Slots : i # f => tagLvl'[i] = tagLvl[i]
  BY <1>2
<1>4. tagLvl'[f] = [used |-> TRUE, tag |-> Cut[tag], level |-> l]
  BY <1>1, <1>2 DEF Used, Slot
<1>5. Used' = Used /\ Used \subseteq 1..Slots
  BY <1>1, <1>3, <1>4 DEF Used
<1>6. \A i \in Used : tagLvl'[i].tag = tagLvl[i].tag
  <2> TAKE i \in Used
  <2>1. CASE i = f
    BY <1>1, <1>4, <2>1
  <2>2. CASE i # f
    BY <1>3, <1>5, <2>2
  <2> QED BY <2>1, <2>2
<1>7. IInv'
  <2>1. TypeOK'
    <3>1. tagLvl'[f] \in Slot
      BY <1>1, <1>4, FilterAssumption DEF Slot
    <3>2. tagLvl' = [i \in 1..Slots |-> tagLvl'[i]]
      BY <1>2
    <3>3. \A i \in 1..Slots : tagLvl'[i] \in Slot
      BY <1>2, <1>3, <3>1
    <3> QED BY <3>2, <3>3 DEF IInv, TypeOK
  <2>2. \A i, j \in Used' : tagLvl'[i].tag = tagLvl'[j].tag => i = j
    <3> TAKE i, j \in Used'
    <3>1. /\ i \in Used /\ tagLvl'[i].tag = tagLvl[i].tag
          /\ j \in Used /\ tagLvl'[j].tag = tagLvl[j].tag
      BY <1>5, <1>6
    <3> QED BY <3>1 DEF IInv, OneSlotEach
  <2>3. \A i \in (1..Slots) \ Used' : tagLvl'[i] = Free
    BY <1>1, <1>3, <1>5 DEF IInv, OneSlotEach
  <2>4. \A i \in Used' : tagLvl'[i].level # All
    BY <1>3, <1>4, <1>5 DEF IInv, OneSlotEach
  <2> QED BY <2>1, <2>2, <2>3, <2>4 DEF IInv, OneSlotEach
<1>8. LevelsAre /\ LevelsAre'
  BY <1>7, LevelsOf, LevelsOfNext
<1>9. DOMAIN Levels' = DOMAIN Levels /\ Cut[tag] \in DOMAIN Levels
  BY <1>1, <1>5, <1>6, <1>8 DEF LevelsAre
<1>10. ASSUME NEW k \in DOMAIN Levels'
       PROVE  Levels'[k] = IF k = Cut[tag] THEN l ELSE Levels[k]
  <2>1. PICK i \in Used : tagLvl[i].tag = k
    <3>1. DOMAIN Levels' = {tagLvl[i].tag : i \in Used}
      BY <1>8, <1>9 DEF LevelsAre
    <3> QED BY <1>10, <3>1
  <2>2. Levels'[k] = tagLvl'[i].level /\ Levels[k] = tagLvl[i].level
    BY <1>5, <1>6, <1>8, <2>1 DEF LevelsAre
  <2>3. k = Cut[tag] <=> i = f
    BY <1>1, <2>1 DEF IInv, OneSlotEach
  <2> QED BY <1>3, <1>4, <1>5, <2>2, <2>3
<1>11. Levels' = [k \in DOMAIN Levels \cup {Cut[tag]} |->
                     IF k = Cut[tag] THEN l ELSE Levels[k]]
  BY <1>8, <1>9, <1>10, ZenonT(60) DEF LevelsAre
<1> QED BY <1>7, <1>9, <1>11 DEF Table!Change

\* A tag that has none gets the first free slot, or nothing when there is none.
LEMMA AddedOK ==
    ASSUME IInv, NEW tag \in Tag, NEW l \in Level, l # All, Find(tag) = 0,
           Added(tag, l), UNCHANGED <<initOk, level>>
    PROVE  IInv' /\ (tagLvl' = tagLvl \/ Table!Change(Cut[tag], l))
<1> DEFINE S == {j \in 1..Slots : ~tagLvl[j].used}
           f == First(S)
<1>1. CASE S = {}
  <2>1. f = 0
    BY <1>1, FirstIsOne
  <2>2. tagLvl' = tagLvl
    BY <2>1 DEF Added
  <2>3. Used' = Used
    BY <2>2 DEF Used
  <2>4. TypeOK'
    BY <2>2 DEF IInv, TypeOK
  <2>5. OneSlotEach'
    BY <2>2, <2>3 DEF IInv, OneSlotEach
  <2> QED BY <2>2, <2>4, <2>5 DEF IInv
<1>2. CASE S # {}
  <2>1. f \in 1..Slots /\ f \notin Used /\ f # 0
    <3>1. f \in S
      BY <1>2, FirstIsOne
    <3> QED BY <3>1, FilterAssumption DEF Used
  <2>2. tagLvl' = [tagLvl EXCEPT ![f] = [used |-> TRUE, tag |-> Cut[tag], level |-> l]]
        /\ tagLvl \in [1..Slots -> Slot]
    BY <2>1 DEF Added, IInv, TypeOK
  <2> HIDE DEF f
  <2>3. \A i \in 1..Slots : i # f => tagLvl'[i] = tagLvl[i]
    BY <2>2
  <2>4. tagLvl'[f] = [used |-> TRUE, tag |-> Cut[tag], level |-> l]
    BY <2>1, <2>2
  <2>5. Used' = Used \cup {f} /\ Used \subseteq 1..Slots
    BY <2>1, <2>3, <2>4 DEF Used
  <2>6. \A i \in Used : tagLvl'[i] = tagLvl[i] /\ tagLvl[i].tag # Cut[tag]
    BY <2>1, <2>3, <2>5, FindFinds
  <2>7. IInv'
    <3>1. TypeOK'
      <4>1. tagLvl'[f] \in Slot
        BY <2>4, FilterAssumption DEF Slot
      <4>2. tagLvl' = [i \in 1..Slots |-> tagLvl'[i]]
        BY <2>2
      <4>3. \A i \in 1..Slots : tagLvl'[i] \in Slot
        BY <2>2, <2>3, <4>1
      <4> QED BY <4>2, <4>3 DEF IInv, TypeOK
    <3>2. \A i, j \in Used' : tagLvl'[i].tag = tagLvl'[j].tag => i = j
      BY <2>4, <2>5, <2>6 DEF IInv, OneSlotEach
    <3>3. \A i \in (1..Slots) \ Used' : tagLvl'[i] = Free
      BY <2>3, <2>5 DEF IInv, OneSlotEach
    <3>4. \A i \in Used' : tagLvl'[i].level # All
      BY <2>4, <2>5, <2>6 DEF IInv, OneSlotEach
    <3> QED BY <3>1, <3>2, <3>3, <3>4 DEF IInv, OneSlotEach
  <2>8. LevelsAre /\ LevelsAre'
    BY <2>7, LevelsOf, LevelsOfNext
  <2>9. DOMAIN Levels' = DOMAIN Levels \cup {Cut[tag]}
    BY <2>4, <2>5, <2>6, <2>8 DEF LevelsAre
  <2>10. ASSUME NEW k \in DOMAIN Levels'
         PROVE  Levels'[k] = IF k = Cut[tag] THEN l ELSE Levels[k]
    <3>1. CASE k = Cut[tag]
      BY <2>4, <2>5, <2>8, <3>1 DEF LevelsAre
    <3>2. CASE k # Cut[tag]
      <4>1. PICK i \in Used : tagLvl[i].tag = k
        BY <2>8, <2>9, <3>2 DEF LevelsAre
      <4>2. i \in Used' /\ tagLvl'[i] = tagLvl[i]
        BY <2>5, <2>6
      <4> QED BY <2>8, <3>2, <4>1, <4>2 DEF LevelsAre
    <3> QED BY <3>1, <3>2
  <2>11. Levels' = [k \in DOMAIN Levels \cup {Cut[tag]} |->
                       IF k = Cut[tag] THEN l ELSE Levels[k]]
    BY <2>8, <2>9, <2>10 DEF LevelsAre
  <2>12. Cardinality(DOMAIN Levels) < Slots
    BY <2>1, FreeMeansRoom
  <2>13. Table!Cardinality(DOMAIN Levels) = Cardinality(DOMAIN Levels)
    BY DEF Cardinality, Table!Cardinality
  <2> QED BY <2>7, <2>11, <2>12, <2>13 DEF Table!Change
<1> QED BY <1>1, <1>2

\* A table without a used slot stands for no level at all.
LEMMA DefaultIsNone == tagLvl = Default => OneSlotEach /\ Levels = <<>>
<1> SUFFICES ASSUME tagLvl = Default PROVE OneSlotEach /\ Levels = <<>>
  OBVIOUS
<1>1. Used = {} /\ OneSlotEach
  BY DEF Used, OneSlotEach, Default, Free
<1>2. Levels = [k \in {} |-> Levels[k]]
  BY <1>1 DEF Levels
<1> QED BY <1>1, <1>2, EmptySeq

\* And after a step.
LEMMA DefaultIsNoneNext == tagLvl' = Default => OneSlotEach' /\ Levels' = <<>>
<1>1. (tagLvl = Default)' => (OneSlotEach /\ Levels = <<>>)'
  BY DefaultIsNone, PTL
<1> QED BY <1>1

\* A call that leaves the table alone.
LEMMA UnchangedOK ==
    ASSUME IInv, tagLvl' = tagLvl, initOk' \in BOOLEAN, level' \in Level
    PROVE  IInv' /\ Levels' = Levels
<1>1. Used' = Used
  BY DEF Used
<1>2. TypeOK'
  BY DEF IInv, TypeOK
<1>3. OneSlotEach'
  BY <1>1 DEF IInv, OneSlotEach
<1> QED BY <1>1, <1>2, <1>3 DEF IInv, Levels

-----------------------------------------------------------------------------
\* The filter starts with an empty table, ...
LEMMA InitOK == Init => IInv /\ Table!Init
<1> SUFFICES ASSUME Init PROVE IInv /\ Table!Init
  OBVIOUS
<1>1. TypeOK
  <2>1. Free \in Slot /\ 0 \in Level
    BY DEF Free, Slot, Level, Silent
  <2>2. Default \in [1..Slots -> Slot]
    BY <2>1 DEF Default
  <2> QED BY <2>1, <2>2 DEF Init, TypeOK
<1> QED BY <1>1, DefaultIsNone DEF Init, IInv, Table!Init

\* ... and each call keeps the invariant and is a step of TagLevels or none.
LEMMA NextOK == IInv /\ [Next]_vars => IInv' /\ [Table!Next]_Levels
<1> SUFFICES ASSUME IInv, [Next]_vars
             PROVE  IInv' /\ (Levels' = Levels \/ Table!Next)
  OBVIOUS
<1>1. CASE ElogInit
  <2>1. TypeOK'
    BY <1>1 DEF ElogInit, TypeOK, Default, Free, Slot, Level, Silent, All
  <2>2. OneSlotEach' /\ Levels' = <<>>
    BY <1>1, DefaultIsNoneNext DEF ElogInit
  <2> QED BY <2>1, <2>2 DEF IInv, Table!Next, Table!Reset
<1>2. CASE ElogDeinit
  BY <1>2, UnchangedOK DEF ElogDeinit, IInv, TypeOK
<1>3. CASE \E l \in Level : SetFilterLvl(l)
  BY <1>3, UnchangedOK DEF SetFilterLvl, IInv, TypeOK
<1>4. CASE \E tag \in Tag, l \in Level : SetFilterTagLvl(tag, l)
  <2>1. PICK tag \in Tag, l \in Level : SetFilterTagLvl(tag, l)
    BY <1>4
  <2>2. Cut[tag] \in Key /\ UNCHANGED <<initOk, level>>
    BY <2>1, FilterAssumption DEF SetFilterTagLvl
  <2>3. CASE Find(tag) # 0 /\ l = All
    <3>1. Removed(tag)
      BY <2>1, <2>3 DEF SetFilterTagLvl
    <3>2. IInv' /\ Table!Remove(Cut[tag])
      BY <2>2, <2>3, <3>1, RemovedOK
    <3> QED BY <2>2, <3>2 DEF Table!Next
  <2>4. CASE l # All
    <3>1. l \in 0..(All - 1)
      BY <2>4 DEF Level, All
    <3>2. CASE Find(tag) # 0
      <4>1. Changed(tag, l)
        BY <2>1, <2>4, <3>2 DEF SetFilterTagLvl
      <4>2. IInv' /\ Table!Change(Cut[tag], l)
        BY <2>2, <2>4, <3>2, <4>1, ChangedOK
      <4> QED BY <2>2, <3>1, <4>2 DEF Table!Next
    <3>3. CASE Find(tag) = 0
      <4>1. Added(tag, l)
        BY <2>1, <2>4, <3>3 DEF SetFilterTagLvl
      <4>2. IInv' /\ (tagLvl' = tagLvl \/ Table!Change(Cut[tag], l))
        BY <2>2, <2>4, <3>3, <4>1, AddedOK
      <4>3. tagLvl' = tagLvl => Levels' = Levels
        BY <2>2, UnchangedOK DEF IInv, TypeOK
      <4> QED BY <2>2, <3>1, <4>2, <4>3 DEF Table!Next
    <3> QED BY <3>2, <3>3
  <2>5. CASE Find(tag) = 0 /\ l = All
    <3>1. tagLvl' = tagLvl
      BY <2>1, <2>5 DEF SetFilterTagLvl
    <3> QED BY <2>2, <3>1, UnchangedOK DEF IInv, TypeOK
  <2> QED BY <2>3, <2>4, <2>5
<1>5. CASE UNCHANGED vars
  BY <1>5, UnchangedOK DEF vars, IInv, TypeOK
<1> QED BY <1>1, <1>2, <1>3, <1>4, <1>5 DEF Next

\* The inductive invariant holds.
LEMMA IInvAlways == Spec => []IInv
<1>1. Init => IInv
  BY InitOK
<1>2. IInv /\ [Next]_vars => IInv'
  BY NextOK
<1> QED BY <1>1, <1>2, PTL DEF Spec

\* What the runs' type invariant of the filter says holds for any instance.
THEOREM TypeCorrect == Spec => []TypeOK
<1>1. IInv => TypeOK
  BY DEF IInv
<1> QED BY <1>1, IInvAlways, PTL

\* elog_set_filter_tag_lvl never keeps a tag in two slots, nor anything in a
\* slot that it has freed.
THEOREM OneSlotEachAlways == Spec => []OneSlotEach
<1>1. IInv => OneSlotEach
  BY DEF IInv
<1> QED BY <1>1, IInvAlways, PTL

\* The table of slots implements a function from tags to levels.
THEOREM TableImplemented == Spec => ImplementsTable
<1>1. Init => Table!Init
  BY InitOK
<1>2. IInv /\ [Next]_vars => [Table!Next]_Levels
  BY NextOK
<1> QED BY <1>1, <1>2, IInvAlways, PTL DEF Spec, ImplementsTable, Table!Spec

-----------------------------------------------------------------------------
\* Among all the calls of ElogOutput the filter is that of ElogFilter: no
\* other call changes it.
THEOREM OutputImplementsFilter == OutputSpec => Spec
<1>1. OutputInit => Init
  BY DEF OutputInit
<1>2. OutputNext => [Next]_vars
  <2> SUFFICES ASSUME OutputNext PROVE Next \/ UNCHANGED vars
    OBVIOUS
  <2>1. CASE SetFilters
    BY <2>1, OutputAssumption DEF SetFilters, Next
  <2>2. CASE \E f \in Format : SetFmt(f.levels, f.set)
    BY <2>2 DEF SetFmt
  <2>3. CASE \E part \in Part : SetFilterTag(part)
    BY <2>3 DEF SetFilterTag
  <2>4. CASE \E keyword \in Keyword : SetFilterKw(keyword)
    BY <2>4 DEF SetFilterKw
  <2>5. CASE \E l \in UsedLevel, tag \in Tag, text \in Message : Output(l, tag, text)
    BY <2>5 DEF Output
  <2>6. CASE \E text \in Message : Raw(text)
    BY <2>6 DEF Raw
  <2>7. CASE PutOut
    BY <2>7 DEF PutOut
  <2>8. CASE \E name \in Tag, d \in Dump : HexDump(name, d)
    BY <2>8 DEF HexDump
  <2>9. CASE HexDumpLine
    BY <2>9 DEF HexDumpLine
  <2> QED BY <2>1, <2>2, <2>3, <2>4, <2>5, <2>6, <2>7, <2>8, <2>9 DEF OutputNext
<1>3. UNCHANGED outputVars => UNCHANGED vars
  BY DEF outputVars
<1> QED BY <1>1, <1>2, <1>3, PTL DEF OutputSpec, Spec

\* So what was proved of the filter holds of the whole of ElogOutput, which is
\* the specification that the run checks.
COROLLARY OutputKeepsTable == OutputSpec => []OneSlotEach /\ ImplementsTable
BY OutputImplementsFilter, OneSlotEachAlways, TableImplemented

-----------------------------------------------------------------------------
(***************************************************************************)
(* Lines.                                                                  *)
(***************************************************************************)
\* What may be in a line.  The literals are in STRING, too, but the provers do
\* not know of a literal that it is a string.
Symbol == STRING \cup {"A", "E", "W", "I", "D", "V", "/", "[", "]", "(", ")", ":", " ",
                       "\n", Nul, Stale}
Text   == Seq(Symbol)

\* The beginning of s is p.
Begins(s, p) == Len(p) <= Len(s) /\ \A i \in 1..Len(p) : s[i] = p[i]

\* The texts that a line is made of.
LEMMA TextsAre ==
    /\ Tag \cup Message \subseteq Text
    /\ \A field \in {"time", "process", "thread", "file", "function", "line"} : Info[field] \in Text
<1>1. \A s \in Seq(STRING) : s \in Seq(Symbol)
  <2>1. STRING \subseteq Symbol
    BY DEF Symbol
  <2> QED BY <2>1, SeqMonotonic
<1> QED BY <1>1, OutputAssumption DEF Text

\* Two texts of the same length with the same symbols are one.
LEMMA SameText ==
    ASSUME NEW s \in Text, NEW t \in Text, Len(s) = Len(t), \A i \in 1..Len(s) : s[i] = t[i]
    PROVE  s = t
BY SeqEqual DEF Text

\* What a text is.
LEMMA TextDoes ==
    ASSUME NEW s \in Text
    PROVE  Len(s) \in Nat /\ \A i \in 1..Len(s) : s[i] \in Symbol
BY ElementOfSeq, LenProperties DEF Text

\* What a concatenation holds, and where.
LEMMA ConcatText ==
    ASSUME NEW s \in Text, NEW t \in Text
    PROVE  /\ s \o t \in Text /\ Len(s \o t) = Len(s) + Len(t)
           /\ \A i \in 1..Len(s) : (s \o t)[i] = s[i]
           /\ \A i \in Len(s) + 1..Len(s) + Len(t) : (s \o t)[i] = t[i - Len(s)]
<1>1. /\ s \o t \in Text /\ Len(s \o t) = Len(s) + Len(t)
      /\ \A i \in 1..Len(s) + Len(t) : (s \o t)[i] = IF i <= Len(s) THEN s[i] ELSE t[i - Len(s)]
  BY ConcatProperties DEF Text
<1>2. Len(s) \in Nat /\ Len(t) \in Nat
  BY TextDoes
<1>3. \A i \in 1..Len(s) : i \in 1..Len(s) + Len(t) /\ i <= Len(s)
  BY <1>2
<1>4. \A i \in Len(s) + 1..Len(s) + Len(t) : i \in 1..Len(s) + Len(t) /\ ~(i <= Len(s))
  BY <1>2
<1> QED BY <1>1, <1>3, <1>4

\* The first n symbols of a text.
LEMMA TakeDoes ==
    ASSUME NEW s \in Text, NEW n \in Nat
    PROVE  /\ Take(s, n) \in Text /\ Len(Take(s, n)) = Least(n, Len(s))
           /\ \A i \in 1..Least(n, Len(s)) : Take(s, n)[i] = s[i]
           /\ Len(s) <= n => Take(s, n) = s
<1>1. Len(s) \in Nat /\ \A i \in 1..Len(s) : s[i] \in Symbol
  BY TextDoes
<1> DEFINE m == Least(n, Len(s))
<1>2. /\ m \in Nat /\ m <= Len(s) /\ m - 1 + 1 = m /\ (Len(s) <= n => m = Len(s))
      /\ (1 <= m \/ m = 0) /\ \A i \in 1..m : i \in 1..Len(s) /\ 1 + i - 1 = i
  BY <1>1 DEF Least
<1>3. Take(s, n) = SubSeq(s, 1, m)
  BY DEF Take
<1> HIDE DEF m
<1>4. /\ SubSeq(s, 1, m) \in Text /\ Len(SubSeq(s, 1, m)) = IF 1 <= m THEN m - 1 + 1 ELSE 0
      /\ \A i \in 1..m - 1 + 1 : SubSeq(s, 1, m)[i] = s[1 + i - 1]
  <2>1. 1 \in Int /\ m \in Int /\ \A i \in 1..m : s[i] \in Symbol
    BY <1>1, <1>2
  <2> QED BY <2>1, SubSeqProperties DEF Text
<1>5. Len(SubSeq(s, 1, m)) = m
  BY <1>2, <1>4
<1>6. \A i \in 1..m : SubSeq(s, 1, m)[i] = s[i]
  BY <1>2, <1>4
<1>7. Len(s) <= n => SubSeq(s, 1, m) = s
  BY <1>2, <1>4, <1>5, <1>6, SameText
<1> QED BY <1>3, <1>4, <1>5, <1>6, <1>7 DEF m

\* What is left of the room n behind a, for b.
LEMMA LeastSum ==
    \A n, a, b \in Nat :
        /\ Least(n, a) \in Nat /\ n - Least(n, a) \in Nat /\ Least(n, a) <= a
        /\ Least(n, a) + Least(n - Least(n, a), b) = Least(n, a + b)
        /\ n - Least(n, a) > 0 => Least(n, a) = a
BY DEF Least

\* elog_strcpy behind a text that was cut for the line is the cut of both.
LEMMA StrcpyDoes ==
    ASSUME NEW text \in Text, NEW part \in Text
    PROVE  Strcpy(Take(text, Size), part) = Take(text \o part, Size)
<1> DEFINE c == Take(text, Size)
           r == Take(part, Size - Len(c))
           b == text \o part
           t == Take(b, Size)
<1>1. Size \in Nat /\ Len(text) \in Nat /\ Len(part) \in Nat
  BY TextDoes, OutputAssumption
<1>2. /\ c \in Text /\ Len(c) = Least(Size, Len(text))
      /\ \A i \in 1..Least(Size, Len(text)) : c[i] = text[i]
  BY <1>1, TakeDoes
<1>3. Size - Len(c) \in Nat
  BY <1>1, <1>2, LeastSum
<1>4. /\ r \in Text /\ Len(r) = Least(Size - Len(c), Len(part))
      /\ \A i \in 1..Least(Size - Len(c), Len(part)) : r[i] = part[i]
  BY <1>3, TakeDoes
<1>5. /\ b \in Text /\ Len(b) = Len(text) + Len(part)
      /\ \A i \in 1..Len(text) : b[i] = text[i]
      /\ \A i \in Len(text) + 1..Len(text) + Len(part) : b[i] = part[i - Len(text)]
  BY ConcatText
<1>6. /\ t \in Text /\ Len(t) = Least(Size, Len(b)) /\ \A i \in 1..Least(Size, Len(b)) : t[i] = b[i]
  BY <1>1, <1>5, TakeDoes
<1>7. Strcpy(c, part) = c \o r
  BY DEF Strcpy
<1> HIDE DEF c, r, b, t
<1>8. /\ c \o r \in Text /\ Len(c \o r) = Len(c) + Len(r)
      /\ \A i \in 1..Len(c) : (c \o r)[i] = c[i]
      /\ \A i \in Len(c) + 1..Len(c) + Len(r) : (c \o r)[i] = r[i - Len(c)]
  BY <1>2, <1>4, ConcatText
<1>9. Len(c \o r) = Len(t)
  <2>1. Least(Size, Len(text)) + Least(Size - Least(Size, Len(text)), Len(part))
          = Least(Size, Len(text) + Len(part))
    BY ONLY <1>1, LeastSum
  <2> QED BY <1>2, <1>4, <1>5, <1>6, <1>8, <2>1
<1>10. ASSUME NEW i \in 1..Len(c \o r) PROVE (c \o r)[i] = t[i]
  <2>1. t[i] = b[i]
    BY <1>6, <1>9
  <2>2. CASE i \in 1..Len(c)
    <3>1. i \in 1..Len(text) /\ i \in 1..Least(Size, Len(text))
      BY <1>1, <1>2, <2>2 DEF Least
    <3> QED BY <1>2, <1>5, <1>8, <2>1, <2>2, <3>1
  <2>3. CASE i \notin 1..Len(c)
    <3>1. Len(r) > 0 /\ Len(c) = Len(text) /\ Len(r) \in Nat
      <4>1. Len(c) \in Nat /\ Len(r) \in Nat
        BY <1>2, <1>4, TextDoes
      <4>2. Len(r) > 0 /\ i \in Nat
        BY <1>8, <2>3, <4>1
      <4>3. Size - Least(Size, Len(text)) \in Nat /\ Len(r) = Least(Size - Least(Size, Len(text)), Len(part))
        BY <1>1, <1>2, <1>4, LeastSum
      <4>4. Size - Least(Size, Len(text)) > 0
        BY <1>1, <4>2, <4>3 DEF Least
      <4> QED BY <1>1, <1>2, <4>1, <4>2, <4>4, LeastSum
    <3>2. /\ i \in Len(c) + 1..Len(c) + Len(r)
          /\ i - Len(c) \in 1..Least(Size - Len(c), Len(part))
          /\ i \in Len(text) + 1..Len(text) + Len(part)
      BY <1>1, <1>3, <1>4, <1>8, <2>3, <3>1 DEF Least
    <3> QED BY <1>4, <1>5, <1>8, <2>1, <3>1, <3>2
  <2> QED BY <2>2, <2>3
<1>11. c \o r = t
  BY <1>6, <1>8, <1>9, <1>10, SameText
<1> QED BY <1>7, <1>11 DEF c, t, b

-----------------------------------------------------------------------------
\* What the parts 1, .., i are together.
Joins(text, parts) ==
    /\ text \in [0..Len(parts) -> Text] /\ text[0] = <<>>
    /\ \A i \in 1..Len(parts) : text[i] = text[i - 1] \o parts[i]

\* Joined puts the parts one behind the other.
LEMMA JoinedDoes ==
    \A parts \in Seq(Text) : \E text : Joins(text, parts) /\ Joined(parts) = text[Len(parts)]
<1> SUFFICES ASSUME NEW parts \in Seq(Text)
             PROVE  \E text : Joins(text, parts) /\ Joined(parts) = text[Len(parts)]
  OBVIOUS
<1> DEFINE Count == Len(parts)
           texts(g) == g = [i \in 0..Count |-> IF i = 0 THEN <<>> ELSE g[i - 1] \o parts[i]]
           text == CHOOSE g : texts(g)
           step == [i \in 1..Count |-> [x \in Text |-> x \o parts[i]]]
<1>1. Count \in Nat /\ <<>> \in Text /\ \A i \in 1..Count : parts[i] \in Text
  <2>1. <<>> \in Text
    BY EmptySeq DEF Text
  <2> QED BY <2>1, LenProperties, ElementOfSeq
<1>2. Joined(parts) = text[Count]
  BY DEF Joined
<1>3. step \in [1..Count -> [Text -> Text]]
  <2>1. \A a, b \in Text : a \o b \in Text
    BY ConcatText
  <2> QED BY <1>1, <2>1
<1> HIDE DEF Count
<1>4. PICK g \in [0..Count -> Text] : Recurs(g, Count, <<>>, step)
  <2> HIDE DEF step
  <2> QED BY <1>1, <1>3, Recursion
<1>5. ASSUME NEW i \in 0..Count
      PROVE  g[i] = IF i = 0 THEN <<>> ELSE g[i - 1] \o parts[i]
  <2>1. i # 0 => i \in 1..Count /\ i - 1 \in 0..Count
    BY <1>1
  <2> QED BY <1>4, <2>1 DEF Recurs
<1>6. texts(g)
  BY <1>4, <1>5
<1>7. texts(text)
  <2> HIDE DEF texts
  <2> QED BY <1>6
<1> HIDE DEF text
<1>8. text[0] = <<>> /\ \A i \in 1..Count : text[i] = text[i - 1] \o parts[i]
  <2>1. 0 \in 0..Count /\ \A i \in 1..Count : i \in 0..Count /\ i # 0
    BY <1>1
  <2> QED BY <1>7, <2>1
<1>9. \A i \in 0..Count : i \in {j \in 0..Count : text[j] \in Text}
  <2> DEFINE Good == {j \in 0..Count : text[j] \in Text}
  <2>1. 0 \in Good
    BY <1>1, <1>8
  <2>2. ASSUME NEW i \in 1..Count, i - 1 \in Good PROVE i \in Good
    <3>1. text[i - 1] \in Text /\ parts[i] \in Text
      BY <1>1, <2>2
    <3>2. text[i - 1] \o parts[i] \in Text
      BY <3>1, ConcatText
    <3>3. text[i] = text[i - 1] \o parts[i]
      BY <1>8
    <3>4. i \in 0..Count
      BY <1>1
    <3> QED BY <3>2, <3>3, <3>4
  <2> HIDE DEF Good
  <2>3. \A i \in 0..Count : i \in Good
    BY <1>1, <2>1, <2>2, Induction
  <2> QED BY <2>3 DEF Good
<1>10. text \in [0..Count -> Text]
  BY <1>7, <1>9
<1>11. Joins(text, parts)
  BY <1>8, <1>10 DEF Joins, Count
<1> QED BY <1>2, <1>11 DEF Count

\* What elog_strcpy puts together is what the parts are, cut for the line.
LEMMA CopiedDoes ==
    \A parts \in Seq(Text) : Joined(parts) \in Text /\ Copied(parts) = Take(Joined(parts), Size)
<1> SUFFICES ASSUME NEW parts \in Seq(Text)
             PROVE  Joined(parts) \in Text /\ Copied(parts) = Take(Joined(parts), Size)
  OBVIOUS
<1>1. PICK text : Joins(text, parts) /\ Joined(parts) = text[Len(parts)]
  BY JoinedDoes
<1> DEFINE Count == Len(parts)
           lines(g) == g = [i \in 0..Count |-> IF i = 0 THEN <<>> ELSE Strcpy(g[i - 1], parts[i])]
           built == CHOOSE g : lines(g)
           cut == [i \in 0..Count |-> Take(text[i], Size)]
<1>2. Count \in Nat /\ \A i \in 1..Count : parts[i] \in Text
  BY LenProperties, ElementOfSeq
<1>3. Copied(parts) = built[Count]
  BY DEF Copied
<1>4. /\ text \in [0..Count -> Text] /\ text[0] = <<>>
      /\ \A i \in 1..Count : text[i] = text[i - 1] \o parts[i]
  BY <1>1 DEF Joins
<1> HIDE DEF Count
<1>5. cut[0] = <<>>
  <2>1. Take(<<>>, Size) = <<>>
    <3>1. <<>> \in Text /\ Len(<<>>) = 0 /\ Size \in Nat /\ 0 <= Size
      BY EmptySeq, OutputAssumption DEF Text
    <3> QED BY ONLY <3>1, TakeDoes
  <2>2. 0 \in 0..Count
    BY <1>2
  <2> QED BY <1>4, <2>1, <2>2
<1>6. ASSUME NEW i \in 1..Count PROVE cut[i] = Strcpy(cut[i - 1], parts[i])
  <2>1. i \in 0..Count /\ i - 1 \in 0..Count
    BY <1>2
  <2>2. Strcpy(Take(text[i - 1], Size), parts[i]) = Take(text[i - 1] \o parts[i], Size)
    BY <1>2, <1>4, <2>1, StrcpyDoes
  <2> QED BY <1>4, <2>1, <2>2
<1>7. lines(cut)
  <2>1. \A i \in 0..Count : i # 0 => i \in 1..Count
    BY <1>2
  <2>2. DOMAIN cut = 0..Count /\ cut = [i \in 0..Count |-> cut[i]]
    OBVIOUS
  <2> HIDE DEF cut
  <2> QED BY <1>5, <1>6, <2>1, <2>2
<1>8. lines(built)
  <2> HIDE DEF lines
  <2> QED BY <1>7
<1> HIDE DEF built
<1>9. built[0] = <<>> /\ \A i \in 1..Count : built[i] = Strcpy(built[i - 1], parts[i])
  <2>1. 0 \in 0..Count /\ \A i \in 1..Count : i \in 0..Count /\ i # 0
    BY <1>2
  <2> QED BY <1>8, <2>1
<1>10. \A i \in 0..Count : i \in {j \in 0..Count : built[j] = cut[j]}
  <2> HIDE DEF cut
  <2> DEFINE Good == {j \in 0..Count : built[j] = cut[j]}
  <2>1. 0 \in Good
    BY <1>2, <1>5, <1>9
  <2>2. ASSUME NEW i \in 1..Count, i - 1 \in Good PROVE i \in Good
    <3>1. i \in 0..Count /\ built[i - 1] = cut[i - 1]
      BY <1>2, <2>2
    <3>2. built[i] = Strcpy(built[i - 1], parts[i]) /\ cut[i] = Strcpy(cut[i - 1], parts[i])
      BY <1>6, <1>9
    <3> QED BY <3>1, <3>2
  <2> HIDE DEF Good
  <2>3. \A i \in 0..Count : i \in Good
    BY <1>2, <2>1, <2>2, Induction
  <2> QED BY <2>3 DEF Good
<1>11. Count \in 0..Count
  BY <1>2
<1>12. built[Count] = Take(text[Count], Size)
  BY <1>10, <1>11
<1> QED BY <1>1, <1>3, <1>4, <1>11, <1>12 DEF Count

\* What is joined begins with the first two parts.
LEMMA JoinedBegins ==
    \A parts \in Seq(Text) : Len(parts) >= 2 => Begins(Joined(parts), parts[1] \o parts[2])
<1> SUFFICES ASSUME NEW parts \in Seq(Text), Len(parts) >= 2
             PROVE  Begins(Joined(parts), parts[1] \o parts[2])
  OBVIOUS
<1>1. PICK text : Joins(text, parts) /\ Joined(parts) = text[Len(parts)]
  BY JoinedDoes
<1> DEFINE Count == Len(parts)
           p == parts[1] \o parts[2]
<1>2. Count \in Nat /\ 1 \in 1..Count /\ 2 \in 1..Count /\ \A i \in 1..Count : parts[i] \in Text
  BY LenProperties, ElementOfSeq
<1>3. /\ text \in [0..Count -> Text] /\ text[0] = <<>>
      /\ \A i \in 1..Count : text[i] = text[i - 1] \o parts[i]
  BY <1>1 DEF Joins
<1> HIDE DEF Count
<1>4. text[2] = p
  <2>1. text[1] = text[1 - 1] \o parts[1] /\ text[2] = text[2 - 1] \o parts[2]
    BY <1>2, <1>3
  <2>2. text[1] = <<>> \o parts[1] /\ text[2] = text[1] \o parts[2]
    <3>1. 1 - 1 = 0 /\ 2 - 1 = 1
      OBVIOUS
    <3> QED BY <1>3, <2>1, <3>1
  <2>3. <<>> \o parts[1] = parts[1]
    BY <1>2, ConcatEmptySeq DEF Text
  <2> QED BY <2>2, <2>3
<1> HIDE DEF p
<1>5. p \in Text /\ Len(p) \in Nat
  BY <1>2, <1>3, <1>4, TextDoes
<1> DEFINE Good == {j \in 0..Count : j >= 2 => Begins(text[j], p)}
<1>6. 0 \in Good
  BY <1>2
<1>7. ASSUME NEW i \in 1..Count, i - 1 \in Good PROVE i \in Good
  <2>1. i \in 0..Count /\ i - 1 \in 0..Count /\ (i = 1 \/ i = 2 \/ i - 1 >= 2)
    BY <1>2
  <2>2. CASE i = 1
    BY <2>1, <2>2
  <2>3. CASE i = 2
    <3>1. Begins(p, p)
      BY <1>5 DEF Begins
    <3> QED BY <1>4, <2>1, <2>3, <3>1
  <2>4. CASE i - 1 >= 2
    <3>1. Begins(text[i - 1], p)
      BY <1>7, <2>4
    <3> DEFINE t == text[i - 1]
               u == t \o parts[i]
    <3>2. t \in Text /\ parts[i] \in Text /\ text[i] = u
      BY <1>2, <1>3, <2>1
    <3>3. Len(u) = Len(t) + Len(parts[i]) /\ \A k \in 1..Len(t) : u[k] = t[k]
      BY <3>2, ConcatText
    <3>4. Len(t) \in Nat /\ Len(parts[i]) \in Nat
      BY <3>2, TextDoes
    <3>5. Len(p) <= Len(t) /\ \A k \in 1..Len(p) : t[k] = p[k]
      BY <3>1 DEF Begins
    <3> HIDE DEF t, u
    <3>6. Begins(u, p)
      BY <1>5, <3>3, <3>4, <3>5 DEF Begins
    <3> QED BY <2>1, <3>2, <3>6
  <2> QED BY <2>1, <2>2, <2>3, <2>4
<1> HIDE DEF Good
<1>8. \A i \in 0..Count : i \in Good
  BY <1>2, <1>6, <1>7, Induction
<1>9. Count \in 0..Count /\ Count >= 2
  BY <1>2 DEF Count
<1> QED BY <1>1, <1>8, <1>9 DEF Good, Count, p

-----------------------------------------------------------------------------
\* What vsnprintf writes behind a header.
Printed(h, text) ==
    LET room == Size - Len(h)
    IN  IF text = Fails \/ room = 0 THEN <<>> ELSE Append(Take(text, room - 1), Nul)

\* It is as much of the text as fits.
LEMMA PrintedDoes ==
    ASSUME NEW h \in Text, Len(h) <= Size, NEW text \in Text
    PROVE  /\ Printed(h, text) \in Text
           /\ text # Fails =>
                \A i \in 1..Len(text) : Len(h) + i < Size =>
                    i <= Len(Printed(h, text)) /\ Printed(h, text)[i] = text[i]
<1> DEFINE room == Size - Len(h)
<1>1. Len(h) \in Nat /\ Len(text) \in Nat /\ Size \in Nat /\ room \in Nat
  BY TextDoes, OutputAssumption
<1> HIDE DEF room
<1>2. Printed(h, text) = IF text = Fails \/ room = 0 THEN <<>> ELSE Append(Take(text, room - 1), Nul)
  BY DEF Printed, room
<1>3. CASE text = Fails \/ room = 0
  <2>1. Printed(h, text) = <<>>
    BY <1>2, <1>3
  <2>2. <<>> \in Text
    BY EmptySeq DEF Text
  <2>3. room = 0 => \A i \in 1..Len(text) : ~(Len(h) + i < Size)
    BY <1>1 DEF room
  <2> QED BY <1>3, <2>1, <2>2, <2>3
<1>4. CASE ~(text = Fails \/ room = 0)
  <2> DEFINE t == Take(text, room - 1)
             m == Least(room - 1, Len(text))
  <2>1. room - 1 \in Nat
    BY <1>1, <1>4
  <2>2. t \in Text /\ Len(t) = m /\ \A i \in 1..m : t[i] = text[i]
    BY <2>1, TakeDoes
  <2>3. m \in Nat
    BY <1>1, <2>1 DEF Least
  <2>4. \A i \in 1..Len(text) : Len(h) + i < Size => i \in 1..m
    BY <1>1, <2>1 DEF Least, room
  <2>5. Printed(h, text) = Append(t, Nul)
    BY <1>2, <1>4
  <2> HIDE DEF t, m
  <2>6. Nul \in Symbol
    BY DEF Symbol
  <2>7. /\ Append(t, Nul) \in Text /\ Len(Append(t, Nul)) = m + 1
        /\ \A i \in 1..m : Append(t, Nul)[i] = t[i]
    BY <2>2, <2>6, AppendProperties DEF Text
  <2>8. \A i \in 1..m : i <= m + 1
    BY <2>3
  <2> QED BY <2>2, <2>4, <2>5, <2>7, <2>8
<1> QED BY <1>3, <1>4

\* log_buf holds the header, and behind it as much of the text as fits.
LEMMA LogBufDoes ==
    ASSUME NEW h \in Text, Len(h) <= Size, NEW text \in Text
    PROVE  /\ LogBuf(h, text) \in Text /\ Len(LogBuf(h, text)) = Size
           /\ \A i \in 1..Len(h) : LogBuf(h, text)[i] = h[i]
           /\ text # Fails =>
                \A i \in 1..Len(text) : Len(h) + i < Size => LogBuf(h, text)[Len(h) + i] = text[i]
<1> DEFINE s == Printed(h, text)
           b == [i \in 1..Size |-> IF i <= Len(h) THEN h[i]
                                   ELSE IF i <= Len(h) + Len(s) THEN s[i - Len(h)] ELSE Stale]
<1>1. LogBuf(h, text) = b
  BY DEF LogBuf, Printed
<1>2. /\ s \in Text
      /\ text # Fails => \A i \in 1..Len(text) : Len(h) + i < Size => i <= Len(s) /\ s[i] = text[i]
  BY PrintedDoes
<1> HIDE DEF s
<1>3. /\ Len(h) \in Nat /\ Len(text) \in Nat /\ Len(s) \in Nat /\ Size \in Nat
      /\ \A i \in 1..Len(h) : h[i] \in Symbol
      /\ \A i \in 1..Len(s) : s[i] \in Symbol
  BY <1>2, TextDoes, OutputAssumption
<1>4. ASSUME NEW i \in 1..Size PROVE b[i] \in Symbol
  <2>1. i <= Len(h) => i \in 1..Len(h)
    BY <1>3
  <2>2. ~(i <= Len(h)) /\ i <= Len(h) + Len(s) => i - Len(h) \in 1..Len(s)
    BY <1>3
  <2>3. Stale \in Symbol
    BY DEF Symbol
  <2> QED BY <1>3, <2>1, <2>2, <2>3
<1>5. DOMAIN b = 1..Size
  OBVIOUS
<1>6. \A i \in 1..Len(h) : b[i] = h[i]
  BY <1>3
<1>7. ASSUME text # Fails, NEW i \in 1..Len(text), Len(h) + i < Size PROVE b[Len(h) + i] = text[i]
  <2>1. i <= Len(s) /\ s[i] = text[i]
    BY <1>2, <1>7
  <2>2. Len(h) + i \in 1..Size /\ ~(Len(h) + i <= Len(h)) /\ Len(h) + i - Len(h) = i
    BY <1>3, <1>7
  <2>3. Len(h) + i <= Len(h) + Len(s)
    BY <1>3, <2>1
  <2> QED BY <2>1, <2>2, <2>3
<1>8. b \in [1..Size -> Symbol]
  <2>1. b = [i \in 1..Size |-> b[i]]
    OBVIOUS
  <2> HIDE DEF b
  <2> QED BY <1>4, <2>1
<1> HIDE DEF b
<1>9. b \in Text /\ Len(b) = Size
  BY <1>3, <1>5, <1>8, SMTT(40) DEF Text
<1> QED BY <1>1, <1>6, <1>7, <1>9

\* The line without its newline sign: how long it is.
LEMMA LineLength ==
    ASSUME NEW h \in Text, Len(h) <= Size, NEW text \in Text
    PROVE  /\ LogLength(h, text) \in Nat /\ LogLength(h, text) <= Size - 1
           /\ Least(Len(h), Size - 1) <= LogLength(h, text)
           /\ text # Fails => LogLength(h, text) = Least(Len(h) + Len(text), Size - 1)
<1>1. Len(h) \in Nat /\ Len(text) \in Nat /\ Size \in Nat \ {0, 1}
  BY TextDoes, OutputAssumption
<1> QED BY <1>1 DEF LogLength, LengthOf, Least

\* Its bytes are those of log_buf.
LEMMA LineBytes ==
    ASSUME NEW h \in Text, Len(h) <= Size, NEW text \in Text
    PROVE  /\ Line(h, text) \in Text /\ Len(Line(h, text)) = LogLength(h, text)
           /\ \A i \in 1..LogLength(h, text) : Line(h, text)[i] = LogBuf(h, text)[i]
<1> DEFINE b == LogBuf(h, text)
           n == LogLength(h, text)
<1>1. b \in Text /\ Len(b) = Size
  BY LogBufDoes
<1>2. n \in Nat /\ n <= Size - 1 /\ Size \in Nat
  BY LineLength, OutputAssumption
<1>3. Line(h, text) = Take(b, n)
  <2>1. Least(n, Len(b)) = n
    BY <1>1, <1>2 DEF Least
  <2> QED BY <2>1 DEF Line, Take
<1> HIDE DEF b, n
<1>4. Least(n, Len(b)) = n
  BY <1>1, <1>2 DEF Least
<1>5. /\ Take(b, n) \in Text /\ Len(Take(b, n)) = n
      /\ \A i \in 1..n : Take(b, n)[i] = b[i]
  BY <1>1, <1>2, <1>4, TakeDoes
<1> QED BY <1>3, <1>5 DEF b, n

\* The newline sign always has room.
LEMMA NewlineDoes ==
    ASSUME NEW built \in Text, Len(built) < Size
    PROVE  Strcpy(built, <<"\n">>) = Append(built, "\n")
<1> DEFINE nl == <<"\n">>
<1>1. Len(built) \in Nat /\ Size \in Nat
  BY TextDoes, OutputAssumption
<1>2. "\n" \in Symbol
  BY DEF Symbol
<1>3. nl \in Text /\ Len(nl) = 1
  BY <1>2 DEF Text
<1>4. Take(nl, Size - Len(built)) = nl
  <2>1. Size - Len(built) \in Nat /\ Len(nl) <= Size - Len(built)
    BY <1>1, <1>3
  <2> HIDE DEF nl
  <2> QED BY <1>3, <2>1, TakeDoes
<1>5. Append(built, "\n") = built \o nl
  BY <1>2, AppendIsConcat DEF Text
<1> QED BY <1>4, <1>5 DEF Strcpy

\* The line that elog_output puts out, for the parts p and a message.
Made(p, text) == Strcpy(Line(Take(p, Size), text), <<"\n">>)

\* It begins with what has room of its parts, and has one newline sign more.
LEMMA MadeBegins ==
    ASSUME NEW p \in Text, NEW text \in Text
    PROVE  /\ Made(p, text) \in Text
           /\ Made(p, text) = Append(Line(Take(p, Size), text), "\n")
           /\ \A i \in 1..Len(p) : i < Size => i <= Len(Made(p, text)) /\ Made(p, text)[i] = p[i]
<1> DEFINE h == Take(p, Size)
           l == Line(h, text)
           n == LogLength(h, text)
<1>1. Len(p) \in Nat /\ Size \in Nat \ {0, 1}
  BY TextDoes, OutputAssumption
<1>2. /\ h \in Text /\ Len(h) = Least(Size, Len(p))
      /\ \A i \in 1..Least(Size, Len(p)) : h[i] = p[i]
  BY <1>1, TakeDoes
<1> HIDE DEF h
<1>3. Len(h) <= Size /\ Len(h) \in Nat
  BY <1>1, <1>2 DEF Least
<1>4. l \in Text /\ Len(l) = n /\ \A i \in 1..n : l[i] = LogBuf(h, text)[i]
  BY <1>2, <1>3, LineBytes
<1>5. n \in Nat /\ n <= Size - 1 /\ Least(Len(h), Size - 1) <= n
  BY <1>2, <1>3, LineLength
<1>6. \A i \in 1..Len(h) : LogBuf(h, text)[i] = h[i]
  BY <1>2, <1>3, LogBufDoes
<1> HIDE DEF l, n
<1>7. Made(p, text) = Append(l, "\n")
  <2>1. Len(l) < Size
    BY <1>1, <1>4, <1>5
  <2> QED BY <1>4, <2>1, NewlineDoes DEF Made, h, l
<1>8. /\ Append(l, "\n") \in Text /\ Len(Append(l, "\n")) = n + 1
      /\ \A i \in 1..n : Append(l, "\n")[i] = l[i]
  <2>1. "\n" \in Symbol
    BY DEF Symbol
  <2> QED BY <1>4, <2>1, AppendProperties DEF Text
<1>9. ASSUME NEW i \in 1..Len(p), i < Size PROVE i <= n + 1 /\ Append(l, "\n")[i] = p[i]
  <2>1. i \in 1..n /\ i \in 1..Len(h) /\ i \in 1..Least(Size, Len(p)) /\ i <= n + 1
    BY <1>1, <1>2, <1>3, <1>5, <1>9 DEF Least
  <2> QED BY <1>2, <1>4, <1>6, <1>8, <2>1
<1> QED BY <1>7, <1>8, <1>9 DEF l, h

\* It is its parts and the message, as much of them as has room, and the sign.
LEMMA MadeWhole ==
    ASSUME NEW p \in Text, NEW text \in Text, text # Fails
    PROVE  Made(p, text) = Append(Take(p \o text, Size - 1), "\n")
<1> DEFINE h == Take(p, Size)
           l == Line(h, text)
           n == LogLength(h, text)
           b == p \o text
           t == Take(b, Size - 1)
<1>1. Len(p) \in Nat /\ Len(text) \in Nat /\ Size \in Nat \ {0, 1} /\ Size - 1 \in Nat
  BY TextDoes, OutputAssumption
<1>2. /\ h \in Text /\ Len(h) = Least(Size, Len(p))
      /\ \A i \in 1..Least(Size, Len(p)) : h[i] = p[i]
  BY <1>1, TakeDoes
<1> HIDE DEF h
<1>3. Len(h) <= Size /\ Len(h) \in Nat
  BY <1>1, <1>2 DEF Least
<1>4. l \in Text /\ Len(l) = n /\ \A i \in 1..n : l[i] = LogBuf(h, text)[i]
  BY <1>2, <1>3, LineBytes
<1>5. n \in Nat /\ n = Least(Len(h) + Len(text), Size - 1)
  BY <1>2, <1>3, LineLength
<1>6. /\ \A i \in 1..Len(h) : LogBuf(h, text)[i] = h[i]
      /\ \A i \in 1..Len(text) : Len(h) + i < Size => LogBuf(h, text)[Len(h) + i] = text[i]
  BY <1>2, <1>3, LogBufDoes
<1>7. /\ b \in Text /\ Len(b) = Len(p) + Len(text)
      /\ \A i \in 1..Len(p) : b[i] = p[i]
      /\ \A i \in Len(p) + 1..Len(p) + Len(text) : b[i] = text[i - Len(p)]
  BY ConcatText
<1> HIDE DEF b
<1>8. /\ t \in Text /\ Len(t) = Least(Size - 1, Len(b))
      /\ \A i \in 1..Least(Size - 1, Len(b)) : t[i] = b[i]
  BY <1>1, <1>7, TakeDoes
<1> HIDE DEF l, n, t
<1>9. n = Least(Size - 1, Len(b))
  BY <1>1, <1>2, <1>5, <1>7 DEF Least
<1>10. ASSUME NEW i \in 1..n PROVE LogBuf(h, text)[i] = b[i]
  <2>1. i \in Nat /\ 0 < i /\ i <= n /\ i <= Size - 1 /\ i <= Len(h) + Len(text)
    BY <1>1, <1>3, <1>5 DEF Least
  <2>2. CASE i <= Len(h)
    <3>1. i \in 1..Len(h) /\ i \in 1..Least(Size, Len(p)) /\ i \in 1..Len(p)
      BY <1>1, <1>2, <1>3, <2>1, <2>2 DEF Least
    <3> QED BY <1>2, <1>6, <1>7, <3>1
  <2>3. CASE ~(i <= Len(h))
    <3>1. Len(h) = Len(p)
      BY <1>1, <1>2, <2>1, <2>3 DEF Least
    <3>2. /\ i - Len(h) \in 1..Len(text) /\ Len(h) + (i - Len(h)) = i /\ i < Size
          /\ i \in Len(p) + 1..Len(p) + Len(text)
      BY <1>1, <1>3, <2>1, <2>3, <3>1
    <3>3. LogBuf(h, text)[i] = text[i - Len(h)]
      BY <1>6, <3>2
    <3> QED BY <1>7, <3>1, <3>2, <3>3
  <2> QED BY <2>2, <2>3
<1>11. l = t
  BY <1>4, <1>8, <1>9, <1>10, SameText
<1> QED BY <1>11, MadeBegins DEF h, l, t, b

-----------------------------------------------------------------------------
\* The texts of one and of two symbols.
LEMMA ShortTexts ==
    /\ <<>> \in Text
    /\ \A x \in Symbol : <<x>> \in Text /\ Len(<<x>>) = 1 /\ <<x>>[1] = x
    /\ \A x, y \in Symbol : <<x, y>> \in Text /\ Len(<<x, y>>) = 2 /\ <<x, y>>[1] = x /\ <<x, y>>[2] = y
<1>1. <<>> \in Text
  BY EmptySeq DEF Text
<1>2. \A x \in Symbol : <<x>> \in Text /\ Len(<<x>>) = 1 /\ <<x>>[1] = x
  <2> HIDE DEF Symbol
  <2> QED BY DEF Text
<1>3. \A x, y \in Symbol : <<x, y>> \in Text /\ Len(<<x, y>>) = 2 /\ <<x, y>>[1] = x /\ <<x, y>>[2] = y
  <2> HIDE DEF Symbol
  <2> QED BY DEF Text
<1> QED BY <1>1, <1>2, <1>3

\* A part that may be left out.
LEMMA IfDoes == \A c \in BOOLEAN : \A s \in Text : If(c, s) \in Text /\ (c => If(c, s) = s)
BY ShortTexts DEF If

\* The letter of each level is its own.
LEMMA LevelsDiffer ==
    /\ \A l \in Level : LevelInfo[l + 1] \in Symbol
    /\ \A k, l \in Level : LevelInfo[k + 1] = LevelInfo[l + 1] => k = l
    /\ Len(LevelInfo) = 6
    /\ \A l \in Level : l + 1 \in 1..6
<1>1. \A l \in Level : l = 0 \/ l = 1 \/ l = 2 \/ l = 3 \/ l = 4 \/ l = 5
  BY DEF Level
<1>2. /\ LevelInfo[0 + 1] = "A" /\ LevelInfo[1 + 1] = "E" /\ LevelInfo[2 + 1] = "W"
      /\ LevelInfo[3 + 1] = "I" /\ LevelInfo[4 + 1] = "D" /\ LevelInfo[5 + 1] = "V"
  BY DEF LevelInfo
<1>3. \A l \in Level : LevelInfo[l + 1] \in Symbol
  BY <1>1, <1>2 DEF Symbol
<1>4. \A k, l \in Level : LevelInfo[k + 1] = LevelInfo[l + 1] => k = l
  <2> SUFFICES ASSUME NEW k \in Level, NEW l \in Level, LevelInfo[k + 1] = LevelInfo[l + 1]
               PROVE  k = l
    OBVIOUS
  <2> QED BY <1>1, <1>2
<1>5. Len(LevelInfo) = 6
  BY DEF LevelInfo
<1>6. \A l \in Level : l + 1 \in 1..6
  BY DEF Level
<1> QED BY <1>3, <1>4, <1>5, <1>6

\* A function on 1..n is a text.
LEMMA FunctionText ==
    ASSUME NEW n \in Nat, NEW f \in [1..n -> Symbol]
    PROVE  f \in Text /\ Len(f) = n
BY DEF Text

\* A text and one symbol more.
LEMMA AppendText ==
    ASSUME NEW s \in Text, NEW x \in Symbol
    PROVE  /\ Append(s, x) \in Text /\ Len(Append(s, x)) = Len(s) + 1
           /\ \A i \in 1..Len(s) : Append(s, x)[i] = s[i]
           /\ Append(s, x)[Len(s) + 1] = x
BY AppendProperties DEF Text

\* Blanks.
LEMMA SpacesDo ==
    ASSUME NEW n \in Nat
    PROVE  Spaces(n) \in Text /\ Len(Spaces(n)) = n /\ \A i \in 1..n : Spaces(n)[i] = " "
<1>1. Spaces(n) \in [1..n -> Symbol] /\ \A i \in 1..n : Spaces(n)[i] = " "
  <2>1. " " \in Symbol
    BY DEF Symbol
  <2> QED BY <2>1 DEF Spaces
<1> QED BY <1>1, FunctionText

\* A tag and n blanks.
LEMMA FilledDoes ==
    ASSUME NEW tag \in Text, NEW n \in Nat
    PROVE  /\ Append(tag \o Spaces(n), " ") \in Text
           /\ Len(tag) < Len(Append(tag \o Spaces(n), " "))
           /\ \A i \in 1..Len(tag) : Append(tag \o Spaces(n), " ")[i] = tag[i]
           /\ Append(tag \o Spaces(n), " ")[Len(tag) + 1] = " "
<1> DEFINE sp == Spaces(n)
           f == tag \o sp
           t == Append(f, " ")
<1>1. Len(tag) \in Nat
  BY TextDoes
<1>2. " " \in Symbol
  BY DEF Symbol
<1>3. sp \in Text /\ Len(sp) = n /\ \A i \in 1..n : sp[i] = " "
  BY SpacesDo
<1> HIDE DEF sp
<1>4. /\ f \in Text /\ Len(f) = Len(tag) + n
      /\ \A i \in 1..Len(tag) : f[i] = tag[i]
      /\ \A i \in Len(tag) + 1..Len(tag) + n : f[i] = sp[i - Len(tag)]
  BY <1>3, ConcatText
<1> HIDE DEF f
<1>5. /\ t \in Text /\ Len(t) = Len(f) + 1
      /\ \A i \in 1..Len(f) : t[i] = f[i]
      /\ t[Len(f) + 1] = " "
  BY <1>2, <1>4, AppendText
<1> HIDE DEF t
<1>6. Len(tag) < Len(t)
  <2>1. \A a, b \in Nat : a < a + b + 1
    OBVIOUS
  <2>2. Len(t) = Len(tag) + n + 1
    BY <1>4, <1>5
  <2>3. Len(tag) < Len(tag) + n + 1
    BY <1>1, <2>1
  <2> QED BY ONLY <2>2, <2>3, Zenon
<1>7. \A i \in 1..Len(tag) : t[i] = tag[i]
  <2>1. \A i \in 1..Len(tag) : i \in 1..Len(f)
    BY <1>1, <1>4
  <2> QED BY <1>4, <1>5, <2>1
<1>8. t[Len(tag) + 1] = " "
  <2>1. CASE n = 0
    <3>1. Len(f) = Len(tag)
      BY <1>1, <1>4, <2>1
    <3> QED BY <1>5, <3>1
  <2>2. CASE n # 0
    <3>1. /\ Len(tag) + 1 \in Len(tag) + 1..Len(tag) + n /\ Len(tag) + 1 - Len(tag) = 1
          /\ 1 \in 1..n /\ Len(tag) + 1 \in 1..Len(f)
      BY <1>1, <1>4, <2>2
    <3>2. f[Len(tag) + 1] = sp[1]
      BY <1>4, <3>1
    <3> QED BY <1>3, <1>5, <3>1, <3>2
  <2> QED BY <2>1, <2>2
<1> QED BY <1>5, <1>6, <1>7, <1>8 DEF t, f, sp

\* The text of a tag: the tag, and then a blank at least.
LEMMA TagTextDoes ==
    ASSUME NEW tag \in Text
    PROVE  /\ TagText(tag) \in Text /\ Len(tag) < Len(TagText(tag))
           /\ \A i \in 1..Len(tag) : TagText(tag)[i] = tag[i]
           /\ TagText(tag)[Len(tag) + 1] = " "
<1> DEFINE n == TagMax \div 2 - Least(Len(tag), TagMax \div 2)
<1>1. n \in Nat
  <2>1. TagMax \div 2 \in Nat /\ Len(tag) \in Nat
    BY TextDoes, OutputAssumption
  <2> QED BY <2>1 DEF Least
<1>2. TagText(tag) = Append(tag \o Spaces(n), " ")
  BY DEF TagText, Filled
<1> HIDE DEF n
<1> DEFINE t == Append(tag \o Spaces(n), " ")
<1>3. /\ t \in Text /\ Len(tag) < Len(t)
      /\ \A i \in 1..Len(tag) : t[i] = tag[i]
      /\ t[Len(tag) + 1] = " "
  BY <1>1, FilledDoes
<1>4. TagText(tag) = t
  BY <1>2
<1> HIDE DEF t
<1> QED BY ONLY <1>3, <1>4, Zenon

\* The parts of a header, for all formats, are texts.  The first two are those
\* of level and tag, if the format has them.
LEMMA PartsAre ==
    ASSUME NEW l \in Level, NEW tag \in Text
    PROVE  /\ Parts(l, tag) \in Seq(Text) /\ Len(Parts(l, tag)) = 12
           /\ {"LVL", "TAG"} \subseteq enabledFmtSet[l] =>
                /\ Parts(l, tag)[1] = LevelText(l)
                /\ Parts(l, tag)[2] = TagText(tag)
<1> DEFINE on(set) == Enabled(l, set)
           p1 == If(on({"LVL"}), LevelText(l))
           p2 == If(on({"TAG"}), TagText(tag))
           p3 == If(on({"TIME", "P_INFO", "T_INFO"}), <<"[">>)
           p4 == If(on({"TIME"}), Info.time \o If(on({"P_INFO", "T_INFO"}), <<" ">>))
           p5 == If(on({"P_INFO"}), Info.process \o If(on({"T_INFO"}), <<" ">>))
           p6 == If(on({"T_INFO"}), Info.thread)
           p7 == If(on({"TIME", "P_INFO", "T_INFO"}), <<"]", " ">>)
           p8 == If(on({"DIR", "FUNC", "LINE"}), <<"(">>)
           behind == IF on({"FUNC"}) THEN <<":">> ELSE If(on({"LINE"}), <<" ">>)
           p9 == If(on({"DIR"}), Info.file \o behind)
           p10 == If(on({"LINE"}), LineNumber \o If(on({"FUNC"}), <<" ">>))
           p11 == If(on({"FUNC"}), Info.function)
           p12 == If(on({"DIR", "FUNC", "LINE"}), <<")">>)
<1>1. \A set : on(set) \in BOOLEAN
  BY DEF Enabled
<1>2. /\ <<"[">> \in Text /\ <<" ">> \in Text /\ <<"]", " ">> \in Text
      /\ <<"(">> \in Text /\ <<":">> \in Text /\ <<")">> \in Text
  <2>1. {"[", "]", "(", ")", ":", " "} \subseteq Symbol
    BY DEF Symbol
  <2> QED BY <2>1, ShortTexts
<1>3. /\ Info.time \in Text /\ Info.process \in Text /\ Info.thread \in Text
      /\ Info.file \in Text /\ Info.function \in Text /\ Info.line \in Text
  <2>1. /\ Info["time"] \in Text /\ Info["process"] \in Text /\ Info["thread"] \in Text
        /\ Info["file"] \in Text /\ Info["function"] \in Text /\ Info["line"] \in Text
    BY TextsAre
  <2> QED BY <2>1
<1>4. LevelText(l) \in Text
  <2>1. "/" \in Symbol
    BY DEF Symbol
  <2> QED BY <2>1, LevelsDiffer, ShortTexts DEF LevelText
<1>5. TagText(tag) \in Text
  BY TagTextDoes
<1>6. LineNumber \in Text
  <2>1. LineNumMax - 1 \in Nat
    BY OutputAssumption
  <2> QED BY <1>3, <2>1, TakeDoes DEF LineNumber
<1>7. Parts(l, tag) = <<p1, p2, p3, p4, p5, p6, p7, p8, p9, p10, p11, p12>>
  BY DEF Parts
<1> HIDE DEF on
<1>8. p1 \in Text /\ p2 \in Text /\ p3 \in Text /\ p6 \in Text
  BY <1>1, <1>2, <1>3, <1>4, <1>5, IfDoes
<1>9. p7 \in Text /\ p8 \in Text /\ p11 \in Text /\ p12 \in Text
  BY <1>1, <1>2, <1>3, IfDoes
<1>10. \A set : If(on(set), <<" ">>) \in Text
  BY <1>1, <1>2, IfDoes
<1>11. p4 \in Text
  <2>1. Info.time \o If(on({"P_INFO", "T_INFO"}), <<" ">>) \in Text
    BY <1>3, <1>10, ConcatText
  <2> QED BY <1>1, <2>1, IfDoes
<1>12. p5 \in Text
  <2>1. Info.process \o If(on({"T_INFO"}), <<" ">>) \in Text
    BY <1>3, <1>10, ConcatText
  <2> QED BY <1>1, <2>1, IfDoes
<1>13. p9 \in Text
  <2>1. behind \in Text
    BY <1>2, <1>10
  <2>2. Info.file \o behind \in Text
    BY <1>3, <2>1, ConcatText
  <2> QED BY <1>1, <2>2, IfDoes
<1>14. p10 \in Text
  <2>1. LineNumber \o If(on({"FUNC"}), <<" ">>) \in Text
    BY <1>6, <1>10, ConcatText
  <2> QED BY <1>1, <2>1, IfDoes
<1>15. {"LVL", "TAG"} \subseteq enabledFmtSet[l] => p1 = LevelText(l) /\ p2 = TagText(tag)
  BY DEF on, Enabled, If
<1> HIDE DEF p1, p2, p3, p4, p5, p6, p7, p8, behind, p9, p10, p11, p12
<1> DEFINE all == <<p1, p2, p3, p4, p5, p6, p7, p8, p9, p10, p11, p12>>
<1>16. all \in Seq(Text) /\ Len(all) = 12 /\ all[1] = p1 /\ all[2] = p2
  <2> HIDE DEF Text
  <2> QED BY <1>8, <1>9, <1>11, <1>12, <1>13, <1>14
<1> HIDE DEF all
<1>17. Parts(l, tag) = all
  BY <1>7 DEF all
<1> QED BY <1>15, <1>16, <1>17

-----------------------------------------------------------------------------
\* The header is what has room of its parts, which begin with level and tag
\* when the format has them.
LEMMA HeaderDoes ==
    ASSUME NEW l \in Level, NEW tag \in Text
    PROVE  LET p == Joined(Parts(l, tag))
           IN  /\ p \in Text /\ Header(l, tag) = Take(p, Size)
               /\ {"LVL", "TAG"} \subseteq enabledFmtSet[l] => Begins(p, LevelText(l) \o TagText(tag))
<1> DEFINE parts == Parts(l, tag)
<1>1. /\ parts \in Seq(Text) /\ Len(parts) = 12
      /\ {"LVL", "TAG"} \subseteq enabledFmtSet[l] => parts[1] = LevelText(l) /\ parts[2] = TagText(tag)
  BY PartsAre
<1>2. Header(l, tag) = Copied(parts)
  BY DEF Header
<1> HIDE DEF parts
<1>3. Joined(parts) \in Text /\ Copied(parts) = Take(Joined(parts), Size)
  BY <1>1, CopiedDoes
<1>4. Len(parts) >= 2
  BY <1>1
<1>5. Begins(Joined(parts), parts[1] \o parts[2])
  BY <1>1, <1>4, JoinedBegins
<1> QED BY <1>1, <1>2, <1>3, <1>5 DEF parts

\* elog_find_lvl reads the level from its letter.
LEMMA FindLvlDoes ==
    ASSUME NEW s \in Text, NEW l \in Level, 1 <= Len(s), s[1] = LevelInfo[l + 1]
    PROVE  FindLvl(s) = l
<1>1. Contains(LevelInfo, s[1])
  BY LevelsDiffer DEF Contains
<1>2. s # <<>>
  BY EmptySeq DEF Text
<1>3. (CHOOSE k \in Level : LevelInfo[k + 1] = s[1]) = l
  BY LevelsDiffer
<1> QED BY <1>1, <1>2, <1>3 DEF FindLvl

\* The least of some numbers is the first of them.
LEMMA FirstIs ==
    ASSUME NEW T, T \subseteq Nat, NEW i \in T, \A j \in T : i <= j
    PROVE  First(T) = i
<1>1. \A j \in T : (\A k \in T : j <= k) => j = i
  <2>1. \A j, k \in Nat : j <= k /\ k <= j => j = k
    OBVIOUS
  <2> QED BY <2>1
<1> QED BY <1>1 DEF First

\* A tag without a blank, and a blank at a place.
Plain(tag) == \A i \in 1..Len(tag) : tag[i] # " "
BlankAt(s, i) == s[i] = " "

\* Where what follows the level is in a line that begins with a level.
LEMMA TagPlace ==
    ASSUME NEW s \in Text, NEW lt \in Text, Len(lt) = 2, NEW x \in Text, Begins(s, lt \o x)
    PROVE  2 + Len(x) <= Len(s) /\ \A i \in 1..Len(x) : s[2 + i] = x[i]
<1> DEFINE p == lt \o x
           m == Len(x)
<1>1. Len(p) = 2 + m /\ \A i \in 2 + 1..2 + m : p[i] = x[i - 2]
  <2>1. Len(p) = Len(lt) + m /\ \A i \in Len(lt) + 1..Len(lt) + m : p[i] = x[i - Len(lt)]
    BY ConcatText
  <2> HIDE DEF p, m
  <2> QED BY <2>1
<1>2. Len(p) <= Len(s) /\ \A i \in 1..Len(p) : s[i] = p[i]
  BY DEF Begins
<1>3. m \in Nat
  BY TextDoes
<1> HIDE DEF p, m
<1>4. \A i \in 1..m : 2 + i \in 2 + 1..2 + m /\ 2 + i \in 1..2 + m /\ 2 + i - 2 = i
  BY <1>3
<1>5. ASSUME NEW i \in 1..m PROVE s[2 + i] = x[i]
  BY <1>1, <1>2, <1>4
<1> QED BY <1>1, <1>2, <1>5 DEF m

\* elog_find_tag reads the tag up to the first blank.
LEMMA FindTagDoes ==
    ASSUME NEW s \in Text, NEW l \in Level, NEW tag \in Text, NEW k \in Nat, Len(tag) = k,
           k < TagMax, Plain(tag), Len(LevelText(l)) = 2,
           3 + k <= Len(s), BlankAt(s, 3 + k), \A i \in 1..k : s[2 + i] = tag[i]
    PROVE  FindTag(s, l) = tag
<1> DEFINE upTo == Least(Len(s), 2 + TagMax)
           ends == {i \in 3..upTo : BlankAt(s, i)}
<1>1. Len(s) \in Nat /\ TagMax \in Nat
  BY TextDoes, OutputAssumption
<1>2. upTo \in Nat /\ 3 + k <= upTo
  BY <1>1 DEF Least
<1>3. FindTag(s, l) = IF ends = {} THEN Fails ELSE SubSeq(s, 3, First(ends) - 1)
  <2>1. 2 + 1 = 3
    OBVIOUS
  <2> QED BY <2>1 DEF FindTag, BlankAt
<1> HIDE DEF upTo
<1>4. 3 + k \in ends
  <2>1. 3 + k \in 3..upTo
    BY <1>2
  <2> QED BY <2>1
<1>5. ASSUME NEW i \in ends PROVE i \in Nat /\ 3 + k <= i
  <2>1. i \in 3..upTo /\ BlankAt(s, i)
    OBVIOUS
  <2>2. i \in Nat /\ 3 <= i
    BY <1>2, <2>1
  <2>3. CASE 3 + k <= i
    BY <2>2, <2>3
  <2>4. CASE ~(3 + k <= i)
    <3>1. i - 2 \in 1..k /\ 2 + (i - 2) = i
      BY <2>2, <2>4
    <3>2. BlankAt(tag, i - 2) /\ i - 2 \in 1..Len(tag)
      BY <2>1, <3>1 DEF BlankAt
    <3> QED BY <3>2 DEF Plain, BlankAt
  <2> QED BY <2>3, <2>4
<1> HIDE DEF ends
<1>6. First(ends) = 3 + k
  <2>1. ends \subseteq Nat /\ \A j \in ends : 3 + k <= j
    BY <1>5
  <2> QED BY <1>4, <2>1, FirstIs
<1>7. FindTag(s, l) = SubSeq(s, 3, 2 + k)
  <2>1. 3 + k - 1 = 2 + k
    OBVIOUS
  <2> QED BY <1>3, <1>4, <1>6, <2>1
<1>8. SubSeq(s, 3, 2 + k) = tag
  <2> DEFINE m == 2 + k
  <2>1. /\ m \in Int /\ m - 3 + 1 = k /\ (3 <= m \/ k = 0)
        /\ \A i \in 1..k : 3 + i - 1 = 2 + i
        /\ \A i \in 3..m : i \in 1..Len(s)
    BY <1>1
  <2> HIDE DEF m
  <2>2. \A i \in 3..m : s[i] \in Symbol
    BY <2>1, TextDoes
  <2>3. 3 \in Int
    OBVIOUS
  <2>4. /\ SubSeq(s, 3, m) \in Text
        /\ Len(SubSeq(s, 3, m)) = IF 3 <= m THEN m - 3 + 1 ELSE 0
        /\ \A i \in 1..m - 3 + 1 : SubSeq(s, 3, m)[i] = s[3 + i - 1]
    BY <2>1, <2>2, <2>3, SubSeqProperties DEF Text
  <2>5. Len(SubSeq(s, 3, m)) = k
    BY <2>1, <2>4
  <2>6. \A i \in 1..k : SubSeq(s, 3, m)[i] = tag[i]
    BY <2>1, <2>4
  <2>7. SubSeq(s, 3, m) = tag
    BY <2>4, <2>5, <2>6, SameText
  <2> QED BY <2>7 DEF m
<1> QED BY <1>7, <1>8

\* So the tag is found in a line that begins with the level and with it.
LEMMA FoundDoes ==
    ASSUME NEW s \in Text, NEW l \in Level, NEW tag \in Text,
           Begins(s, LevelText(l) \o TagText(tag)), Plain(tag), Len(tag) < TagMax
    PROVE  FindTag(s, l) = tag
<1> DEFINE lt == LevelText(l)
           x == TagText(tag)
           k == Len(tag)
           m == Len(x)
<1>1. lt \in Text /\ Len(lt) = 2
  <2>1. "/" \in Symbol
    BY DEF Symbol
  <2> QED BY <2>1, LevelsDiffer, ShortTexts DEF LevelText
<1>2. /\ x \in Text /\ k < m /\ BlankAt(x, k + 1)
      /\ \A i \in 1..k : x[i] = tag[i]
  BY TagTextDoes DEF BlankAt
<1>3. Begins(s, lt \o x)
  OBVIOUS
<1>4. k \in Nat /\ m \in Nat /\ Len(s) \in Nat
  BY <1>2, TextDoes
<1> HIDE DEF x, lt
<1>5. 2 + m <= Len(s) /\ \A i \in 1..m : s[2 + i] = x[i]
  BY <1>1, <1>2, <1>3, TagPlace
<1>6. k < TagMax /\ Len(tag) = k
  OBVIOUS
<1> HIDE DEF k, m
<1>7. 3 + k <= Len(s) /\ k + 1 \in 1..m /\ 2 + (k + 1) = 3 + k /\ \A i \in 1..k : i \in 1..m
  BY <1>2, <1>4, <1>5
<1>8. BlankAt(s, 3 + k)
  BY <1>2, <1>5, <1>7 DEF BlankAt
<1>9. \A i \in 1..k : s[2 + i] = tag[i]
  BY <1>2, <1>5, <1>7
<1>10. Len(LevelText(l)) = 2
  BY <1>1 DEF lt
<1> QED BY <1>4, <1>6, <1>7, <1>8, <1>9, <1>10, FindTagDoes

\* Steps that keep the formats and the call keep the parts.
LEMMA JoinedStays ==
    ASSUME NEW l, NEW tag, enabledFmtSet' = enabledFmtSet, out'.level = l, out'.tag = tag
    PROVE  Joined(Parts(out.level, out.tag))' = Joined(Parts(l, tag))
<1>1. \A k, set : Enabled(k, set)' <=> Enabled(k, set)
  BY DEF Enabled
<1>2. Parts(out.level, out.tag)' = Parts(l, tag)
  BY <1>1 DEF Parts
<1> QED BY <1>2 DEF Joined

\* What elog_output puts out is whole, and level and tag are found in it again.
LEMMA OutputWhole ==
    ASSUME NEW l \in Level, NEW tag \in Tag, NEW text \in Message, Output(l, tag, text)
    PROVE  LineIsWhole'
<1> DEFINE p == Joined(Parts(l, tag))
           made == Made(p, text)
           start == LevelText(l) \o TagText(tag)
<1>1. tag \in Text /\ text \in Text
  BY TextsAre
<1>2. /\ p \in Text /\ Header(l, tag) = Take(p, Size)
      /\ {"LVL", "TAG"} \subseteq enabledFmtSet[l] => Begins(p, start)
  BY <1>1, HeaderDoes
<1>3. /\ out'.by = "elog_output" /\ out'.level = l /\ out'.tag = tag /\ out'.text = text
      /\ out'.bytes = made /\ enabledFmtSet' = enabledFmtSet
  BY <1>2 DEF Output, Made, settings
<1>4. Joined(Parts(out.level, out.tag))' = p
  BY <1>3, JoinedStays
<1> HIDE DEF p
<1>5. text # Fails => made = Append(Take(p \o text, Size - 1), "\n")
  BY <1>1, <1>2, MadeWhole
<1>6. /\ made \in Text
      /\ \A i \in 1..Len(p) : i < Size => i <= Len(made) /\ made[i] = p[i]
  BY <1>1, <1>2, MadeBegins
<1> HIDE DEF made
<1>7. Whole'
  BY <1>3, <1>4, <1>5 DEF Whole
<1>8. ASSUME {"LVL", "TAG"} \subseteq enabledFmtSet[l]
      PROVE  /\ FindLvl(made) = l
             /\ Len(tag) < TagMax /\ Plain(tag) /\ Len(start) < Size =>
                   FindTag(made, l) = tag
  <2>1. Begins(p, start)
    BY <1>2, <1>8
  <2>2. LevelText(l) \in Text /\ Len(LevelText(l)) = 2 /\ LevelText(l)[1] = LevelInfo[l + 1]
    <3>1. "/" \in Symbol
      BY DEF Symbol
    <3> QED BY <3>1, LevelsDiffer, ShortTexts DEF LevelText
  <2>3. TagText(tag) \in Text
    BY <1>1, TagTextDoes
  <2>4. start \in Text /\ Len(start) = 2 + Len(TagText(tag)) /\ start[1] = LevelInfo[l + 1]
    <3> DEFINE lt == LevelText(l)
               x == TagText(tag)
    <3>1. lt \in Text /\ Len(lt) = 2 /\ x \in Text
      BY <2>2, <2>3
    <3> HIDE DEF lt, x
    <3>2. /\ lt \o x \in Text /\ Len(lt \o x) = Len(lt) + Len(x)
          /\ \A i \in 1..Len(lt) : (lt \o x)[i] = lt[i]
      BY <3>1, ConcatText
    <3>3. 1 \in 1..Len(lt)
      BY <3>1
    <3>4. lt \o x \in Text /\ Len(lt \o x) = 2 + Len(x) /\ (lt \o x)[1] = lt[1]
      BY <3>1, <3>2, <3>3
    <3> QED BY <2>2, <3>4 DEF lt, x
  <2> HIDE DEF start
  <2>5. Len(start) \in Nat /\ 1 <= Len(start) /\ Len(p) \in Nat /\ Len(made) \in Nat /\ 1 < Size /\ Size \in Nat
    BY <1>2, <1>6, <2>3, <2>4, TextDoes, OutputAssumption
  <2>6. Len(start) <= Len(p) /\ \A i \in 1..Len(start) : p[i] = start[i]
    BY <2>1 DEF Begins
  <2>7. \A i \in 1..Len(start) : i < Size => i <= Len(made) /\ made[i] = start[i]
    <3>1. \A i \in 1..Len(start) : i \in 1..Len(p)
      BY <2>5, <2>6
    <3> QED BY <1>6, <2>6, <3>1
  <2>8. FindLvl(made) = l
    <3>1. 1 \in 1..Len(start)
      BY <2>5
    <3> QED BY <1>6, <2>4, <2>5, <2>7, <3>1, FindLvlDoes
  <2>9. Len(start) < Size => Begins(made, start)
    <3>1. Len(start) \in 1..Len(start) /\ \A i \in 1..Len(start) : Len(start) < Size => i < Size
      BY <2>5
    <3> QED BY <2>7, <3>1 DEF Begins
  <2>10. Len(tag) < TagMax /\ Plain(tag) /\ Len(start) < Size => FindTag(made, l) = tag
    BY <1>1, <1>6, <2>9, FoundDoes DEF start
  <2> QED BY <2>8, <2>10
<1>9. FoundAgain'
  <2>1. Len(LevelText(out.level) \o TagText(out.tag))' = Len(start)
    BY <1>3 DEF LevelText, TagText, Filled
  <2>2. FindLvl(out.bytes)' = FindLvl(made)
    BY <1>3 DEF FindLvl
  <2>3. FindTag(out.bytes, out.level)' = FindTag(made, l)
    BY <1>3 DEF FindTag, LevelText
  <2>4. (\A i \in 1..Len(out.tag) : out.tag[i] # " ")' <=> Plain(tag)
    BY <1>3 DEF Plain
  <2> HIDE DEF start
  <2> QED BY <1>3, <1>8, <2>1, <2>2, <2>3, <2>4 DEF FoundAgain
<1> QED BY <1>7, <1>9 DEF LineIsWhole

\* A call that puts out no line of elog_output keeps the one in hand as it is,
\* and a format is only set when there is none.
LEMMA LineStep == LineIsWhole /\ [OutputNext]_outputVars => LineIsWhole'
<1> SUFFICES ASSUME LineIsWhole, [OutputNext]_outputVars PROVE LineIsWhole'
  OBVIOUS
<1>1. CASE out' = out /\ enabledFmtSet' = enabledFmtSet
  <2>1. Joined(Parts(out.level, out.tag))' = Joined(Parts(out.level, out.tag))
    BY <1>1, JoinedStays
  <2>2. Whole' <=> Whole
    <3> DEFINE p == Joined(Parts(out.level, out.tag))
    <3>1. p' = p
      BY <2>1
    <3> HIDE DEF p
    <3> QED BY <1>1, <3>1 DEF Whole, Take, Least, p
  <2>3. FoundAgain' <=> FoundAgain
    BY <1>1 DEF FoundAgain, FindLvl, FindTag, LevelText, TagText, Filled
  <2> QED BY <1>1, <2>2, <2>3 DEF LineIsWhole
<1>2. CASE out' = Nothing
  BY <1>2 DEF LineIsWhole, Nothing
<1>3. ASSUME NEW f \in Format, SetFmt(f.levels, f.set) PROVE LineIsWhole'
  <2>1. out' = Nothing
    BY <1>3 DEF SetFmt, Idle
  <2> QED BY <1>2, <2>1
<1>4. ASSUME NEW l \in UsedLevel, NEW tag \in Tag, NEW text \in Message, Output(l, tag, text)
      PROVE  LineIsWhole'
  <2>1. l \in Level
    BY OutputAssumption
  <2> QED BY <1>4, <2>1, OutputWhole
<1>5. ASSUME NEW text \in Message, Raw(text) PROVE LineIsWhole'
  <2>1. out'.by = "elog_raw"
    BY <1>5 DEF Raw, Nothing
  <2> QED BY <2>1 DEF LineIsWhole
<1>6. CASE SetFilters
  BY <1>1, <1>6 DEF SetFilters, settings
<1>7. CASE \E part \in Part : SetFilterTag(part)
  BY <1>1, <1>7 DEF SetFilterTag
<1>8. CASE \E keyword \in Keyword : SetFilterKw(keyword)
  BY <1>1, <1>8 DEF SetFilterKw
<1>9. CASE PutOut
  BY <1>2, <1>9 DEF PutOut
<1>10. CASE \E name \in Tag, d \in Dump : HexDump(name, d)
  BY <1>1, <1>10 DEF HexDump, settings
<1>11. CASE HexDumpLine
  BY <1>1, <1>11 DEF HexDumpLine, settings
<1>12. CASE UNCHANGED outputVars
  BY <1>1, <1>12 DEF outputVars
<1> QED BY <1>3, <1>4, <1>5, <1>6, <1>7, <1>8, <1>9, <1>10, <1>11, <1>12 DEF OutputNext

\* For headers and messages of any length: a line is its header and message, as
\* much of them as has room, and one newline sign, and elog_find_lvl and
\* elog_find_tag read level and tag from it again.
THEOREM LineIsWholeAlways == OutputSpec => []LineIsWhole
<1>1. OutputInit => LineIsWhole
  BY DEF OutputInit, LineIsWhole, Nothing
<1> QED BY <1>1, LineStep, PTL DEF OutputSpec

-----------------------------------------------------------------------------
(* The ring buffer of the asynchronous output                             *)

\* Agree is what makes the type invariant inductive: without it a put could
\* find more room than there is, or a read less than was stored.
RingIInv == RingTypeOK /\ Agree

-----------------------------------------------------------------------------
\* elog_cpyln copies some count of bytes, at most len, and at least one when
\* there is one to copy.
LEMMA CopyLineRange ==
    ASSUME NEW i \in Nat, NEW len \in Nat
    PROVE  /\ CopyLine(i, len) \in 0..len
           /\ len > 0 => CopyLine(i, len) > 0
<1> DEFINE T == {k \in Nat : k > 0 /\ log_buf[i + k - 1] = Newline}
<1>1. \E n \in 0..len : IsLine(i, len, n)
  <2>1. CASE \E k \in T : k <= len
    <3>1. PICK x \in T : \A y \in T : x <= y
      BY <2>1, LeastElement
    <3>2. x \in 0..len
      <4>1. PICK k \in T : k <= len
        BY <2>1
      <4>2. x \in Nat /\ k \in Nat /\ x <= k
        BY <3>1
      <4> QED BY ONLY <4>1, <4>2, len \in Nat
    <3>3. \A k \in 1..(x - 1) : k \notin T
      BY <3>1
    <3>4. IsLine(i, len, x)
      BY <3>1, <3>2, <3>3 DEF IsLine
    <3> QED BY <3>2, <3>4
  <2>2. CASE ~ \E k \in T : k <= len
    <3>1. IsLine(i, len, len)
      BY <2>2 DEF IsLine
    <3> QED BY <3>1
  <2> QED BY <2>1, <2>2
<1>2. IsLine(i, len, CopyLine(i, len)) /\ CopyLine(i, len) \in 0..len
  BY <1>1 DEF CopyLine
<1> QED BY <1>2 DEF IsLine

\* One read takes at least one byte and no more than it has room for.
LEMMA LineSizeRange ==
    ASSUME RingTypeOK, NEW size \in 1..N
    PROVE  LineSize(size) \in 1..size
<1> USE RingAssumption
<1>1. read_index \in 0..(N - 1)
  BY DEF RingTypeOK
<1>2. CASE read_index + size < N
  <2>1. CopyLine(read_index, size) \in 1..size
    <3>1. read_index \in Nat /\ size \in Nat /\ size > 0
      BY <1>1
    <3>2. CopyLine(read_index, size) \in 0..size /\ CopyLine(read_index, size) > 0
      BY ONLY <3>1, CopyLineRange
    <3> QED BY <3>1, <3>2
  <2> QED BY <1>2, <2>1 DEF LineSize
<1>3. CASE ~(read_index + size < N)
  <2> DEFINE first == CopyLine(read_index, N - read_index)
  <2>1. first \in 1..(N - read_index)
    BY <1>1, CopyLineRange
  <2>2. N - read_index \in 1..size
    BY <1>1, <1>3
  <2>3. CASE first = N - read_index
    <3>1. size - first \in Nat
      BY <2>2, <2>3
    <3>2. CopyLine(0, size - first) \in 0..(size - first)
      BY <3>1, CopyLineRange
    <3> QED BY <1>3, <2>1, <2>2, <2>3, <3>2 DEF LineSize
  <2>4. CASE first # N - read_index
    BY <1>3, <2>1, <2>2, <2>4 DEF LineSize
  <2> QED BY <2>3, <2>4
<1> QED BY <1>2, <1>3

\* elog_async_get_buf_used is right wherever the invariant holds.
LEMMA UsedCorrect == RingIInv => BufUsed = held
BY RingAssumption DEF RingIInv, RingTypeOK, Agree, BufUsed, Around

\* Going on from where `held` bytes end, and from where fewer begin, leads to
\* the same place.
LEMMA AroundTwice ==
    ASSUME NEW i \in 0..(N - 1), NEW k \in 0..N, NEW n \in 0..N
    PROVE  /\ k + n <= N => Around(Around(i + k) + n) = Around(i + (k + n))
           /\ n <= k => Around(Around(i + n) + (k - n)) = Around(i + k)
BY RingAssumption DEF Around

-----------------------------------------------------------------------------
\* A fresh ring is empty.
LEMMA InitIInv == RingInit => RingIInv
BY RingAssumption, EmptySeq DEF RingInit, RingIInv, RingTypeOK, Agree, Around

\* async_put_log keeps the invariant: it moves the write index by what it
\* stores, and sets the full flag exactly when that fills the buffer.
LEMMA PutIInv ==
    ASSUME RingIInv, NEW log \in Log, Put(log)
    PROVE  RingIInv'
<1> USE RingAssumption
<1>1. BufUsed = held /\ held \in 0..N
  BY UsedCorrect DEF RingIInv, RingTypeOK
<1>2. log \in Seq(Byte) /\ Len(log) \in Nat \ {0}
  BY EmptySeq
<1>3. CASE BufSpace = 0
  BY <1>1, <1>3 DEF Put, RingIInv, RingTypeOK, Agree, indices, Around
<1>4. CASE BufSpace # 0
  <2> DEFINE size == Stored(Len(log))
  <2>1. /\ size \in 1..(N - held) /\ size <= Len(log)
        /\ size = N - held <=> BufSpace <= Len(log)
    BY <1>1, <1>2, <1>4 DEF Stored, BufSpace
  <2>2. /\ log_buf' = [i \in 0..(N - 1) |->
              IF Place(write_index, i) <= size THEN log[Place(write_index, i)]
                                               ELSE log_buf[i]]
        /\ write_index' = Around(write_index + size)
        /\ buf_is_full' = (buf_is_full \/ BufSpace <= Len(log))
        /\ buf_is_empty' = FALSE
        /\ put_size' = size
        /\ held' = held + size
        /\ read_index' = read_index /\ line' = line
    BY <1>4 DEF Put
  <2>3. RingTypeOK'
    <3>1. write_index \in 0..(N - 1)
      BY DEF RingIInv, RingTypeOK
    <3>2. ASSUME NEW i \in 0..(N - 1) PROVE log_buf'[i] \in Byte
      <4>1. Place(write_index, i) \in 1..N
        BY <3>1 DEF Place
      <4>2. CASE Place(write_index, i) <= size
        <5>1. Place(write_index, i) \in 1..Len(log)
          BY <2>1, <4>1, <4>2, <1>2
        <5> QED BY <1>2, <2>2, <4>2, <5>1, ElementOfSeq
      <4>3. CASE ~(Place(write_index, i) <= size)
        BY <2>2, <4>3 DEF RingIInv, RingTypeOK
      <4> QED BY <4>2, <4>3
    <3>3. log_buf' \in [0..(N - 1) -> Byte]
      BY <2>2, <3>2
    <3>4. write_index' \in 0..(N - 1) /\ held' \in 0..N /\ put_size' \in 0..N
      BY <1>1, <2>1, <2>2, <3>1 DEF Around
    <3>5. buf_is_full' \in BOOLEAN /\ buf_is_empty' \in BOOLEAN
      BY <2>2 DEF RingIInv, RingTypeOK
    <3> QED BY <2>2, <3>3, <3>4, <3>5 DEF RingIInv, RingTypeOK
  <2>4. Agree'
    <3>1. write_index' = Around(read_index' + held')
      <4>1. read_index \in 0..(N - 1) /\ write_index = Around(read_index + held)
        BY DEF RingIInv, RingTypeOK, Agree
      <4>2. size \in 0..N /\ held + size <= N
        BY <1>1, <2>1
      <4>3. Around(Around(read_index + held) + size) = Around(read_index + (held + size))
        BY ONLY <1>1, <4>1, <4>2, AroundTwice
      <4> QED BY <2>2, <4>1, <4>3
    <3>2. buf_is_empty' <=> held' = 0
      BY <1>1, <2>1, <2>2
    <3>3. buf_is_full' <=> held' = N
      <4>1. ~buf_is_full
        BY <1>1, <1>4 DEF RingIInv, Agree, BufSpace
      <4>2. buf_is_full' <=> size = N - held
        BY <2>1, <2>2, <4>1
      <4> QED BY <1>1, <2>1, <2>2, <4>2
    <3> QED BY <3>1, <3>2, <3>3 DEF Agree
  <2> QED BY <2>3, <2>4 DEF RingIInv
<1> QED BY <1>3, <1>4

\* elog_async_get_line_log keeps it: it takes at least one byte when there is
\* one, and sets the empty flag exactly when it takes the last.
LEMMA GetLineIInv ==
    ASSUME RingIInv, GetLine
    PROVE  RingIInv'
<1> USE RingAssumption
<1>1. BufUsed = held /\ held \in 0..N
  BY UsedCorrect DEF RingIInv, RingTypeOK
<1>2. CASE BufUsed = 0
  <2>1. line' = <<>> /\ UNCHANGED <<indices, held, log_buf, put_size>>
    BY <1>2 DEF GetLine
  <2> QED BY <2>1, EmptySeq DEF RingIInv, RingTypeOK, Agree, indices, Around
<1>3. CASE BufUsed # 0
  <2> DEFINE size == IF BufUsed <= PollSize THEN BufUsed ELSE PollSize
             n == LineSize(size)
  <2>1. size \in 1..N /\ size <= held
    BY <1>1, <1>3
  <2>2. n \in 1..held
    BY <1>1, <2>1, LineSizeRange DEF RingIInv
  <2> HIDE DEF n, size
  <2>3. /\ line' = [k \in 1..n |-> log_buf[Around(read_index + k - 1)]]
        /\ read_index' = Around(read_index + n)
        /\ buf_is_empty' = (buf_is_empty \/ BufUsed = n)
        /\ buf_is_full' = (buf_is_full /\ n = 0)
        /\ held' = held - n
        /\ write_index' = write_index
        /\ log_buf' = log_buf /\ put_size' = put_size
    BY <1>3 DEF GetLine, n, size
  <2>4. RingTypeOK'
    <3>1. read_index \in 0..(N - 1)
      BY DEF RingIInv, RingTypeOK
    <3>2. \A k \in 1..n : Around(read_index + k - 1) \in 0..(N - 1)
      BY <1>1, <2>2, <3>1 DEF Around
    <3>3. \A k \in 1..n : log_buf[Around(read_index + k - 1)] \in Byte
      BY <3>2 DEF RingIInv, RingTypeOK
    <3>4. line' \in Seq(Byte)
      BY <1>1, <2>2, <2>3, <3>3, IsASeq
    <3>5. read_index' \in 0..(N - 1) /\ held' \in 0..N
      BY <1>1, <2>2, <2>3, <3>1 DEF Around
    <3>6. buf_is_full' \in BOOLEAN /\ buf_is_empty' \in BOOLEAN
      BY <2>3 DEF RingIInv, RingTypeOK
    <3> QED BY <2>3, <3>4, <3>5, <3>6 DEF RingIInv, RingTypeOK
  <2>5. Agree'
    <3>1. write_index' = Around(read_index' + held')
      <4>1. read_index \in 0..(N - 1) /\ write_index = Around(read_index + held)
        BY DEF RingIInv, RingTypeOK, Agree
      <4>2. n \in 0..N /\ held \in 0..N /\ n <= held
        BY <1>1, <2>2
      <4>3. Around(Around(read_index + n) + (held - n)) = Around(read_index + held)
        BY <4>1, <4>2, AroundTwice
      <4> QED BY <2>3, <4>1, <4>3
    <3>2. buf_is_empty' <=> held' = 0
      <4>1. ~buf_is_empty
        BY <1>1, <1>3 DEF RingIInv, Agree
      <4>2. BufUsed = n <=> held' = 0
        BY <1>1, <2>2, <2>3
      <4> QED BY <2>3, <4>1, <4>2, Zenon
    <3>3. buf_is_full' <=> held' = N
      <4>1. n # 0 /\ held' # N
        BY <1>1, <2>2, <2>3
      <4> QED BY <2>3, <4>1, Zenon
    <3> QED BY <3>1, <3>2, <3>3 DEF Agree
  <2> QED BY <2>4, <2>5 DEF RingIInv
<1> QED BY <1>2, <1>3

\* A step that changes nothing keeps it.
LEMMA StutterIInv == RingIInv /\ UNCHANGED ringVars => RingIInv'
BY DEF RingIInv, RingTypeOK, Agree, ringVars, indices, Around

\* The indices stay inside log_buf and every other variable has its type.
THEOREM RingTypeCorrect == RingSpec => []RingTypeOK
<1>1. RingInit => RingIInv
  BY InitIInv
<1>2. RingIInv /\ [RingNext]_ringVars => RingIInv'
  BY PutIInv, GetLineIInv, StutterIInv DEF RingNext
<1>3. RingIInv => RingTypeOK
  BY DEF RingIInv
<1> QED BY <1>1, <1>2, <1>3, PTL DEF RingSpec

\* The inductive invariant holds in every reachable state.
THEOREM InvariantHolds == RingSpec => []RingIInv
<1>1. RingInit => RingIInv
  BY InitIInv
<1>2. RingIInv /\ [RingNext]_ringVars => RingIInv'
  BY PutIInv, GetLineIInv, StutterIInv DEF RingNext
<1> QED BY <1>1, <1>2, PTL DEF RingSpec

\* Indices and flags of the ring never disagree with what the buffer holds.
THEOREM AgreeAlways == RingSpec => []Agree
<1>1. RingIInv => Agree
  BY DEF RingIInv
<1> QED BY <1>1, InvariantHolds, PTL

\* The size computed by elog_async_get_buf_used is the number of bytes held.
THEOREM UsedIsHeldAlways == RingSpec => []UsedIsHeld
<1>1. RingIInv => UsedIsHeld
  BY UsedCorrect DEF UsedIsHeld
<1> QED BY <1>1, InvariantHolds, PTL

-----------------------------------------------------------------------------
\* elog_async_get_line_log returns nothing only when nothing is held, and a
\* line fits the reader's buffer.
THEOREM EmptyMeansDrainedAlways == RingSpec => EmptyMeansDrained
<1> DEFINE Drained == GetLine => /\ line' = <<>> => held = 0
                                 /\ Len(line') <= PollSize
<1>1. RingIInv /\ RingIInv' => Drained
  <2> SUFFICES ASSUME RingIInv, RingIInv', GetLine
               PROVE  (line' = <<>> => held = 0) /\ Len(line') <= PollSize
    OBVIOUS
  <2>1. BufUsed = held /\ held \in 0..N /\ PollSize \in Nat \ {0} /\ N \in Nat
    BY UsedCorrect, RingAssumption DEF RingIInv, RingTypeOK
  <2>2. CASE BufUsed = 0
    BY <2>1, <2>2, EmptySeq DEF GetLine
  <2>3. CASE BufUsed # 0
    <3> DEFINE size == IF BufUsed <= PollSize THEN BufUsed ELSE PollSize
               n == LineSize(size)
    <3>1. size \in 1..N /\ size <= PollSize
      BY <2>1, <2>3
    <3>2. n \in 1..size
      BY <3>1, LineSizeRange DEF RingIInv
    <3> HIDE DEF n, size
    <3>3. line' = [k \in 1..n |-> log_buf[Around(read_index + k - 1)]]
      BY <2>3 DEF GetLine, n, size
    <3>4. n \in Nat /\ n > 0 /\ n <= PollSize
      BY <2>1, <3>1, <3>2
    <3>5. line' \in Seq(Byte) /\ DOMAIN line' = 1..n
      BY <3>3 DEF RingIInv, RingTypeOK
    <3>6. Len(line') = n
      BY <3>4, <3>5, LenProperties
    <3> QED BY <3>4, <3>6, <3>5, EmptySeq
  <2> QED BY <2>2, <2>3
<1>2. RingIInv /\ RingIInv' /\ [RingNext]_ringVars => [Drained]_ringVars
  BY <1>1
<1> QED BY <1>2, InvariantHolds, PTL DEF RingSpec, EmptyMeansDrained

\* async_put_log drops only what is beyond the room there is.
THEOREM DropsOnlyBeyondSpaceAlways == RingSpec => DropsOnlyBeyondSpace
<1> DEFINE Drops == \A log \in Log :
        Put(log) => put_size' = IF Len(log) <= N - held THEN Len(log) ELSE N - held
<1>1. RingIInv => Drops
  <2> SUFFICES ASSUME RingIInv, NEW log \in Log, Put(log)
               PROVE  put_size' = IF Len(log) <= N - held THEN Len(log) ELSE N - held
    OBVIOUS
  <2>1. BufUsed = held /\ held \in 0..N /\ N \in Nat
    BY UsedCorrect, RingAssumption DEF RingIInv, RingTypeOK
  <2>2. Len(log) \in Nat \ {0}
    BY RingAssumption, EmptySeq
  <2> QED BY <2>1, <2>2 DEF Put, BufSpace, Stored
<1>2. RingIInv /\ [RingNext]_ringVars => [Drops]_ringVars
  BY <1>1
<1> QED BY <1>2, InvariantHolds, PTL DEF RingSpec, DropsOnlyBeyondSpace

-----------------------------------------------------------------------------
\* The bytes the code finds between its indices are a sequence of held bytes.
LEMMA ContentsIsSeq ==
    RingIInv => /\ Contents \in Seq(Byte)
            /\ Len(Contents) = held
            /\ \A k \in 1..held : Contents[k] = log_buf[Around(read_index + k - 1)]
<1> SUFFICES ASSUME RingIInv
             PROVE  /\ Contents \in Seq(Byte)
                    /\ Len(Contents) = held
                    /\ \A k \in 1..held :
                         Contents[k] = log_buf[Around(read_index + k - 1)]
  OBVIOUS
<1> DEFINE at(k) == log_buf[Around(read_index + k - 1)]
<1>1. BufUsed = held /\ held \in 0..N /\ N \in Nat /\ held \in Nat
  BY UsedCorrect, RingAssumption DEF RingIInv, RingTypeOK
<1>2. \A k \in 1..held : at(k) \in Byte
  <2>1. \A k \in 1..held : Around(read_index + k - 1) \in 0..(N - 1)
    BY <1>1 DEF RingIInv, RingTypeOK, Around
  <2> QED BY <2>1 DEF RingIInv, RingTypeOK
<1>3. Contents = [k \in 1..held |-> at(k)]
  BY <1>1 DEF Contents
<1> HIDE DEF at
<1>4. Contents \in Seq(Byte)
  BY <1>1, <1>2, <1>3, IsASeq
<1>5. Contents \in [1..held -> Byte] /\ DOMAIN Contents = 1..held
  BY <1>2, <1>3
<1>6. Len(Contents) = held
  BY <1>1, <1>4, <1>5, LenProperties
<1>7. \A k \in 1..held : Contents[k] = at(k)
  BY <1>3
<1> QED BY <1>4, <1>6, <1>7 DEF at

\* A put appends what it stores, across the end of the buffer or not.
LEMMA PutRefines ==
    ASSUME RingIInv, RingIInv', NEW log \in Log, Put(log)
    PROVE  Queue!Put(log)
<1> USE RingAssumption
<1> DEFINE size == Queue!Lesser(Len(log), N - Len(Contents))
           part == SubSeq(log, 1, size)
<1>1. BufUsed = held /\ held \in 0..N
  BY UsedCorrect DEF RingIInv, RingTypeOK
<1>2. log \in Seq(Byte) /\ Len(log) \in Nat \ {0}
  BY EmptySeq
<1>3. /\ Contents \in Seq(Byte) /\ Len(Contents) = held
      /\ \A k \in 1..held : Contents[k] = log_buf[Around(read_index + k - 1)]
  BY ContentsIsSeq
<1>4. /\ Contents' \in Seq(Byte) /\ Len(Contents') = held'
      /\ \A k \in 1..held' :
           Contents'[k] = log_buf'[Around(read_index' + k - 1)]
  <2>1. (RingIInv => /\ Contents \in Seq(Byte)
                 /\ Len(Contents) = held
                 /\ \A k \in 1..held :
                      Contents[k] = log_buf[Around(read_index + k - 1)])'
    BY ContentsIsSeq, PTL
  <2> QED BY <2>1 DEF Around
<1>5. size \in 0..Len(log) /\ size <= N - held /\ size \in Nat
  BY <1>1, <1>2, <1>3 DEF Queue!Lesser
<1>6. part \in Seq(Byte) /\ Len(part) = size /\ \A k \in 1..size : part[k] = log[k]
  <2>1. \A k \in 1..size : log[k] \in Byte
    BY <1>2, <1>5, ElementOfSeq
  <2> HIDE DEF size
  <2> QED BY <1>5, <2>1, SubSeqProperties
<1>7. line' = line
  BY DEF Put
<1>8. Contents' = Contents \o part
  <2>1. CASE BufSpace = 0
    <3>1. size = 0 /\ held' = held /\ read_index' = read_index /\ log_buf' = log_buf
      BY <1>1, <1>2, <1>3, <2>1 DEF Put, BufSpace, indices, Queue!Lesser
    <3>2. part = <<>>
      BY <1>6, <3>1, EmptySeq
    <3>3. Contents' = Contents
      BY <1>3, <1>4, <3>1, SeqEqual, ZenonT(60)
    <3> QED BY <1>3, <3>2, <3>3, ConcatEmptySeq
  <2>2. CASE BufSpace # 0
    <3>1. size = Stored(Len(log))
      BY <1>1, <1>2, <1>3 DEF Stored, BufSpace, Queue!Lesser
    <3>2. /\ log_buf' = [i \in 0..(N - 1) |->
                IF Place(write_index, i) <= size THEN log[Place(write_index, i)]
                                                 ELSE log_buf[i]]
          /\ held' = held + size
          /\ read_index' = read_index
      BY <2>2, <3>1 DEF Put
    <3> HIDE DEF size, part
    <3>3. /\ Contents \o part \in Seq(Byte)
          /\ Len(Contents \o part) = held + size
          /\ \A k \in 1..(held + size) :
               (Contents \o part)[k] = IF k <= held THEN Contents[k] ELSE part[k - held]
      <4>1. /\ Contents \o part \in Seq(Byte)
            /\ Len(Contents \o part) = Len(Contents) + Len(part)
            /\ \A k \in 1..(Len(Contents) + Len(part)) :
                 (Contents \o part)[k] =
                   IF k <= Len(Contents) THEN Contents[k] ELSE part[k - Len(Contents)]
        BY ONLY <1>3, <1>6, ConcatProperties
      <4> QED BY ONLY <1>3, <1>6, <4>1
    <3>4. ASSUME NEW k \in 1..(held + size)
          PROVE  Contents'[k] = (Contents \o part)[k]
      <4> DEFINE i == Around(read_index + k - 1)
      <4>1. /\ i \in 0..(N - 1)
            /\ Place(write_index, i) = IF k <= held THEN N + k - held ELSE k - held
        BY <1>1, <1>5 DEF RingIInv, RingTypeOK, Agree, Around, Place
      <4>2. Contents'[k] = log_buf'[i]
        BY <1>4, <3>2 DEF Around
      <4> HIDE DEF i
      <4>3. CASE k <= held
        <5>1. log_buf'[i] = log_buf[i]
          BY <1>1, <1>5, <3>2, <4>1, <4>3
        <5>2. Contents[k] = log_buf[i]
          BY <1>1, <1>3, <4>3 DEF i
        <5> QED BY <3>3, <4>2, <4>3, <5>1, <5>2
      <4>4. CASE ~(k <= held)
        <5>1. k - held \in 1..size
          BY <1>1, <1>5, <4>4
        <5>2. log_buf'[i] = log[k - held]
          BY <3>2, <4>1, <4>4, <5>1
        <5>3. part[k - held] = log[k - held]
          BY <1>6, <5>1
        <5> QED BY <3>3, <4>2, <4>4, <5>2, <5>3
      <4> QED BY <4>3, <4>4
    <3>5. Len(Contents') = Len(Contents \o part)
      BY <1>4, <3>2, <3>3
    <3>6. \A k \in 1..Len(Contents') : Contents'[k] = (Contents \o part)[k]
      BY <1>4, <3>2, <3>4
    <3> QED BY <1>4, <3>3, <3>5, <3>6, SeqEqual
  <2> QED BY <2>1, <2>2
<1> QED BY <1>7, <1>8 DEF Queue!Put, Queue!Room

\* A read takes the oldest bytes and leaves the rest as they are.
LEMMA GetLineRefines ==
    ASSUME RingIInv, RingIInv', GetLine
    PROVE  Queue!Get
<1> USE RingAssumption
<1>1. BufUsed = held /\ held \in 0..N
  BY UsedCorrect DEF RingIInv, RingTypeOK
<1>2. /\ Contents \in Seq(Byte) /\ Len(Contents) = held
      /\ \A k \in 1..held : Contents[k] = log_buf[Around(read_index + k - 1)]
  BY ContentsIsSeq
<1>3. /\ Contents' \in Seq(Byte) /\ Len(Contents') = held'
      /\ \A k \in 1..held' :
           Contents'[k] = log_buf'[Around(read_index' + k - 1)]
  <2>1. (RingIInv => /\ Contents \in Seq(Byte)
                 /\ Len(Contents) = held
                 /\ \A k \in 1..held :
                      Contents[k] = log_buf[Around(read_index + k - 1)])'
    BY ContentsIsSeq, PTL
  <2> QED BY <2>1 DEF Around
<1>4. CASE BufUsed = 0
  <2>1. line' = <<>> /\ held' = held
    BY <1>4 DEF GetLine
  <2>2. Contents = <<>> /\ Contents' = <<>>
    BY <1>1, <1>2, <1>3, <1>4, <2>1, EmptySeq
  <2>3. SubSeq(Contents, 1, 0) = <<>> /\ SubSeq(Contents, 0 + 1, Len(Contents)) = <<>>
    BY <1>1, <1>2, <1>4, SubSeqEmpty
  <2>4. 0 \in 0..Queue!Lesser(PollSize, Len(Contents))
    BY <1>1, <1>2 DEF Queue!Lesser
  <2> QED BY <2>1, <2>2, <2>3, <2>4 DEF Queue!Get
<1>5. CASE BufUsed # 0
  <2> DEFINE size == IF BufUsed <= PollSize THEN BufUsed ELSE PollSize
             n == LineSize(size)
  <2>1. size \in 1..N /\ size = Queue!Lesser(PollSize, Len(Contents)) /\ size <= held
    BY <1>1, <1>2, <1>5 DEF Queue!Lesser
  <2>2. n \in 1..size
    BY <2>1, LineSizeRange DEF RingIInv
  <2> HIDE DEF n, size
  <2>3. n \in 1..held /\ n \in Nat
    BY <1>1, <2>1, <2>2
  <2>4. /\ line' = [k \in 1..n |-> log_buf[Around(read_index + k - 1)]]
        /\ read_index' = Around(read_index + n)
        /\ held' = held - n
        /\ log_buf' = log_buf
    BY <1>5 DEF GetLine, n, size
  <2>5. line' = SubSeq(Contents, 1, n)
    <3>1. \A k \in 1..n : Contents[k] \in Byte
      BY <1>1, <1>2, <2>3, ElementOfSeq
    <3>2. /\ SubSeq(Contents, 1, n) \in Seq(Byte)
          /\ Len(SubSeq(Contents, 1, n)) = n
          /\ \A k \in 1..n : SubSeq(Contents, 1, n)[k] = Contents[k]
      BY <2>3, <3>1, SubSeqProperties
    <3>3. line' \in Seq(Byte) /\ Len(line') = n
      BY <2>3, <2>4, LenProperties DEF RingIInv, RingTypeOK
    <3>4. \A k \in 1..n : line'[k] = Contents[k]
      BY <1>1, <1>2, <2>3, <2>4
    <3> QED BY <3>2, <3>3, <3>4, SeqEqual
  <2>6. Contents' = SubSeq(Contents, n + 1, Len(Contents))
    <3> DEFINE rest == SubSeq(Contents, n + 1, held)
    <3>1. \A k \in (n + 1)..held : Contents[k] \in Byte
      BY <1>1, <1>2, <2>3, ElementOfSeq
    <3>2. /\ rest \in Seq(Byte)
          /\ Len(rest) = held - n
          /\ \A k \in 1..(held - n) : rest[k] = Contents[n + k]
      <4>1. n + 1 \in Int /\ held \in Int
        BY <1>1, <2>3
      <4>2. /\ rest \in Seq(Byte)
            /\ Len(rest) = IF n + 1 <= held THEN held - (n + 1) + 1 ELSE 0
            /\ \A k \in 1..(held - (n + 1) + 1) : rest[k] = Contents[(n + 1) + k - 1]
        BY <3>1, <4>1, SubSeqProperties
      <4> HIDE DEF rest
      <4>3. \A k \in 1..(held - n) :
               k \in 1..(held - (n + 1) + 1) /\ (n + 1) + k - 1 = n + k
        BY <1>1, <2>3
      <4> QED BY <1>1, <2>3, <4>2, <4>3
    <3> HIDE DEF rest
    <3>3. \A k \in 1..(held - n) : Contents'[k] = Contents[n + k]
      <4> SUFFICES ASSUME NEW k \in 1..(held - n)
                   PROVE  Contents'[k] = Contents[n + k]
        OBVIOUS
      <4>1. n + k \in 1..held /\ k \in 1..held'
        BY <1>1, <2>3, <2>4
      <4>2. Around(Around(read_index + n) + k - 1) = Around(read_index + (n + k) - 1)
        BY <1>1, <2>3, <4>1 DEF RingIInv, RingTypeOK, Around
      <4>3. Contents'[k] = log_buf[Around(Around(read_index + n) + k - 1)]
        BY <1>3, <2>4, <4>1
      <4>4. Contents[n + k] = log_buf[Around(read_index + (n + k) - 1)]
        BY <1>2, <4>1
      <4> QED BY <4>2, <4>3, <4>4
    <3>4. Contents' = rest
      BY <1>3, <2>4, <3>2, <3>3, SeqEqual
    <3> QED BY <1>2, <3>4 DEF rest
  <2>7. n \in 0..Queue!Lesser(PollSize, Len(Contents)) /\ n # 0
    BY <2>1, <2>2
  <2> QED BY <2>5, <2>6, <2>7 DEF Queue!Get
<1> QED BY <1>4, <1>5

\* The ring buffer is a first-in first-out queue of bytes, for every size.
THEOREM RingIsByteQueue == RingSpec => ImplementsByteQueue
<1>1. RingInit => Queue!Init
  <2> SUFFICES ASSUME RingInit PROVE Queue!Init
    OBVIOUS
  <2>1. Contents \in Seq(Byte) /\ Len(Contents) = 0
    BY InitIInv, ContentsIsSeq DEF RingInit
  <2> QED BY <2>1, EmptySeq DEF RingInit, Queue!Init
<1>2. RingIInv /\ RingIInv' /\ [RingNext]_ringVars => [Queue!Next]_<<Contents, line>>
  <2> SUFFICES ASSUME RingIInv, RingIInv', [RingNext]_ringVars
               PROVE  [Queue!Next]_<<Contents, line>>
    OBVIOUS
  <2>1. ASSUME NEW log \in Log, Put(log) PROVE Queue!Next
    BY <2>1, PutRefines DEF Queue!Next
  <2>2. CASE GetLine
    BY <2>2, GetLineRefines DEF Queue!Next
  <2>3. CASE UNCHANGED ringVars
    BY <2>3 DEF ringVars, indices, Contents, BufUsed, Around
  <2> QED BY <2>1, <2>2, <2>3 DEF RingNext
<1> QED BY <1>1, <1>2, InvariantHolds, PTL DEF RingSpec, ImplementsByteQueue, Queue!Spec
=============================================================================
