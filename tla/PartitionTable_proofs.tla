------------------------ MODULE PartitionTable_proofs ------------------------
(***************************************************************************)
(* Proofs about PartitionTable, for every set of entries, every initial    *)
(* pair of tables, every age width and page size; in the second half, that *)
(* it implements AtomicTable.                                              *)
(***************************************************************************)
EXTENDS PartitionTableProps, SequenceTheorems, WellFoundedInduction, TLAPS

-----------------------------------------------------------------------------
(* Every non-empty set of naturals has a least element: the loop that looks *)
(* an entry up stops at one.                                                *)
LEMMA LeastExists ==
    ASSUME NEW T, T \subseteq Nat, T # {}
    PROVE  \E x \in T : \A y \in T : x <= y
<1>1. PICK x \in T : \A y \in T : ~ (<<y, x>> \in OpToRel(<, Nat))
    BY NatLessThanWellFounded, WFMin
<1>2. \A y \in Nat, z \in Nat : y < z => <<y, z>> \in OpToRel(<, Nat)
    BY Zenon DEF OpToRel
<1>3. \A y \in T : ~ (y < x)
    BY <1>1, <1>2
<1>4. QED
    BY <1>3

(* pt_table_get_active_entries_by_id finds an entry of the type when there  *)
(* is one.                                                                  *)
LEMMA EntryPosFinds ==
    ASSUME NEW s \in Stuff, NEW type
    PROVE  /\ EntryPos(s, type) \in 0 .. Len(s.entries)
           /\ EntryPos(s, type) # 0 => s.entries[EntryPos(s, type)].type = type
           /\ EntryPos(s, type) = 0 =>
                \A p \in 1 .. Len(s.entries) : s.entries[p].type # type
<1> DEFINE P == Positions(s, type)
<1>1. Len(s.entries) \in Nat
    BY LenProperties DEF Stuff
<1>2. P \subseteq Nat
    BY <1>1 DEF Positions
<1>3. CASE P = {}
    <2>1. EntryPos(s, type) = 0
        BY <1>3 DEF EntryPos
    <2>2. QED
        BY <2>1, <1>1, <1>3 DEF Positions
<1>4. CASE P # {}
    <2>1. \E i \in P : \A j \in P : i <= j
        BY <1>2, <1>4, LeastExists
    <2>2. EntryPos(s, type) = CHOOSE i \in P : \A j \in P : i <= j
        BY <1>4 DEF EntryPos
    <2>3. EntryPos(s, type) \in P
        BY <2>1, <2>2
    <2>4. QED
        BY <2>3, <1>1 DEF Positions
<1>5. QED
    BY <1>3, <1>4

LEMMA NextAgeType == \A a \in Ages : NextAge(a) \in Ages
BY PartitionTableAssumption DEF NextAge, Ages

(* Rewriting an entry of a table gives a table.                             *)
LEMMA WithEntryType ==
    ASSUME NEW s \in Stuff, NEW e \in Entry
    PROVE  WithEntry(s, e) \in Stuff
<1> DEFINE p == EntryPos(s, e.type)
<1>1. s.entries \in Seq(Entry) /\ s.entries # <<>> /\ s.age \in Ages
    BY DEF Stuff
<1>2. Len(s.entries) \in Nat /\ Len(s.entries) # 0
    BY <1>1, EmptySeq
<1>3. CASE p # 0
    <2>1. p \in 1 .. Len(s.entries)
        BY <1>3, <1>2, EntryPosFinds
    <2>2. /\ [s.entries EXCEPT ![p] = e] \in Seq(Entry)
          /\ Len([s.entries EXCEPT ![p] = e]) = Len(s.entries)
        BY <2>1, <1>1, ExceptSeq
    <2>3. [s.entries EXCEPT ![p] = e] # <<>>
        BY <2>2, <1>2, EmptySeq
    <2>4. QED
        BY <2>2, <2>3, <1>1, <1>3, NextAgeType DEF WithEntry, Stuff
<1>4. CASE p = 0
    <2>1. /\ Append(s.entries, e) \in Seq(Entry)
          /\ Append(s.entries, e) # <<>>
        BY <1>1, AppendProperties
    <2>2. QED
        BY <2>1, <1>1, <1>4, NextAgeType DEF WithEntry, Stuff
<1>5. QED
    BY <1>3, <1>4

LEMMA InactiveType == \A i \in 0 .. 3 : Inactive(i) \in Id
BY DEF Inactive, Id

(* Flipping entry 0 of a table gives a table.                               *)
LEMMA WithFlipType ==
    ASSUME NEW s \in Stuff
    PROVE  WithFlip(s) \in Stuff
<1> DEFINE e == [s.entries[1] EXCEPT !.active_index = Inactive(@)]
<1>1. s.entries \in Seq(Entry) /\ s.entries # <<>> /\ s.age \in Ages
    BY DEF Stuff
<1>2. Len(s.entries) \in Nat /\ 1 \in 1 .. Len(s.entries)
    BY <1>1, EmptySeq
<1>3. s.entries[1] \in Entry
    BY <1>1, <1>2, ElementOfSeq
<1>4. e \in Entry
    BY <1>3, InactiveType DEF Entry, Id
<1>5. [s.entries EXCEPT ![1].active_index = Inactive(@)]
        = [s.entries EXCEPT ![1] = e]
    BY <1>1, <1>2, LenProperties
<1>6. /\ [s.entries EXCEPT ![1] = e] \in Seq(Entry)
      /\ Len([s.entries EXCEPT ![1] = e]) = Len(s.entries)
    BY <1>1, <1>2, <1>4, ExceptSeq
<1>7. [s.entries EXCEPT ![1] = e] # <<>>
    BY <1>6, <1>2, EmptySeq
<1>8. QED
    BY <1>1, <1>5, <1>6, <1>7, NextAgeType DEF WithFlip, Stuff

(* The chosen table is a valid one, whenever there is one.                  *)
LEMMA ActiveIdValid ==
    ASSUME NEW f, HasActive(f)
    PROVE  ActiveId(f) \in Id /\ pt_table_valid(f[ActiveId(f)])
BY DEF HasActive, ActiveId, Id

-----------------------------------------------------------------------------
(* Writing a table takes a whole number of pages, at least one.             *)
LEMMA PagesNat == \A n \in Nat : PagesOf(CrcOffset(n) + 4) \in Nat \ {0}
<1> TAKE n \in Nat
<1> DEFINE b == CrcOffset(n) + 4
<1>1. b \in Nat \ {0}
    BY DEF CrcOffset, HeaderSize, EntrySize
<1>2. (b + PageSize - 1) \div PageSize \in Nat \ {0}
    <2> HIDE DEF b
    <2> QED
        BY <1>1, PartitionTableAssumption
<1>3. QED
    BY <1>2 DEF PagesOf

LEMMA StuffPagesNat == PagesOf(StuffSize) \in Nat \ {0}
BY PagesNat, PartitionTableAssumption DEF StuffSize

(* What is in the sector after k pages is a table or nothing.               *)
LEMMA ProgrammedType ==
    ASSUME image \in Stuff \cup {Bad}, NEW k
    PROVE  Programmed(k) \in Stuff \cup {Bad}
BY DEF Programmed

(* A restart leaves well-typed variables, whatever is in flash.             *)
LEMMA RestartType ==
    ASSUME Restart, flash' \in [Id -> Stuff \cup {Bad}]
    PROVE  TypeOK'
BY StuffPagesNat, PartitionTableAssumption DEF Restart, TypeOK, Id

(* Every variable keeps its type: rewriting and flipping entries, whatever  *)
(* is in flash, never leaves the entry and table formats.                   *)
THEOREM TypeCorrect == Spec => []TypeOK
<1>1. Init => TypeOK
    BY PartitionTableAssumption, StuffPagesNat DEF Init, TypeOK, Id
<1>2. TypeOK /\ [Next]_vars => TypeOK'
    <2> SUFFICES ASSUME TypeOK, [Next]_vars
                 PROVE  TypeOK'
        OBVIOUS
    <2> USE DEF vars, callers, write
    <2>1. CASE GetActivePartition
        <3>2. CASE HasActive(flash)
            <4>1. /\ ActiveId(flash) \in Id
                  /\ pt_table_valid(flash[ActiveId(flash)])
                BY <3>2, ActiveIdValid
            <4>2. ActiveId(flash) # Bad /\ ActiveStuff(flash) \in Stuff
                BY <4>1, <3>2, PartitionTableAssumption
                   DEF ActiveStuff, pt_table_valid, TypeOK
            <4>3. QED
                BY <2>1, <4>1, <4>2, <3>2, PartitionTableAssumption
                   DEF GetActivePartition, TypeOK
        <3>3. CASE ~HasActive(flash)
            <4>1. ActiveId(flash) = Bad /\ ActiveStuff(flash) = Bad
                BY <3>3 DEF HasActive, ActiveId, ActiveStuff, Id
            <4>2. QED
                BY <2>1, <4>1, <3>3, PartitionTableAssumption
                   DEF GetActivePartition, TypeOK
        <3>4. QED
            BY <3>2, <3>3
    <2>2. ASSUME NEW e \in Entry, UpdateEntry(e)
          PROVE  TypeOK'
        <3>1. pt_stuff \in Stuff
            BY <2>2 DEF UpdateEntry, TypeOK
        <3>2. UpdateTarget(active_id) \in Id
            BY <2>2 DEF UpdateEntry, UpdateTarget, Other, TypeOK, Id
        <3>3. WithEntry(pt_stuff, e) \in Stuff
            BY <3>1, WithEntryType
        <3>4. QED
            BY <2>2, <3>1, <3>2, <3>3, StuffPagesNat, PartitionTableAssumption
               DEF UpdateEntry, TypeOK
    <2>3. CASE GetIapPara
        <3> DEFINE s == ActiveStuff(flash)
        <3>1. s \in Stuff
            BY <2>3, ActiveIdValid
               DEF GetIapPara, ActiveStuff, TypeOK, pt_table_valid
        <3>2. s.entries \in Seq(Entry) /\ s.entries # <<>>
            BY <3>1 DEF Stuff
        <3>3. s.entries[1] \in Entry
            BY <3>2, EmptySeq, ElementOfSeq
        <3>4. Inactive(s.entries[1].active_index) \in Id
            BY <3>3, InactiveType DEF Entry
        <3>5. IapTarget(ActiveId(flash)) \in Id
            BY <2>3, ActiveIdValid DEF GetIapPara, IapTarget, Other, Id
        <3>6. QED
            BY <2>3, <3>4, <3>5 DEF GetIapPara, TypeOK, IapPara
    <2>4. CASE SessionEnds
        BY <2>4 DEF SessionEnds, TypeOK
    <2>5. CASE SetIapPara
        <3> DEFINE s == flash[Other(para.inactive_table_index)]
        <3>1. para.inactive_table_index \in Id
            BY <2>5 DEF SetIapPara, TypeOK, IapPara
        <3>2. s \in Stuff \cup {Bad}
            BY <3>1 DEF TypeOK, Other, Id
        <3>3. image' \in Stuff \cup {Bad}
            BY <2>5, <3>2, WithFlipType DEF SetIapPara
        <3>4. QED
            BY <2>5, <3>1, <3>3, StuffPagesNat DEF SetIapPara, TypeOK
    <2>6. CASE EraseSector
        BY <2>6 DEF EraseSector, TypeOK
    <2>7. CASE EraseFails
        BY <2>7 DEF EraseFails, Return, TypeOK
    <2>8. CASE ProgramPage
        <3>1. Programmed(pages + 1) \in Stuff \cup {Bad}
            BY ProgrammedType DEF TypeOK
        <3>2. pages + 1 \in 0 .. PagesOf(StuffSize)
            BY <2>8, StuffPagesNat DEF ProgramPage, TypeOK
        <3>3. QED
            BY <2>8, <3>1, <3>2 DEF ProgramPage, Return, TypeOK
    <2>9. CASE ProgramFails
        <3>1. \A k : Programmed(k) \in Stuff \cup {Bad}
            BY ProgrammedType DEF TypeOK
        <3>2. QED
            BY <2>9, <3>1 DEF ProgramFails, Return, TypeOK
    <2>10. CASE SystemReset
        BY <2>10, RestartType DEF SystemReset, TypeOK
    <2>11. CASE PowerFails
        <3>1. \A k : Programmed(k) \in Stuff \cup {Bad}
            BY ProgrammedType DEF TypeOK
        <3>2. flash' \in [Id -> Stuff \cup {Bad}]
            BY <2>11, <3>1 DEF PowerFails, TypeOK
        <3>3. Restart
            BY <2>11 DEF PowerFails
        <3>4. QED
            BY <3>2, <3>3, RestartType
    <2>12. CASE UNCHANGED vars
        BY <2>12 DEF TypeOK
    <2>13. QED
        BY <2>1, <2>2, <2>3, <2>4, <2>5, <2>6, <2>7, <2>8, <2>9, <2>10,
           <2>11, <2>12 DEF Next
<1>3. QED
    BY <1>1, <1>2, PTL DEF Spec

-----------------------------------------------------------------------------
(***************************************************************************)
(* Whatever has been written, and whatever failed, a handle that can still *)
(* be used leads to a valid table in the sector that is not being written. *)
(***************************************************************************)
Handles == HandlesValid /\ TargetIsSpare /\ ResetOnlyAfterIap

(* One flash operation of a write touches only the spare sector, so the    *)
(* table its handle leads to survives it.                                  *)
LEMMA SpareOnly ==
    ASSUME TypeOK, Handles, pc # "idle", NEW c,
           flash' = [flash EXCEPT ![target] = c]
    PROVE  /\ para = Bad => pt_table_valid(flash'[active_id])
           /\ para # Bad => pt_table_valid(flash'[Other(para.inactive_table_index)])
           /\ HasActive(flash')
<1>1. CASE para = Bad
    <2>1. active_id \in Id /\ target = Other(active_id)
        BY <1>1 DEF Handles, TargetIsSpare, TypeOK
    <2>2. pt_table_valid(flash[active_id])
        BY <1>1, <2>1, PartitionTableAssumption
           DEF Handles, HandlesValid, Flipping
    <2>3. flash'[active_id] = flash[active_id]
        BY <2>1 DEF TypeOK, Other, Id
    <2>4. QED
        BY <1>1, <2>1, <2>2, <2>3 DEF HasActive
<1>2. CASE para # Bad
    <2> DEFINE i == para.inactive_table_index
    <2>1. i \in Id /\ target = i
        BY <1>2 DEF Handles, TargetIsSpare, TypeOK, IapPara
    <2>2. pt_table_valid(flash[Other(i)])
        BY <1>2 DEF Handles, HandlesValid
    <2>3. Other(i) \in Id /\ flash'[Other(i)] = flash[Other(i)]
        BY <2>1 DEF TypeOK, Other, Id
    <2>4. QED
        BY <1>2, <2>2, <2>3 DEF HasActive
<1>3. QED
    BY <1>1, <1>2

LEMMA RestartHandles ==
    ASSUME Restart
    PROVE  Handles'
BY DEF Restart, Handles, HandlesValid, TargetIsSpare, ResetOnlyAfterIap

(* A write in progress goes on, or returns to its caller.                  *)
LEMMA WriteKeepsHandles ==
    ASSUME TypeOK, Handles, pc # "idle", NEW c,
           flash' = [flash EXCEPT ![target] = c],
           UNCHANGED <<callers, target>>,
           \/ pc' \in {"erase", "program"}
           \/ pc' = IF para = Bad THEN "idle" ELSE "reset"
    PROVE  Handles'
<1> USE DEF callers
<1>1. /\ para = Bad => pt_table_valid(flash'[active_id])
      /\ para # Bad => pt_table_valid(flash'[Other(para.inactive_table_index)])
    BY SpareOnly
<1>2. HandlesValid'
    BY <1>1 DEF HandlesValid, Flipping
<1>3. TargetIsSpare'
    BY DEF Handles, TargetIsSpare
<1>4. ResetOnlyAfterIap'
    BY DEF ResetOnlyAfterIap
<1>5. QED
    BY <1>2, <1>3, <1>4 DEF Handles

LEMMA HandleStep == TypeOK /\ Handles /\ [Next]_vars => Handles'
<1> SUFFICES ASSUME TypeOK, Handles, [Next]_vars
             PROVE  Handles'
    OBVIOUS
<1> USE DEF vars, callers, write, Flipping
<1>1. CASE GetActivePartition
    <2>1. active_id' # Bad => pt_table_valid(flash'[active_id'])
        <3>1. CASE HasActive(flash)
            BY <3>1, <1>1, ActiveIdValid DEF GetActivePartition
        <3>2. CASE ~HasActive(flash)
            BY <3>2, <1>1 DEF GetActivePartition, HasActive, ActiveId, Id
        <3>3. QED
            BY <3>1, <3>2
    <2>2. QED
        BY <2>1, <1>1 DEF GetActivePartition, Handles, HandlesValid,
                          TargetIsSpare, ResetOnlyAfterIap
<1>2. ASSUME NEW e \in Entry, UpdateEntry(e)
      PROVE  Handles'
    BY <1>2 DEF UpdateEntry, UpdateTarget, Handles, HandlesValid,
                TargetIsSpare, ResetOnlyAfterIap
<1>3. CASE GetIapPara
    <2>1. ActiveId(flash) \in Id /\ pt_table_valid(flash[ActiveId(flash)])
        BY <1>3, ActiveIdValid DEF GetIapPara
    <2>2. Other(IapTarget(ActiveId(flash))) = ActiveId(flash)
        BY <2>1 DEF IapTarget, Other, Id
    <2>3. pt_table_valid(flash'[Other(para'.inactive_table_index)])
        BY <1>3, <2>1, <2>2 DEF GetIapPara
    <2>4. QED
        BY <1>3, <2>3 DEF GetIapPara, Handles, HandlesValid,
                          TargetIsSpare, ResetOnlyAfterIap
<1>4. CASE SessionEnds
    BY <1>4 DEF SessionEnds, Handles, HandlesValid, TargetIsSpare,
                ResetOnlyAfterIap
<1>5. CASE SetIapPara
    BY <1>5 DEF SetIapPara, Handles, HandlesValid, TargetIsSpare,
                ResetOnlyAfterIap
<1>6. CASE EraseSector
    BY <1>6, WriteKeepsHandles DEF EraseSector
<1>7. CASE EraseFails
    BY <1>7, WriteKeepsHandles DEF EraseFails, Return
<1>8. CASE ProgramPage
    BY <1>8, WriteKeepsHandles DEF ProgramPage, Return
<1>9. CASE ProgramFails
    BY <1>9, WriteKeepsHandles DEF ProgramFails, Return
<1>10. CASE SystemReset
    BY <1>10, RestartHandles DEF SystemReset
<1>11. CASE PowerFails
    BY <1>11, RestartHandles DEF PowerFails
<1>12. CASE UNCHANGED vars
    BY <1>12 DEF Handles, HandlesValid, TargetIsSpare, ResetOnlyAfterIap
<1>13. QED
    BY <1>1, <1>2, <1>3, <1>4, <1>5, <1>6, <1>7, <1>8, <1>9, <1>10,
       <1>11, <1>12 DEF Next

LEMMA HandlesAlways == Spec => []Handles
<1>1. Init => Handles
    BY DEF Init, Handles, HandlesValid, TargetIsSpare, ResetOnlyAfterIap
<1>2. QED
    BY <1>1, HandleStep, TypeCorrect, PTL DEF Spec

(* A handle that can still be used leads to a valid table, and only the    *)
(* other sector is ever being written, whatever the flash operations and   *)
(* the callers do.                                                         *)
THEOREM HandlesCorrect == Spec => []HandleInv
<1>1. TypeOK /\ Handles => HandleInv
    BY DEF Handles, HandleInv
<1>2. QED
    BY <1>1, TypeCorrect, HandlesAlways, PTL

LEMMA NeverBrickedStep ==
    TypeOK /\ Handles /\ [Next]_vars => [HasActive(flash) => HasActive(flash')]_vars
<1> SUFFICES ASSUME TypeOK, Handles, Next, HasActive(flash)
             PROVE  HasActive(flash')
    BY DEF vars
<1>1. CASE flash' = flash
    BY <1>1
<1>2. CASE \E c : flash' = [flash EXCEPT ![target] = c] /\ pc # "idle"
    BY <1>2, SpareOnly
<1>3. QED
    BY <1>1, <1>2 DEF Next, GetActivePartition, UpdateEntry, GetIapPara,
        SessionEnds, SetIapPara, EraseSector, EraseFails, ProgramPage,
        ProgramFails, SystemReset, PowerFails

(* However often the device is updated, whatever fails and whenever the    *)
(* power goes, a device with a valid partition table keeps one.            *)
THEOREM NeverBrickedCorrect == Spec => NeverBricked
BY NeverBrickedStep, TypeCorrect, HandlesAlways, PTL DEF Spec, NeverBricked

-----------------------------------------------------------------------------
(* PartitionTable implements AtomicTable when main_task reads the tables    *)
(* before each rewrite, as the shipped build does.                          *)
(* What CommitInv needs besides: a rewrite begins with nothing programmed   *)
(* and has returned nothing while it goes on.                               *)
Underway ==
    /\ Writing => result = "none"
    /\ pc = "erase" => pages = 0

IInv == TypeOK /\ Handles /\ CommitInv /\ Underway

-----------------------------------------------------------------------------
(* A rewritten table has room for its entries, as the table it comes from.  *)
LEMMA WithEntryValid ==
    ASSUME NEW s \in Stuff, pt_table_valid(s), NEW e \in Entry,
           EntryPos(s, e.type) # 0 \/ Len(s.entries) < PT_ENTRY_MAX
    PROVE  pt_table_valid(WithEntry(s, e)) /\ WithEntry(s, e).age = NextAge(s.age)
<1> DEFINE p == EntryPos(s, e.type)
           t == WithEntry(s, e)
<1>1. s.entries \in Seq(Entry) /\ Len(s.entries) \in Nat /\ Len(s.entries) <= PT_ENTRY_MAX
  BY LenProperties DEF Stuff, pt_table_valid
<1>2. t # Bad
  BY WithEntryType, PartitionTableAssumption
<1>3. CASE p # 0
  <2>1. p \in 1 .. Len(s.entries)
    BY <1>1, <1>3, EntryPosFinds
  <2>2. Len([s.entries EXCEPT ![p] = e]) = Len(s.entries)
    BY <1>1, <2>1, ExceptSeq
  <2> QED BY <1>1, <1>2, <1>3, <2>2 DEF WithEntry, pt_table_valid
<1>4. CASE p = 0
  <2>1. Len(Append(s.entries, e)) = Len(s.entries) + 1
    BY <1>1, AppendProperties
  <2> QED BY <1>1, <1>2, <1>4, <2>1, PartitionTableAssumption DEF WithEntry, pt_table_valid
<1> QED BY <1>3, <1>4

LEMMA WithFlipValid ==
    ASSUME NEW s \in Stuff, pt_table_valid(s)
    PROVE  pt_table_valid(WithFlip(s)) /\ WithFlip(s).age = NextAge(s.age)
<1>1. s.entries \in Seq(Entry) /\ Len(s.entries) \in Nat /\ Len(s.entries) <= PT_ENTRY_MAX
  BY LenProperties DEF Stuff, pt_table_valid
<1>2. WithFlip(s) # Bad
  BY WithFlipType, PartitionTableAssumption
<1>3. Len([s.entries EXCEPT ![1].active_index = Inactive(@)]) = Len(s.entries)
  BY <1>1
<1> QED BY <1>1, <1>2, <1>3 DEF WithFlip, pt_table_valid

(* The last page of the structure lies at or behind the one that completes  *)
(* the CRC word, and the first page is not it.                              *)
LEMMA DivMonotone ==
    ASSUME NEW a \in Nat, NEW b \in Nat, a <= b
    PROVE  a \div PageSize <= b \div PageSize
<1> DEFINE P == PageSize
           m == a \div P
           n == b \div P
<1>1. P \in Nat /\ P > 0
  BY PartitionTableAssumption
<1>2. m \in Nat /\ n \in Nat
  BY <1>1
<1>3. a >= P * m /\ b < P * n + P
  BY <1>1, <1>2
<1> QED BY <1>1, <1>2, <1>3

LEMMA CommitsLast ==
    ASSUME pt_table_valid(image), image \in Stuff
    PROVE  Commits(PagesOf(StuffSize)) /\ ~Commits(0)
<1> DEFINE n == Len(image.entries)
<1>1. n \in Nat /\ n <= PT_ENTRY_MAX /\ PT_ENTRY_MAX \in Nat
  BY LenProperties, PartitionTableAssumption DEF Stuff, pt_table_valid
<1>2. PagesOf(CrcOffset(n) + 4) \in Nat \ {0}
  BY <1>1, PagesNat
<1>3. PagesOf(CrcOffset(n) + 4) <= PagesOf(StuffSize)
  <2> DEFINE a == CrcOffset(n) + 4 + PageSize - 1
             b == StuffSize + PageSize - 1
  <2>1. a \in Nat /\ b \in Nat /\ a <= b
    BY <1>1, PartitionTableAssumption DEF StuffSize, CrcOffset, HeaderSize, EntrySize
  <2>2. a \div PageSize <= b \div PageSize
    BY <2>1, DivMonotone
  <2> QED BY <2>2 DEF PagesOf
<1> QED BY <1>2, <1>3, PartitionTableAssumption DEF Commits, pt_table_valid

-----------------------------------------------------------------------------
(* Which table is active when one sector is rewritten.                      *)
LEMMA ActiveIsOther ==
    ASSUME NEW f, NEW i \in Id, pt_table_valid(f[Other(i)]), ~pt_table_valid(f[i])
    PROVE  HasActive(f) /\ ActiveId(f) = Other(i) /\ ActiveStuff(f) = f[Other(i)]
<1>1. CASE i = 0
  BY <1>1 DEF HasActive, ActiveId, ActiveStuff, Other, Id
<1>2. CASE i = 1
  BY <1>2 DEF HasActive, ActiveId, ActiveStuff, Other, Id
<1> QED BY <1>1, <1>2 DEF Id

LEMMA ActiveIsOne ==
    ASSUME NEW f, NEW i \in Id, pt_table_valid(f[Other(i)])
    PROVE  HasActive(f) /\ ActiveStuff(f) \in {f[i], f[Other(i)]}
BY DEF HasActive, ActiveId, ActiveStuff, Other, Id

LEMMA ActiveIsNewer ==
    ASSUME NEW f, NEW i \in Id, pt_table_valid(f[i]), pt_table_valid(f[Other(i)]),
           f[i] \in Stuff, f[Other(i)] \in Stuff,
           f[i].age = NextAge(f[Other(i)].age), f[i].age # 0
    PROVE  ActiveStuff(f) = f[i]
<1>1. f[i].age \in Ages /\ f[Other(i)].age \in Ages
  BY DEF Stuff
<1>2. f[i].age > f[Other(i)].age /\ f[i].age \in Nat /\ f[Other(i)].age \in Nat
  <2>1. f[Other(i)].age + 1 < AgeMod => f[i].age = f[Other(i)].age + 1
    BY <1>1, PartitionTableAssumption DEF Ages, NextAge
  <2>2. f[Other(i)].age + 1 = AgeMod => f[i].age = 0
    BY <1>1, PartitionTableAssumption DEF Ages, NextAge
  <2> QED BY <1>1, <2>1, <2>2, PartitionTableAssumption DEF Ages
<1> QED BY <1>2 DEF HasActive, ActiveId, ActiveStuff, Other, Id

LEMMA BadInvalid == ~pt_table_valid(Bad)
BY DEF pt_table_valid

LEMMA OtherOther == \A i \in Id : Other(i) \in Id /\ Other(i) # i /\ Other(Other(i)) = i
BY DEF Other, Id

-----------------------------------------------------------------------------
LEMMA CommitInit == Init => CommitInv /\ Underway
BY PartitionTableAssumption
   DEF Init, CommitInv, FreshHandles, ImageFromSource, SpareContents, OkIsActive,
       Underway, Writing, Unused

LEMMA RestartCommit == Restart => (CommitInv /\ Underway)'
BY PartitionTableAssumption
   DEF Restart, CommitInv, FreshHandles, ImageFromSource, SpareContents, OkIsActive,
       Underway, Writing, Unused

(* The callers: nothing in flash changes, and a rewrite begins with the     *)
(* active table.                                                            *)
LEMMA GetActiveCommit ==
    ASSUME IInv, GetActivePartition PROVE (CommitInv /\ Underway)'
<1>1. active_id' # Bad => active_id' = ActiveId(flash) /\ pt_stuff' = flash[active_id']
  BY DEF GetActivePartition, HasActive, ActiveId, ActiveStuff, Id
<1>2. FreshHandles'
  BY <1>1 DEF GetActivePartition, FreshHandles, Unused, Writing, write
<1> QED BY <1>2 DEF GetActivePartition, IInv, CommitInv, ImageFromSource, SpareContents,
       OkIsActive, Underway, Writing, Source, write

LEMMA UpdateCommit ==
    ASSUME UpdatesPerRead = 1, IInv, NEW e \in Entry, UpdateEntry(e)
    PROVE  (CommitInv /\ Underway)'
<1>1. pc = "idle" /\ para = Bad /\ active_id # Bad /\ updates = 1 /\ updates' = 0
      /\ flash' = flash /\ active_id' = active_id /\ para' = para
  BY DEF UpdateEntry, IInv, TypeOK
<1>2. active_id = ActiveId(flash) /\ pt_stuff = flash[active_id]
  BY <1>1 DEF IInv, CommitInv, FreshHandles, Unused, Flipping
<1>3. active_id \in Id /\ pt_stuff \in Stuff /\ pt_table_valid(pt_stuff)
  BY <1>1, <1>2 DEF IInv, TypeOK, Handles, HandlesValid, Flipping
<1>4. FreshHandles'
  BY <1>1 DEF FreshHandles, Unused
<1>5. CASE EntryPos(pt_stuff, e.type) = 0 /\ Len(pt_stuff.entries) >= PT_ENTRY_MAX
  <2>1. result' = "fail" /\ pc' = "idle"
    BY <1>1, <1>5 DEF UpdateEntry, write
  <2> QED BY <1>4, <2>1 DEF CommitInv, ImageFromSource, SpareContents, OkIsActive,
         Underway, Writing
<1>6. CASE ~(EntryPos(pt_stuff, e.type) = 0 /\ Len(pt_stuff.entries) >= PT_ENTRY_MAX)
  <2>1. /\ image' = WithEntry(pt_stuff, e) /\ target' = Other(active_id)
        /\ pc' = "erase" /\ pages' = 0 /\ result' = "none"
    BY <1>6 DEF UpdateEntry, UpdateTarget
  <2>2. EntryPos(pt_stuff, e.type) # 0 \/ Len(pt_stuff.entries) < PT_ENTRY_MAX
    BY <1>3, <1>6, LenProperties, PartitionTableAssumption DEF Stuff
  <2>3. pt_table_valid(image')
    BY <1>3, <2>1, <2>2, WithEntryValid
  <2>4. Source' = pt_stuff /\ ActiveId(flash') = Other(target')
    BY <1>1, <1>2, <1>3, <2>1, OtherOther DEF Source
  <2> QED BY <1>1, <1>3, <1>4, <2>1, <2>3, <2>4
        DEF CommitInv, ImageFromSource, SpareContents, OkIsActive, Underway, Writing
<1> QED BY <1>5, <1>6

LEMMA SessionCommit ==
    ASSUME IInv, GetIapPara \/ SessionEnds PROVE (CommitInv /\ Underway)'
<1>1. pc = "idle" /\ pc' = "idle" /\ flash' = flash /\ result' = result
      /\ target' = target /\ image' = image /\ pages' = pages
      /\ active_id' = active_id /\ pt_stuff' = pt_stuff /\ updates' = updates
  BY DEF GetIapPara, SessionEnds, write
<1>2. para' # Bad => para'.inactive_table_index = Other(ActiveId(flash))
  BY DEF GetIapPara, SessionEnds, IapTarget
<1>3. FreshHandles'
  BY <1>1, <1>2 DEF IInv, CommitInv, FreshHandles, Unused, Flipping, Writing
<1> QED BY <1>1, <1>3 DEF IInv, CommitInv, ImageFromSource, SpareContents,
       OkIsActive, Underway, Writing, Source

LEMMA SetIapCommit ==
    ASSUME IInv, SetIapPara PROVE (CommitInv /\ Underway)'
<1> DEFINE i == para.inactive_table_index
           s == flash[Other(i)]
<1>1. /\ pc = "idle" /\ para # Bad /\ para' = para /\ flash' = flash
      /\ target' = i /\ pc' = "erase" /\ pages' = 0 /\ result' = "none"
      /\ image' = IF s = Bad THEN Bad ELSE WithFlip(s)
  BY DEF SetIapPara, callers
<1>2. i \in Id /\ pt_table_valid(s)
  BY <1>1 DEF IInv, TypeOK, IapPara, Handles, HandlesValid
<1>3. s \in Stuff /\ image' = WithFlip(s)
  BY <1>1, <1>2, OtherOther, BadInvalid DEF IInv, TypeOK
<1>4. pt_table_valid(image')
  BY <1>2, <1>3, WithFlipValid
<1>5. i = Other(ActiveId(flash)) /\ ActiveId(flash) \in Id
  <2>1. HasActive(flash)
    BY <1>2, OtherOther DEF HasActive
  <2> QED BY <1>1, <2>1, ActiveIdValid DEF IInv, CommitInv, FreshHandles
<1>6. ActiveId(flash') = Other(target') /\ Source' = s
  BY <1>1, <1>5, OtherOther DEF Source
<1>7. FreshHandles'
  BY <1>1 DEF FreshHandles, Flipping
<1> QED BY <1>1, <1>2, <1>3, <1>4, <1>6, <1>7
       DEF CommitInv, ImageFromSource, SpareContents, OkIsActive, Underway, Writing

(* A write that returns an error leaves nothing to be relied on.            *)
LEMMA FailCommit ==
    ASSUME IInv, EraseFails \/ ProgramFails PROVE (CommitInv /\ Underway)'
<1>1. /\ Writing /\ result' = "fail" /\ UNCHANGED callers
      /\ pc' = IF para = Bad THEN "idle" ELSE "reset"
  BY DEF EraseFails, ProgramFails, Return, Writing
<1>2. FreshHandles'
  BY <1>1 DEF IInv, CommitInv, FreshHandles, Unused, Flipping, callers, Writing
<1> QED BY <1>1, <1>2 DEF CommitInv, ImageFromSource, SpareContents, OkIsActive,
       Underway, Writing

LEMMA SourceKept ==
    ASSUME IInv, Writing, NEW c, flash' = [flash EXCEPT ![target] = c], target' = target
    PROVE  /\ target \in Id /\ flash'[target] = c /\ Source' = Source
           /\ Source \in Stuff /\ pt_table_valid(Source)
           /\ image \in Stuff /\ pt_table_valid(image)
           /\ image.age = NextAge(Source.age)
<1>1. target \in Id /\ flash'[target] = c /\ Source' = Source
  BY OtherOther DEF IInv, TypeOK, Source
<1>2. pt_table_valid(Source) /\ pt_table_valid(image)
  BY DEF IInv, CommitInv, ImageFromSource
<1>3. Source \in Stuff /\ image \in Stuff
  BY <1>1, <1>2, OtherOther, BadInvalid DEF IInv, TypeOK, Source
<1>4. image.age = NextAge(Source.age)
  BY <1>2, <1>3, WithFlipValid DEF IInv, CommitInv, ImageFromSource, WithEntry
<1> QED BY <1>1, <1>2, <1>3, <1>4

LEMMA EraseCommit ==
    ASSUME IInv, EraseSector PROVE (CommitInv /\ Underway)'
<1>1. /\ pc = "erase" /\ pc' = "program" /\ flash' = [flash EXCEPT ![target] = Bad]
      /\ UNCHANGED <<callers, target, image, pages, result>>
  BY DEF EraseSector
<1>2. /\ flash'[target] = Bad /\ Source' = Source /\ image \in Stuff /\ pt_table_valid(image)
  BY <1>1, SourceKept DEF Writing
<1>3. Programmed(pages)' = Bad
  BY <1>1, <1>2, CommitsLast DEF Programmed, Commits, IInv, Underway
<1>4. FreshHandles'
  BY <1>1 DEF IInv, CommitInv, FreshHandles, Unused, Flipping, callers, Writing
<1>5. ImageFromSource'
  BY <1>1, <1>2 DEF IInv, CommitInv, ImageFromSource, callers, Writing
<1> QED BY <1>1, <1>2, <1>3, <1>4, <1>5
       DEF IInv, CommitInv, SpareContents, OkIsActive, Underway, Writing

LEMMA ProgramCommit ==
    ASSUME IInv, ProgramPage PROVE (CommitInv /\ Underway)'
<1>1. /\ pc = "program" /\ pages' = pages + 1
      /\ flash' = [flash EXCEPT ![target] = Programmed(pages + 1)]
      /\ UNCHANGED <<callers, target, image>>
      /\ IF pages + 1 = PagesOf(StuffSize)
         THEN result' = "ok" /\ pc' = IF para = Bad THEN "idle" ELSE "reset"
         ELSE pc' = pc /\ result' = result
  BY DEF ProgramPage, Return
<1>2. /\ target \in Id /\ flash'[target] = Programmed(pages + 1) /\ Source' = Source
      /\ Source \in Stuff /\ pt_table_valid(Source) /\ image \in Stuff /\ pt_table_valid(image)
      /\ image.age = NextAge(Source.age)
  BY <1>1, SourceKept DEF Writing
<1>3. FreshHandles'
  BY <1>1 DEF IInv, CommitInv, FreshHandles, Unused, Flipping, callers, Writing
<1>4. ImageFromSource'
  BY <1>1, <1>2 DEF IInv, CommitInv, ImageFromSource, callers, Writing
<1>5. CASE pages + 1 = PagesOf(StuffSize)
  <2>1. flash'[target] = image
    BY <1>2, <1>5, CommitsLast DEF Programmed
  <2>2. image.age # 0 => ActiveStuff(flash') = image
    <3>1. flash'[Other(target)] = Source
      BY <1>1, <1>2 DEF Source
    <3> QED BY <1>2, <2>1, <3>1, ActiveIsNewer
  <2> QED BY <1>1, <1>2, <1>3, <1>4, <1>5, <2>1, <2>2
         DEF CommitInv, SpareContents, OkIsActive, Underway, Writing
<1>6. CASE pages + 1 # PagesOf(StuffSize)
  <2>1. Programmed(pages)' = Programmed(pages + 1)
    BY <1>1 DEF Programmed, Commits
  <2> QED BY <1>1, <1>2, <1>3, <1>4, <1>6, <2>1
         DEF IInv, CommitInv, SpareContents, OkIsActive, Underway, Writing
<1> QED BY <1>5, <1>6

LEMMA CommitStep ==
    ASSUME UpdatesPerRead = 1, IInv, [Next]_vars PROVE (CommitInv /\ Underway)'
<1>1. CASE UNCHANGED vars
  BY <1>1 DEF IInv, CommitInv, FreshHandles, ImageFromSource, SpareContents, OkIsActive,
      Underway, Writing, Source, Unused, Flipping, vars, callers, write, Programmed, Commits
<1>2. CASE SystemReset \/ PowerFails
  BY <1>2, RestartCommit DEF SystemReset, PowerFails
<1> QED BY <1>1, <1>2, GetActiveCommit, UpdateCommit, SessionCommit, SetIapCommit,
       FailCommit, EraseCommit, ProgramCommit DEF Next

(* A rewrite reported as done is the one the next boot reads, and until     *)
(* then the table it comes from stays active, if main_task reads the tables *)
(* before each rewrite (main.c:529).                                        *)
THEOREM CommitCorrect ==
    ASSUME UpdatesPerRead = 1 PROVE Spec => []CommitInv
<1>1. TypeOK /\ Handles /\ CommitInv /\ Underway /\ [Next]_vars => (CommitInv /\ Underway)'
  BY CommitStep DEF IInv
<1> QED BY <1>1, CommitInit, TypeCorrect, HandlesAlways, PTL DEF Spec

-----------------------------------------------------------------------------
(* The table a boot reads is the one the rewrite comes from, as long as the *)
(* other sector holds no valid table; and then one of the two.              *)
LEMMA EraseStutters ==
    ASSUME IInv, pc = "erase", NEW c \in {flash[target], Bad},
           flash' = [flash EXCEPT ![target] = c]
    PROVE  ActiveStuff(flash') = ActiveStuff(flash)
<1>1. target \in Id /\ pt_table_valid(flash[Other(target)])
      /\ ActiveId(flash) = Other(target)
  BY DEF IInv, TypeOK, CommitInv, ImageFromSource, SpareContents, Writing, Source
<1>2. ActiveStuff(flash) = flash[Other(target)]
  BY <1>1, OtherOther DEF ActiveStuff, HasActive
<1>3. /\ flash'[target] = c /\ flash'[Other(target)] = flash[Other(target)]
      /\ c = flash[target] => flash' = flash
  BY <1>1, OtherOther DEF IInv, TypeOK
<1>4. CASE c = Bad
  BY <1>1, <1>2, <1>3, <1>4, BadInvalid, ActiveIsOther
<1> QED BY <1>3, <1>4

LEMMA SourceRewritten ==
    ASSUME IInv, Writing
    PROVE  /\ Source # Bad /\ Source \in Stuff
           /\ \/ \E e \in Entry : image = WithEntry(Source, e)
              \/ image = WithFlip(Source)
<1>1. target \in Id
  BY DEF IInv, TypeOK
<1> QED BY <1>1, OtherOther, BadInvalid
       DEF IInv, TypeOK, CommitInv, ImageFromSource, Source

LEMMA RewriteOrFlip ==
    ASSUME NEW s \in Stuff, s # Bad, s = ActiveStuff(flash),
           \/ \E e \in Entry : ActiveStuff(flash') = WithEntry(s, e)
           \/ ActiveStuff(flash') = WithFlip(s)
    PROVE  Abstract!Next
<1>1. ASSUME NEW e \in Entry, ActiveStuff(flash') = WithEntry(s, e)
      PROVE  Abstract!Rewrite(e)
  <2> DEFINE p == EntryPos(s, e.type)
             t == ActiveStuff(flash')
  <2>1. /\ t.age = NextAge(s.age)
        /\ p # 0 => t.entries = [s.entries EXCEPT ![p] = e]
        /\ p = 0 => t.entries = Append(s.entries, e)
    BY <1>1 DEF WithEntry
  <2>2. p \in 0 .. Len(s.entries) /\ Len(s.entries) \in Nat
    BY EntryPosFinds, LenProperties DEF Stuff
  <2>3. CASE p # 0
    <3>1. p \in 1 .. Len(s.entries) /\ s.entries[p].type = e.type
      BY <2>2, <2>3, EntryPosFinds
    <3> QED BY <2>1, <2>3, <3>1 DEF Abstract!Rewrite, NextAge
  <2>4. CASE p = 0
    <3>1. \A q \in 1 .. Len(s.entries) : s.entries[q].type # e.type
      BY <2>4, EntryPosFinds
    <3> QED BY <2>1, <2>4, <3>1 DEF Abstract!Rewrite, NextAge
  <2> QED BY <2>3, <2>4
<1>2. CASE ActiveStuff(flash') = WithFlip(s)
  <2>1. /\ ActiveStuff(flash').age = NextAge(s.age)
        /\ ActiveStuff(flash').entries = [s.entries EXCEPT ![1].active_index = Inactive(@)]
    BY <1>2 DEF WithFlip
  <2> QED BY <2>1 DEF Abstract!Flip, Abstract!Next, NextAge, Inactive
<1>3. CASE \E e \in Entry : ActiveStuff(flash') = WithEntry(s, e)
  BY <1>1, <1>3 DEF Abstract!Next
<1> QED BY <1>2, <1>3

LEMMA ProgramStutters ==
    ASSUME IInv, pc = "program", NEW k \in {pages, pages + 1},
           flash' = [flash EXCEPT ![target] = Programmed(k)]
    PROVE  ActiveStuff(flash') = ActiveStuff(flash) \/ Abstract!Next
<1> DEFINE s == flash[Other(target)]
<1>1. target \in Id /\ pt_table_valid(s) /\ flash[target] = Programmed(pages)
  BY DEF IInv, TypeOK, CommitInv, ImageFromSource, SpareContents, Writing, Source
<1>2. flash'[target] = Programmed(k) /\ flash'[Other(target)] = s
  BY <1>1, OtherOther DEF IInv, TypeOK
<1>3. CASE flash[target] = Programmed(k)
  <2>1. flash' = flash
    BY <1>1, <1>3 DEF IInv, TypeOK
  <2> QED BY <2>1
<1>4. CASE flash[target] # Programmed(k)
  <2>1. ~Commits(pages) /\ flash[target] = Bad
    <3>1. Commits(pages) => Commits(k)
      <4>1. pages \in Nat
        BY StuffPagesNat DEF IInv, TypeOK
      <4>2. image # Bad => PagesOf(CrcOffset(Len(image.entries)) + 4) \in Nat
        BY PagesNat, LenProperties DEF IInv, TypeOK, Stuff
      <4>3. k \in Nat /\ pages <= k
        BY <4>1
      <4> QED BY <4>1, <4>2, <4>3 DEF Commits
    <3> QED BY <1>1, <1>4, <3>1 DEF Programmed
  <2>2. ActiveStuff(flash) = s
    BY <1>1, <2>1, BadInvalid, ActiveIsOther
  <2>3. flash'[target] = image
    BY <1>2, <1>4, <2>1 DEF Programmed
  <2>4. ActiveStuff(flash') \in {image, s}
    BY <1>1, <1>2, <2>3, ActiveIsOne
  <2>5. /\ s # Bad /\ s \in Stuff
        /\ \/ \E e \in Entry : image = WithEntry(s, e)
           \/ image = WithFlip(s)
    BY SourceRewritten DEF Source, Writing
  <2>6. CASE ActiveStuff(flash') = image
    <3> HIDE DEF s
    <3> QED BY <2>2, <2>5, <2>6, RewriteOrFlip
  <2> QED BY <2>2, <2>4, <2>6
<1> QED BY <1>3, <1>4

LEMMA AtomicStep ==
    ASSUME IInv, [Next]_vars PROVE [Abstract!Next]_(ActiveStuff(flash))
<1>1. CASE flash' = flash
  BY <1>1
<1>2. CASE pc = "erase" /\ \E c \in {flash[target], Bad} : flash' = [flash EXCEPT ![target] = c]
  BY <1>2, EraseStutters
<1>3. CASE pc = "program" /\ \E k \in {pages, pages + 1} :
                                flash' = [flash EXCEPT ![target] = Programmed(k)]
  BY <1>3, ProgramStutters
<1>4. CASE Next /\ flash' # flash
  BY <1>2, <1>3, <1>4 DEF Next, GetActivePartition, UpdateEntry, GetIapPara, SessionEnds,
     SetIapPara, EraseSector, EraseFails, ProgramPage, ProgramFails, SystemReset, PowerFails
<1> QED BY <1>1, <1>4 DEF vars

(* To a boot, each rewrite happens at once or not at all, whatever fails    *)
(* and whenever the power goes: the two tables implement a single one.      *)
THEOREM AtomicCorrect ==
    ASSUME UpdatesPerRead = 1 PROVE Spec => Atomic
<1>1. Init => Abstract!Init
  BY DEF Init, Abstract!Init
<1>2. TypeOK /\ Handles /\ CommitInv /\ Underway /\ [Next]_vars
        => /\ (CommitInv /\ Underway)'
           /\ [Abstract!Next]_(ActiveStuff(flash))
  BY CommitStep, AtomicStep DEF IInv
<1> QED BY <1>1, <1>2, CommitInit, TypeCorrect, HandlesAlways, PTL
        DEF Spec, Atomic, Abstract!Spec

-----------------------------------------------------------------------------
(* The entry that is booted by its type is the one that sessions flip by    *)
(* its position, if the tables the device starts with have it first, as the *)
(* shipped partition file does.                                             *)
FwFirst(s) == s = Bad \/ s.entries[1].type = FwCpu0

HeadInv ==
    /\ \A i \in Id : FwFirst(flash[i])
    /\ FwFirst(pt_stuff) /\ FwFirst(image)
    /\ para # Bad => para.inactive_index =
         IF pc = "idle"
         THEN Inactive(flash[Other(para.inactive_table_index)].entries[1].active_index)
         ELSE image.entries[1].active_index

LEMMA FirstEntry ==
    ASSUME NEW s \in Stuff
    PROVE  /\ s.entries \in Seq(Entry) /\ Len(s.entries) \in Nat
           /\ 1 \in 1 .. Len(s.entries) /\ s.entries[1] \in Entry
<1>1. s.entries \in Seq(Entry) /\ s.entries # <<>>
  BY DEF Stuff
<1>2. Len(s.entries) \in Nat /\ Len(s.entries) # 0
  BY <1>1, EmptySeq, LenProperties
<1> QED BY <1>1, <1>2, ElementOfSeq

LEMMA WithEntryFirst ==
    ASSUME NEW s \in Stuff, FwFirst(s), NEW e \in Entry
    PROVE  FwFirst(WithEntry(s, e))
<1> DEFINE p == EntryPos(s, e.type)
<1>1. s # Bad /\ s.entries[1].type = FwCpu0
  BY PartitionTableAssumption DEF FwFirst
<1>2. p \in 0 .. Len(s.entries) /\ (p # 0 => s.entries[p].type = e.type)
  BY EntryPosFinds
<1>3. CASE p # 0
  <2>1. p \in 1 .. Len(s.entries)
    BY <1>2, <1>3, FirstEntry
  <2>2. [s.entries EXCEPT ![p] = e][1] = IF p = 1 THEN e ELSE s.entries[1]
    BY <2>1, FirstEntry, LenProperties
  <2> QED BY <1>1, <1>2, <1>3, <2>2 DEF WithEntry, FwFirst
<1>4. CASE p = 0
  <2>1. Append(s.entries, e)[1] = s.entries[1]
    BY FirstEntry, AppendProperties
  <2> QED BY <1>1, <1>4, <2>1 DEF WithEntry, FwFirst
<1> QED BY <1>3, <1>4

LEMMA WithFlipFirst ==
    ASSUME NEW s \in Stuff, FwFirst(s)
    PROVE  /\ FwFirst(WithFlip(s))
           /\ WithFlip(s).entries[1].active_index = Inactive(s.entries[1].active_index)
<1>1. s # Bad /\ s.entries[1].type = FwCpu0
  BY PartitionTableAssumption DEF FwFirst
<1>2. [s.entries EXCEPT ![1].active_index = Inactive(@)][1]
        = [s.entries[1] EXCEPT !.active_index = Inactive(@)]
  BY FirstEntry, LenProperties
<1>3. s.entries[1] \in Entry
  BY FirstEntry
<1>4. /\ [s.entries[1] EXCEPT !.active_index = Inactive(@)].type = s.entries[1].type
      /\ [s.entries[1] EXCEPT !.active_index = Inactive(@)].active_index
           = Inactive(s.entries[1].active_index)
  BY <1>3 DEF Entry
<1> QED BY <1>1, <1>2, <1>4 DEF WithFlip, FwFirst

LEMMA HeadStep ==
    ASSUME IInv, HeadInv, [Next]_vars PROVE HeadInv'
<1> USE DEF vars, callers, write
<1>1. CASE GetActivePartition
  <2>1. FwFirst(ActiveStuff(flash))
    BY ActiveIdValid DEF HeadInv, ActiveStuff, FwFirst
  <2> QED BY <1>1, <2>1 DEF GetActivePartition, HeadInv
<1>2. ASSUME NEW e \in Entry, UpdateEntry(e) PROVE HeadInv'
  <2>1. pt_stuff \in Stuff
    BY <1>2 DEF UpdateEntry, IInv, TypeOK
  <2>2. FwFirst(WithEntry(pt_stuff, e))
    BY <2>1, WithEntryFirst DEF HeadInv
  <2> QED BY <1>2, <2>2 DEF UpdateEntry, HeadInv
<1>3. CASE GetIapPara
  <2>1. ActiveId(flash) \in Id /\ ActiveStuff(flash) = flash[ActiveId(flash)]
    BY <1>3, ActiveIdValid DEF GetIapPara, ActiveStuff
  <2>2. Other(IapTarget(ActiveId(flash))) = ActiveId(flash)
    BY <2>1, OtherOther DEF IapTarget
  <2>3. para'.inactive_index
          = Inactive(flash[Other(para'.inactive_table_index)].entries[1].active_index)
    BY <1>3, <2>1, <2>2 DEF GetIapPara
  <2> QED BY <1>3, <2>3 DEF GetIapPara, HeadInv
<1>4. CASE SessionEnds
  BY <1>4 DEF SessionEnds, HeadInv
<1>5. CASE SetIapPara
  <2> DEFINE s == flash[Other(para.inactive_table_index)]
  <2>1. para.inactive_table_index \in Id /\ pt_table_valid(s)
    BY <1>5 DEF SetIapPara, IInv, TypeOK, IapPara, Handles, HandlesValid
  <2>2. s \in Stuff /\ s # Bad /\ FwFirst(s)
    BY <2>1, OtherOther, BadInvalid DEF IInv, TypeOK, HeadInv
  <2>3. image' = WithFlip(s) /\ pc' = "erase" /\ para' = para /\ pc = "idle" /\ para # Bad
        /\ flash' = flash /\ pt_stuff' = pt_stuff
    BY <1>5, <2>2 DEF SetIapPara
  <2>4. FwFirst(image') /\ image'.entries[1].active_index = para.inactive_index
    BY <2>2, <2>3, WithFlipFirst DEF HeadInv
  <2> QED BY <2>3, <2>4 DEF HeadInv
<1>6. CASE EraseSector \/ EraseFails \/ ProgramPage \/ ProgramFails
  <2>1. PICK c \in {flash[target], Bad, image} : flash' = [flash EXCEPT ![target] = c]
    BY <1>6 DEF EraseSector, EraseFails, ProgramPage, ProgramFails, Programmed
  <2>2. FwFirst(c)
    BY DEF HeadInv, IInv, TypeOK, FwFirst
  <2>3. \A i \in Id : FwFirst(flash'[i])
    BY <2>1, <2>2 DEF HeadInv, IInv, TypeOK
  <2>4. /\ UNCHANGED <<pt_stuff, image, para>> /\ pc # "idle"
        /\ para # Bad => pc' # "idle"
    BY <1>6 DEF EraseSector, EraseFails, ProgramPage, ProgramFails, Return
  <2> QED BY <2>3, <2>4 DEF HeadInv
<1>7. CASE SystemReset \/ PowerFails
  <2>1. \A i \in Id : FwFirst(flash'[i])
    <3>1. CASE flash' = flash
      BY <3>1 DEF HeadInv
    <3>2. CASE \E c \in {flash[target], Bad, image} : flash' = [flash EXCEPT ![target] = c]
      BY <3>2 DEF HeadInv, IInv, TypeOK, FwFirst
    <3> QED BY <1>7, <3>1, <3>2 DEF SystemReset, PowerFails, Programmed
  <2> QED BY <1>7, <2>1 DEF SystemReset, PowerFails, Restart, HeadInv, FwFirst
<1>8. CASE UNCHANGED vars
  BY <1>8 DEF HeadInv
<1> QED BY <1>1, <1>2, <1>3, <1>4, <1>5, <1>6, <1>7, <1>8 DEF Next

LEMMA HeadFlip == IInv /\ HeadInv => FlipReachesBoot
<1> SUFFICES ASSUME IInv, HeadInv, pc = "reset", result = "ok", image.age # 0
             PROVE  LET s == ActiveStuff(flash)
                    IN  s.entries[EntryPos(s, FwCpu0)].active_index = para.inactive_index
  BY DEF FlipReachesBoot
<1>1. ActiveStuff(flash) = image /\ pt_table_valid(image) /\ image \in Stuff
  BY BadInvalid DEF IInv, TypeOK, CommitInv, OkIsActive, SpareContents
<1>2. image.entries[1].type = FwCpu0 /\ image.entries[1].active_index = para.inactive_index
  BY <1>1, BadInvalid DEF HeadInv, FwFirst, IInv, Handles, ResetOnlyAfterIap
<1>3. EntryPos(image, FwCpu0) = 1
  <2>1. /\ 1 \in Positions(image, FwCpu0)
        /\ \A j \in Positions(image, FwCpu0) : j \in Nat /\ 1 <= j
    BY <1>1, <1>2, FirstEntry DEF Positions
  <2> DEFINE least(i) == \A j \in Positions(image, FwCpu0) : i <= j
             x == CHOOSE i \in Positions(image, FwCpu0) : least(i)
  <2>2. x \in Positions(image, FwCpu0) /\ least(x)
    BY <2>1
  <2>3. x = 1
    BY <2>1, <2>2
  <2> QED BY <2>1, <2>3 DEF EntryPos
<1> QED BY <1>1, <1>2, <1>3

(* A session's reset command moves the entry that will be booted.           *)
THEOREM FlipCorrect ==
    ASSUME UpdatesPerRead = 1,
           \A f \in InitFlash : \A i \in Id : FwFirst(f[i])
    PROVE  Spec => []FlipReachesBoot
<1>1. Init => HeadInv
  BY DEF Init, HeadInv, FwFirst
<1>2. TypeOK /\ Handles /\ CommitInv /\ Underway /\ HeadInv /\ [Next]_vars
        => (CommitInv /\ Underway /\ HeadInv)'
  BY CommitStep, HeadStep DEF IInv
<1>3. TypeOK /\ Handles /\ CommitInv /\ Underway /\ HeadInv => FlipReachesBoot
  BY HeadFlip DEF IInv
<1> QED BY <1>1, <1>2, <1>3, CommitInit, TypeCorrect, HandlesAlways, PTL DEF Spec
=============================================================================
