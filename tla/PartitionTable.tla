---------------------------- MODULE PartitionTable ----------------------------
(***************************************************************************)
(* The pair of partition tables in flash, as partition.c reads and writes  *)
(* them for its two callers: main_task (main.c), which reads the active    *)
(* table and rewrites one entry, and the eflash loader, which at the start *)
(* of a session computes where the inactive image is and at its end flips  *)
(* entry 0 to it.  The two callers run in one task, so their calls never   *)
(* overlap; power may fail between, and inside, any two flash operations.  *)
(*                                                                         *)
(* Simplifications:                                                        *)
(*  - a table that pt_table_valid refuses is Bad, whatever its bytes are;  *)
(*    the two CRC words are assumed to catch every torn image;             *)
(*  - an entry keeps the fields some property tells apart; name, addresses *)
(*    and lengths travel with "rev", the revision of its other fields.     *)
(***************************************************************************)
EXTENDS Integers, Sequences

CONSTANTS
    Types,          \* pt_table_entry_type
    FwCpu0,         \* PT_ENTRY_FW_CPU0, the entry main_task boots
    Revs,           \* values of an entry's other fields
    PT_ENTRY_MAX,   \* entries a table has room for (16)
    AgeMod,         \* ages are counted modulo this (2^32)
    PageSize,       \* bytes the flash programs at once (256)
    UpdatesPerRead, \* entries main_task may rewrite on one read of the tables
    Bad,            \* a table that is not valid, or no handle
    InitFlash       \* pairs of tables a device may be started with

(***************************************************************************)
(* partition.h: a 16-byte header, PT_ENTRY_MAX entries of 36 bytes, and a  *)
(* CRC word that is stored right behind the last used entry.               *)
(***************************************************************************)
HeaderSize == 16
EntrySize  == 36
CrcOffset(n) == HeaderSize + EntrySize * n
StuffSize    == CrcOffset(PT_ENTRY_MAX) + 4
PagesOf(bytes) == (bytes + PageSize - 1) \div PageSize

Id     == {0, 1}
Ages   == 0 .. AgeMod - 1
Entry  == [type : Types, active_index : 0 .. 3, rev : Revs]
Stuff  == [age : Ages, entries : Seq(Entry) \ {<<>>}]
IapPara == [inactive_index : Id, inactive_table_index : Id]

ASSUME PartitionTableAssumption ==
    /\ FwCpu0 \in Types
    /\ PT_ENTRY_MAX \in Nat \ {0}
    /\ AgeMod \in Nat \ {0, 1}
    /\ PageSize \in Nat \ {0}
    /\ UpdatesPerRead \in Nat \ {0}
    /\ Bad \notin Stuff /\ Bad \notin Id /\ Bad \notin IapPara
    /\ InitFlash \subseteq [Id -> Stuff \cup {Bad}]

VARIABLES
    flash,     \* what each of the two sectors holds, a Stuff or Bad
    active_id, \* main_task's handle: the table it read as active, or Bad
    pt_stuff,  \* main_task's copy of that table
    updates,   \* rewrites still possible on that copy
    para,      \* p_iap_param of an open loader session, or Bad
    pc,        \* the running write: "idle", "erase", "program" or "reset"
    target,    \* the sector being rewritten
    image,     \* the table being written to it
    pages,     \* pages of it programmed so far
    result     \* what the last write returned: "none", "ok" or "fail"

callers == <<active_id, pt_stuff, updates, para>>
write   == <<pc, target, image, pages>>
vars    == <<flash, callers, write, result>>

Other(i) == 1 - i

-----------------------------------------------------------------------------
(***************************************************************************)
(* Reading.                                                                *)
(***************************************************************************)

(* pt_table_valid: magic, entryCnt <= PT_ENTRY_MAX, the two CRCs.          *)
pt_table_valid(s) == s # Bad /\ Len(s.entries) <= PT_ENTRY_MAX

(* The table both get_active_partition_need_lock and get_iap_para choose:  *)
(* of two valid ones the older loses, and table 0 wins a tie.              *)
ActiveId_KeepsOlder(f) ==
    IF pt_table_valid(f[0]) /\ pt_table_valid(f[1])
    THEN IF f[0].age <= f[1].age THEN 0 ELSE 1
    ELSE IF pt_table_valid(f[0]) THEN 0
    ELSE IF pt_table_valid(f[1]) THEN 1
    ELSE Bad

ActiveId(f) ==
    IF pt_table_valid(f[0]) /\ pt_table_valid(f[1])
    THEN IF f[0].age >= f[1].age THEN 0 ELSE 1
    ELSE IF pt_table_valid(f[0]) THEN 0
    ELSE IF pt_table_valid(f[1]) THEN 1
    ELSE Bad

HasActive(f)   == \E i \in Id : pt_table_valid(f[i])
ActiveStuff(f) == IF HasActive(f) THEN f[ActiveId(f)] ELSE Bad

(* Position of the entry of a type in a table; 0 when it has none.         *)
(* pt_table_get_active_entries_by_id returns the first match.              *)
Positions(s, type) == {i \in 1 .. Len(s.entries) : s.entries[i].type = type}

EntryPos(s, type) ==
    IF Positions(s, type) = {} THEN 0
    ELSE CHOOSE i \in Positions(s, type) : \A j \in Positions(s, type) : i <= j

(* !(active_index & 1): the slot that is not running.                      *)
Inactive(active_index) == 1 - (active_index % 2)

NextAge_Kept(a) == a

NextAge(a) == (a + 1) % AgeMod

(* What pt_table_update_entry makes of a table in RAM: the entry of e's    *)
(* type is replaced, or e is appended, and the table ages by one.          *)
WithEntry(s, e) ==
    LET p == EntryPos(s, e.type)
    IN  [age |-> NextAge(s.age),
         entries |-> IF p # 0 THEN [s.entries EXCEPT ![p] = e]
                     ELSE Append(s.entries, e)]

(* What pt_table_set_iap_para makes of the table it re-reads: entry 0 is   *)
(* flipped, whatever its type, and the table ages by one.                  *)
WithFlip_OnlyAges(s) == [s EXCEPT !.age = NextAge(@)]

WithFlip(s) ==
    [age |-> NextAge(s.age),
     entries |-> [s.entries EXCEPT ![1].active_index = Inactive(@)]]

(* The table a rewrite goes to: for main_task !active_id, for the loader    *)
(* the one get_iap_para did not choose.                                     *)
UpdateTarget_Same(id) == id
UpdateTarget(id) == Other(id)

IapTarget_Same(id) == id
IapTarget(id) == Other(id)

-----------------------------------------------------------------------------
Init ==
    /\ flash \in InitFlash
    /\ active_id = Bad /\ pt_stuff = Bad /\ updates = 0
    /\ para = Bad
    /\ pc = "idle" /\ target = 0 /\ image = Bad /\ pages = 0
    /\ result = "none"

(* main_task reads both tables.  With no valid one blsp_boot2_on_error     *)
(* keeps offering the loader and the handle stays Bad.                     *)
GetActivePartition ==
    /\ pc = "idle" /\ para = Bad
    /\ active_id' = ActiveId(flash)
    /\ pt_stuff' = ActiveStuff(flash)
    /\ updates' = IF HasActive(flash) THEN UpdatesPerRead ELSE 0
    /\ UNCHANGED <<flash, para, write, result>>

(* pt_table_update_entry up to its first flash operation.  The copy in RAM *)
(* is changed whether or not the flash operations succeed; a full table    *)
(* without the entry is refused.                                           *)
UpdateEntry(e) ==
    /\ pc = "idle" /\ para = Bad
    /\ active_id # Bad /\ updates > 0
    /\ updates' = updates - 1
    /\ IF EntryPos(pt_stuff, e.type) = 0 /\ Len(pt_stuff.entries) >= PT_ENTRY_MAX
       THEN /\ result' = "fail"
            /\ UNCHANGED <<pt_stuff, write>>
       ELSE /\ pt_stuff' = WithEntry(pt_stuff, e)
            /\ image' = WithEntry(pt_stuff, e)
            /\ target' = UpdateTarget(active_id)
            /\ pc' = "erase" /\ pages' = 0 /\ result' = "none"
    /\ UNCHANGED <<flash, active_id, para>>

(* bflb_eflash_loader_main opens a session.  Without a valid table the     *)
(* loader returns at once.                                                 *)
GetIapPara ==
    /\ pc = "idle" /\ para = Bad
    /\ HasActive(flash)
    /\ para' = [inactive_index |->
                    Inactive(ActiveStuff(flash).entries[1].active_index),
                inactive_table_index |-> IapTarget(ActiveId(flash))]
    /\ UNCHANGED <<flash, active_id, pt_stuff, updates, write, result>>

(* The session ends without a reset: receive error, or too many commands   *)
(* failed.                                                                 *)
SessionEnds ==
    /\ pc = "idle" /\ para # Bad
    /\ para' = Bad
    /\ UNCHANGED <<flash, active_id, pt_stuff, updates, write, result>>

(* The reset command: pt_table_set_iap_para re-reads the table the session *)
(* did not choose as its target, without checking it again.                *)
SetIapPara ==
    /\ pc = "idle" /\ para # Bad
    /\ LET s == flash[Other(para.inactive_table_index)]
       IN  image' = IF s = Bad THEN Bad ELSE WithFlip(s)
    /\ target' = para.inactive_table_index
    /\ pc' = "erase" /\ pages' = 0 /\ result' = "none"
    /\ UNCHANGED <<flash, callers>>

-----------------------------------------------------------------------------
(***************************************************************************)
(* Writing: erase the sector, then program the whole structure page by     *)
(* page.  The table becomes valid with the page that completes its CRC     *)
(* word; the pages behind it hold nothing that is read.                    *)
(***************************************************************************)
Commits(k) == image # Bad /\ k >= PagesOf(CrcOffset(Len(image.entries)) + 4)

Programmed(k) == IF Commits(k) THEN image ELSE Bad

(* Whose write it is: a loader session is open only during its own.        *)
Return(r) ==
    /\ result' = r
    /\ pc' = IF para = Bad THEN "idle" ELSE "reset"

EraseSector ==
    /\ pc = "erase"
    /\ flash' = [flash EXCEPT ![target] = Bad]
    /\ pc' = "program"
    /\ UNCHANGED <<callers, target, image, pages, result>>

(* The busy flag never clears: the sector may or may not be erased.        *)
EraseFails ==
    /\ pc = "erase"
    /\ \E c \in {flash[target], Bad} : flash' = [flash EXCEPT ![target] = c]
    /\ Return("fail")
    /\ UNCHANGED <<callers, target, image, pages>>

ProgramPage ==
    /\ pc = "program" /\ pages < PagesOf(StuffSize)
    /\ pages' = pages + 1
    /\ flash' = [flash EXCEPT ![target] = Programmed(pages + 1)]
    /\ IF pages + 1 = PagesOf(StuffSize)
       THEN Return("ok")
       ELSE UNCHANGED <<pc, result>>
    /\ UNCHANGED <<callers, target, image>>

(* The busy flag never clears: the page may or may not be programmed.      *)
ProgramFails ==
    /\ pc = "program"
    /\ \E k \in {pages, pages + 1} :
            flash' = [flash EXCEPT ![target] = Programmed(k)]
    /\ Return("fail")
    /\ UNCHANGED <<callers, target, image, pages>>

-----------------------------------------------------------------------------
(* Everything in RAM is lost.  hal_boot2_sw_system_reset, which the reset  *)
(* command reaches whatever pt_table_set_iap_para returned, does the same. *)
Restart ==
    /\ active_id' = Bad /\ pt_stuff' = Bad /\ updates' = 0 /\ para' = Bad
    /\ pc' = "idle" /\ target' = 0 /\ image' = Bad /\ pages' = 0
    /\ result' = "none"

SystemReset ==
    /\ pc = "reset"
    /\ Restart
    /\ UNCHANGED flash

(* Power fails.  A sector in the middle of an erase or of a page is left   *)
(* as before, or as the operation would leave it, or torn.                 *)
PowerFails ==
    /\ \/ pc \in {"idle", "reset"} /\ UNCHANGED flash
       \/ /\ pc = "erase"
          /\ \E c \in {flash[target], Bad} : flash' = [flash EXCEPT ![target] = c]
       \/ /\ pc = "program"
          /\ \E k \in {pages, pages + 1} :
                flash' = [flash EXCEPT ![target] = Programmed(k)]
    /\ Restart

-----------------------------------------------------------------------------
Next ==
    \/ GetActivePartition
    \/ \E e \in Entry : UpdateEntry(e)
    \/ GetIapPara \/ SessionEnds \/ SetIapPara
    \/ EraseSector \/ EraseFails \/ ProgramPage \/ ProgramFails
    \/ SystemReset \/ PowerFails

Spec == Init /\ [][Next]_vars
=============================================================================
