------------------------- MODULE PartitionTableProps -------------------------
(* What a device relies on from its pair of partition tables.               *)
EXTENDS PartitionTable

(***************************************************************************)
(* Types of the variables; a table in flash, in RAM or on its way to flash *)
(* is a Stuff or Bad.                                                      *)
(***************************************************************************)
TypeOK ==
    /\ flash \in [Id -> Stuff \cup {Bad}]
    /\ active_id \in Id \cup {Bad}
    /\ pt_stuff \in IF active_id = Bad THEN {Bad} ELSE Stuff
    /\ updates \in 0 .. UpdatesPerRead
    /\ para \in IapPara \cup {Bad}
    /\ pc \in {"idle", "erase", "program", "reset"}
    /\ target \in Id
    /\ image \in Stuff \cup {Bad}
    /\ pages \in 0 .. PagesOf(StuffSize)
    /\ result \in {"none", "ok", "fail"}

(***************************************************************************)
(* The inductive invariant behind the safety properties: every handle that *)
(* can still be used, main_task's active_id and the loader's p_iap_param,  *)
(* leads to a valid table, and the sector being rewritten is the other     *)
(* one.  The loader may well rewrite the table main_task's handle leads to *)
(* (after an update that failed late), but then the device resets.         *)
(***************************************************************************)
Flipping == para # Bad /\ pc # "idle"

HandlesValid ==
    /\ active_id # Bad /\ ~Flipping => pt_table_valid(flash[active_id])
    /\ para # Bad => pt_table_valid(flash[Other(para.inactive_table_index)])

TargetIsSpare ==
    pc # "idle" =>
        /\ para # Bad => target = para.inactive_table_index
        /\ para = Bad => active_id # Bad /\ target = Other(active_id)

ResetOnlyAfterIap == pc = "reset" => para # Bad

HandleInv == TypeOK /\ HandlesValid /\ TargetIsSpare /\ ResetOnlyAfterIap

(***************************************************************************)
(* How a rewrite reaches the flash when main_task re-reads the tables      *)
(* before every rewrite (UpdatesPerRead = 1, the shipped build): it starts *)
(* from the active table, which stays active while the spare is erased,    *)
(* and the spare holds the new table from its committing page on.          *)
(***************************************************************************)
Writing == pc \in {"erase", "program"}

Source == flash[Other(target)]

Unused == active_id # Bad /\ updates = UpdatesPerRead

FreshHandles ==
    /\ Unused /\ ~Flipping =>
            active_id = ActiveId(flash) /\ pt_stuff = flash[active_id]
    /\ para # Bad /\ pc = "idle" =>
            para.inactive_table_index = Other(ActiveId(flash))
    /\ Writing /\ para = Bad => ~Unused

ImageFromSource ==
    Writing =>
        /\ pt_table_valid(Source) /\ pt_table_valid(image)
        /\ \/ para = Bad /\ \E e \in Entry : image = WithEntry(Source, e)
           \/ para # Bad /\ image = WithFlip(Source)

SpareContents ==
    /\ pc = "erase" => ActiveId(flash) = Other(target)
    /\ pc = "program" => flash[target] = Programmed(pages)
    /\ result = "ok" =>
            /\ flash[target] = image
            /\ pt_table_valid(Source) /\ pt_table_valid(image)
            /\ image.age = NextAge(Source.age)

(***************************************************************************)
(* A device that can boot never stops being able to: no step of a rewrite, *)
(* no flash error and no power failure leaves both tables invalid          *)
(* (pt_table_update_entry and pt_table_set_iap_para write the table that   *)
(* get_active_partition_need_lock did not choose).                         *)
(***************************************************************************)
NeverBricked == [][HasActive(flash) => HasActive(flash')]_vars

(***************************************************************************)
(* A rewrite reported as done is the table the next boot chooses, as long  *)
(* as the age did not wrap to 0 (pt_table->age++ in 32 bits, compared with *)
(* >= by get_active_partition_need_lock).                                  *)
(***************************************************************************)
OkIsActive ==
    result = "ok" /\ image.age # 0 => ActiveStuff(flash) = image

(* All of a rewrite, from the handles it begins with to the table the next  *)
(* boot reads.                                                              *)
CommitInv == FreshHandles /\ ImageFromSource /\ SpareContents /\ OkIsActive

(***************************************************************************)
(* After the loader's reset command the entry main_task will look up by    *)
(* type, PT_ENTRY_FW_CPU0, runs from the slot the session wrote, although  *)
(* get_iap_para and set_iap_para take entry 0 by its position.             *)
(***************************************************************************)
FlipReachesBoot ==
    pc = "reset" /\ result = "ok" /\ image.age # 0 =>
        LET s == ActiveStuff(flash)
        IN  s.entries[EntryPos(s, FwCpu0)].active_index = para.inactive_index

(***************************************************************************)
(* To a boot, a rewrite is atomic: the current table changes in one step,  *)
(* the one that programs the page completing its CRC word, to the table    *)
(* with exactly one entry changed, or never.                               *)
(***************************************************************************)
Abstract == INSTANCE AtomicTable WITH
    table <- ActiveStuff(flash),
    None <- Bad,
    InitTables <- {ActiveStuff(f) : f \in InitFlash}

Atomic == Abstract!Spec
=============================================================================
