----------------------------- MODULE EflashLoader -----------------------------
(***************************************************************************)
(* The loader and the part of main_task around it, whatever carries the    *)
(* commands: a session (bflb_eflash_loader_main) executes erase, write and *)
(* reset commands on the image slot, and the boot code offers sessions at  *)
(* three places: the start-up window, the moment between checking the      *)
(* image and jumping to it, and for ever once the image is bad.            *)
(*                                                                         *)
(* Simplifications:                                                        *)
(*  - the unit is the 4096-byte sector, which is also what the host sends  *)
(*    with one write; a firmware is a whole number of them;                *)
(*  - the partition table is valid and both addresses of its firmware      *)
(*    entry are the same slot, as in the partition file of this board;     *)
(*  - the flash runs with interrupts disabled, so nothing happens inside   *)
(*    an erase or a program operation (flash_erase, flash_write).          *)
(***************************************************************************)
EXTENDS Integers, Sequences

CONSTANTS
    Pages,      \* sectors of the new firmware
    SlotSectors \* sectors of the slot (size0 of the FW entry)

ASSUME LoaderAssumption ==
    /\ Pages \in Nat \ {0}
    /\ SlotSectors \in Nat /\ Pages <= SlotSectors

VARIABLES
    slot,           \* content of the slot's sectors and of the next one
    active_index,   \* which the reset command flips
    pc,             \* where main_task is
    back,           \* where it was when the session opened
    iap_write_addr, \* sector the next write command goes to
    err_cnt,        \* commands of the session that failed
    to_cnt          \* reads that returned nothing since the last command

loader == <<slot, active_index, pc, back, iap_write_addr, err_cnt, to_cnt>>

-----------------------------------------------------------------------------
(* Contents of a sector: page p of the firmware is p.                      *)
Old   == -2   \* what was there before
Mixed == -1   \* neither that nor a page
Blank == 0

Sectors == 0 .. SlotSectors  \* the last one is the first of the PSM partition
Content == Old .. Pages

(* What the boot accepts: the hash of the old image or of the new one.     *)
Whole(s)     == \A p \in 1 .. Pages : s[p - 1] = p
Untouched(s) == \A i \in 0 .. SlotSectors - 1 : s[i] = Old
Bootable(s)  == Whole(s) \/ Untouched(s)

(* The host asks for start .. start + size, both included: with the byte   *)
(* at start + size the erase takes one sector more than the pages.         *)
EraseLast_OneMore(n) == n + 1

EraseLast(n) == n

(* Sectors below k erased, k being the first the flash did not reach.      *)
ErasedBelow(s, k) == [i \in Sectors |-> IF i < k THEN Blank ELSE s[i]]

(* A sector that is not blank keeps its zeroes when programmed.            *)
Programmed(s, i, v) ==
    IF i \notin Sectors THEN s
    ELSE [s EXCEPT ![i] = IF @ = Blank THEN v ELSE Mixed]

Cmd(name, arg) == [cmd |-> name, arg |-> arg]
Commands ==
    {Cmd("erase", n) : n \in 0 .. Pages} \cup
    {Cmd("write", p) : p \in 1 .. Pages} \cup {Cmd("reset", 0)}

-----------------------------------------------------------------------------
LoaderInit ==
    /\ \E old \in {Old, Mixed} :
            slot = [i \in Sectors |-> IF i = SlotSectors THEN Old ELSE old]
    /\ active_index = 0
    /\ pc = "window" /\ back = "window"
    /\ iap_write_addr = 0 /\ err_cnt = 0 /\ to_cnt = 0

(* A poll for a handshake succeeds: bflb_eflash_loader_main, whose         *)
(* pt_table_get_iap_para puts the write address back to the start.         *)
OpenSession_KeepsAddr ==
    /\ pc \in {"window", "checked", "forever"}
    /\ pc' = "read" /\ back' = pc
    /\ err_cnt' = 0 /\ to_cnt' = 0
    /\ UNCHANGED <<slot, active_index, iap_write_addr>>

OpenSession ==
    /\ pc \in {"window", "checked", "forever"}
    /\ pc' = "read" /\ back' = pc
    /\ iap_write_addr' = 0 /\ err_cnt' = 0 /\ to_cnt' = 0
    /\ UNCHANGED <<slot, active_index>>

(* The session is over.  After the poll in blsp_mediaboot_main the next    *)
(* thing is the jump.                                                      *)
AfterSession_Jumps == "jump"

AfterSession == IF back = "checked" THEN "jump" ELSE back

(* A read returned nothing; after the second one the session is over.      *)
NoMessage_Uncounted ==
    /\ pc' = IF to_cnt >= 2 THEN AfterSession ELSE "read"
    /\ UNCHANGED <<slot, active_index, back, iap_write_addr, err_cnt, to_cnt>>

NoMessage ==
    /\ to_cnt' = to_cnt + 1
    /\ pc' = IF to_cnt + 1 >= 2 THEN AfterSession ELSE "read"
    /\ UNCHANGED <<slot, active_index, back, iap_write_addr, err_cnt>>

(* A frame that is dropped, with a NACK for its checksum or silently for   *)
(* its unknown command id.                                                 *)
DropFrame ==
    /\ to_cnt' = 0
    /\ UNCHANGED <<slot, active_index, pc, back, iap_write_addr, err_cnt>>

Dispatch(c) ==
    /\ to_cnt' = 0
    /\ pc' = c.cmd
    /\ UNCHANGED <<slot, active_index, back, iap_write_addr, err_cnt>>

(* A command failed: the third failure ends the session.                   *)
CommandFails ==
    /\ err_cnt' = err_cnt + 1
    /\ pc' = IF err_cnt + 1 > 2 THEN AfterSession ELSE "read"
    /\ UNCHANGED <<active_index, back, to_cnt>>

-----------------------------------------------------------------------------
(* The commands, n and v being what the frame carries.                     *)

(* bflb_eflash_loader_cmd_erase_flash: the write address stays.            *)
EraseFlash(n) ==
    /\ pc = "erase"
    /\ slot' = ErasedBelow(slot, EraseLast(n) + 1)
    /\ pc' = "read"
    /\ UNCHANGED <<active_index, back, iap_write_addr, err_cnt, to_cnt>>

EraseFlashFails(n) ==
    /\ pc = "erase"
    /\ \E k \in 0 .. EraseLast(n) : slot' = ErasedBelow(slot, k)
    /\ UNCHANGED iap_write_addr
    /\ CommandFails

(* bflb_eflash_loader_cmd_write_flash: the address in the command is       *)
(* ignored; the write address moves on only when the flash succeeded.      *)
WriteFlash(v) ==
    /\ pc = "write"
    /\ slot' = Programmed(slot, iap_write_addr, v)
    /\ iap_write_addr' = iap_write_addr + 1
    /\ pc' = "read"
    /\ UNCHANGED <<active_index, back, err_cnt, to_cnt>>

WriteFlashFails(v) ==
    /\ pc = "write"
    /\ \E u \in {v, Mixed} : slot' = Programmed(slot, iap_write_addr, u)
    /\ UNCHANGED iap_write_addr
    /\ CommandFails

Restart ==
    /\ pc' = "window" /\ back' = "window"
    /\ iap_write_addr' = 0 /\ err_cnt' = 0 /\ to_cnt' = 0

(* bflb_eflash_loader_cmd_reset: the result of pt_table_set_iap_para is    *)
(* ignored.                                                                *)
Reset ==
    /\ pc = "reset"
    /\ active_index' \in {active_index, 1 - active_index}
    /\ Restart
    /\ UNCHANGED slot

(* Power fails, possibly in the middle of a flash operation.               *)
PowerCycle(n, v) ==
    /\ \/ pc = "erase" /\ \E k \in 0 .. EraseLast(n) : slot' = ErasedBelow(slot, k)
       \/ pc = "write" /\ \E u \in {v, Mixed} : slot' = Programmed(slot, iap_write_addr, u)
       \/ UNCHANGED slot
    /\ Restart
    /\ UNCHANGED active_index

-----------------------------------------------------------------------------
(* Between the sessions: the window closes and the image is checked.       *)
CheckImage ==
    /\ pc = "window"
    /\ pc' = IF Bootable(slot) THEN "checked" ELSE "forever"
    /\ UNCHANGED <<slot, active_index, back, iap_write_addr, err_cnt, to_cnt>>

(* No handshake at the last poll.                                          *)
LastPoll ==
    /\ pc = "checked"
    /\ pc' = "jump"
    /\ UNCHANGED <<slot, active_index, back, iap_write_addr, err_cnt, to_cnt>>

(* blsp_mediaboot_pre_jump.                                                *)
Jump ==
    /\ pc = "jump"
    /\ pc' = "app"
    /\ UNCHANGED <<slot, active_index, back, iap_write_addr, err_cnt, to_cnt>>

=============================================================================
