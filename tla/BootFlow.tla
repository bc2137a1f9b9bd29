------------------------------- MODULE BootFlow -------------------------------
(***************************************************************************)
(* How main_task chooses and prepares the image it boots: it reads the     *)
(* partition table, looks for a request to start another firmware, copies  *)
(* a firmware that came over the air into its place, and checks what it is *)
(* about to jump to.  Power may fail, and a flash operation may fail,      *)
(* anywhere.                                                               *)
(*                                                                         *)
(* Simplifications:                                                        *)
(*  - the partition table is valid, and rewriting it is atomic, which      *)
(*    PartitionTable refines: a rewrite that returns success has happened, *)
(*    one that fails or is cut off has happened or not;                    *)
(*  - names and types of entries correspond one to one, and each entry has *)
(*    two slots of its own, large enough for its firmware;                 *)
(*  - a slot holds the first n chunks of some image; the boot header is in *)
(*    the first; its CRC and the hash catch whatever else is there;        *)
(*  - no image is signed, encrypted or marked as without a hash, and the   *)
(*    chip does not wake from hibernation; there is one CPU, so that every *)
(*    request is for CPU 0;                                                *)
(*  - the request in the mfg partition lies behind what a copy erases;     *)
(*  - no loader session takes place, and decompression and rollback are    *)
(*    not compiled in.                                                     *)
(***************************************************************************)
EXTENDS Integers

CONSTANTS
    Names,    \* names entries can have; "FW" is the one of type PT_ENTRY_FW_CPU0
    Images,   \* identities of images
    Chunks,   \* chunks of BFLB_BOOT2_READBUF_SIZE an image has
    InitTable \* tables a device may be started with

(* A table is its entries' active indexes: bit 0 is the slot, bit 1 asks   *)
(* for a copy to the other one.                                            *)
Tables == UNION {[S -> 0 .. 3] : S \in SUBSET Names}

ASSUME BootAssumption ==
    /\ {"FW", "mfg"} \subseteq Names /\ "" \notin Names
    /\ Chunks \in Nat \ {0}
    /\ InitTable \subseteq Tables

VARIABLES
    table,        \* the active partition table, in flash
    slots,        \* what the two slots of every entry hold
    mfg_flag,     \* the start request in the mfg partition, or ""
    user_fw,      \* the start request in HBN_RSV0, or ""
    pc,           \* where main_task is
    user_fw_name, \* the request as main_task knows it, or ""
    pt_entry,     \* the entry being dealt with
    g_user_hash_ignored,
    mfg_mode_flag,
    deal_len      \* chunks copied

persistent == <<table, slots, mfg_flag>>
vars == <<persistent, user_fw, pc, user_fw_name, pt_entry,
          g_user_hash_ignored, mfg_mode_flag, deal_len>>

-----------------------------------------------------------------------------
Slot == [id : Images, n : 0 .. Chunks]
Intact(c) == c.n = Chunks
First(c, k) == [c EXCEPT !.n = IF @ < k THEN @ ELSE k]

PtEntry(name, index) == [name |-> name, active_index |-> index]
NoEntry == PtEntry("", 0)

Entry(name) == PtEntry(name, table[name])

(* What the entry's index says is the current image.                       *)
Source(e) == e.active_index % 2
Dest_Same(e) == e.active_index % 2
Dest(e)   == 1 - (e.active_index % 2)
Content(e) == slots[e.name][Source(e)]

NeedsCopy_FromOne(e) == e.active_index >= 1
NeedsCopy(e) == e.active_index >= 2

(* The other slot with the first k chunks of the current image.            *)
WithDest(k) ==
    [slots EXCEPT ![pt_entry.name][Dest(pt_entry)] = First(Content(pt_entry), k)]

Copied_Same(e) == [e EXCEPT !.active_index = Source(e) + 2]
Copied(e) == [e EXCEPT !.active_index = Dest(e)]
WithCopied == [table EXCEPT ![pt_entry.name] = Copied(pt_entry).active_index]

-----------------------------------------------------------------------------
Init ==
    /\ table \in InitTable
    /\ slots \in [Names -> [0 .. 1 -> Slot]]
    /\ mfg_flag \in {""} \cup Names /\ user_fw \in {""} \cup Names
    /\ pc = "parse" /\ user_fw_name = user_fw
    /\ pt_entry = NoEntry
    /\ g_user_hash_ignored = FALSE /\ mfg_mode_flag = FALSE
    /\ deal_len = 0

(* blsp_boot2_get_mfg_startreq: a request found in the mfg partition       *)
(* replaces the other one.                                                 *)
StartRequest ==
    IF "mfg" \in DOMAIN table /\ mfg_flag # "" THEN mfg_flag ELSE user_fw_name

(* The entry the lookup by name or type leaves in pt_entry: on failure     *)
(* what was there, the mfg entry if get_mfg_startreq has just read it.     *)
Lookup_Late(name) == IF "mfg" \in DOMAIN table THEN Entry("mfg") ELSE pt_entry

Lookup(name) ==
    IF name \in DOMAIN table THEN Entry(name)
    ELSE IF "mfg" \in DOMAIN table THEN Entry("mfg")
    ELSE pt_entry

Wanted(req) == IF req = "" THEN "FW" ELSE req

(* blsp_boot2_deal_one_fw did not return 0: boot pt_entry.  A request is   *)
(* forgotten.                                                              *)
Parsed_Remembers(req) ==
    /\ pc' = "boot"
    /\ user_fw' = IF req = "" THEN user_fw ELSE ""
    /\ mfg_mode_flag' = (req # "")
    /\ user_fw_name' = req

Parsed(req) ==
    /\ pc' = "boot"
    /\ user_fw' = IF req = "" THEN user_fw ELSE ""
    /\ mfg_mode_flag' = (req # "")
    /\ user_fw_name' = ""

Parse ==
    /\ pc = "parse"
    /\ pt_entry' = Lookup(Wanted(StartRequest))
    /\ g_user_hash_ignored' = (g_user_hash_ignored \/ StartRequest # "")
    /\ IF Wanted(StartRequest) \in DOMAIN table /\ NeedsCopy(pt_entry')
       THEN /\ pc' = "erase"
            /\ user_fw_name' = StartRequest
            /\ UNCHANGED <<user_fw, mfg_mode_flag>>
       ELSE Parsed(StartRequest)
    /\ UNCHANGED <<persistent, deal_len>>

-----------------------------------------------------------------------------
(* blsp_boot2_do_fw_copy, and then the rewrite of the table.               *)
Erase ==
    /\ pc = "erase"
    /\ slots' = WithDest(0)
    /\ pc' = "copy" /\ deal_len' = 0
    /\ UNCHANGED <<table, mfg_flag, user_fw, user_fw_name, pt_entry,
                   g_user_hash_ignored, mfg_mode_flag>>

Copy_Short ==
    /\ pc = "copy"
    /\ slots' = WithDest(deal_len + 1)
    /\ deal_len' = deal_len + 1
    /\ pc' = IF deal_len + 2 >= Chunks THEN "update" ELSE "copy"
    /\ UNCHANGED <<table, mfg_flag, user_fw, user_fw_name, pt_entry,
                   g_user_hash_ignored, mfg_mode_flag>>

Copy ==
    /\ pc = "copy"
    /\ slots' = WithDest(deal_len + 1)
    /\ deal_len' = deal_len + 1
    /\ pc' = IF deal_len + 1 = Chunks THEN "update" ELSE "copy"
    /\ UNCHANGED <<table, mfg_flag, user_fw, user_fw_name, pt_entry,
                   g_user_hash_ignored, mfg_mode_flag>>

(* The table is read again: blsp_boot2_deal_one_fw returns 0.              *)
Update ==
    /\ pc = "update"
    /\ table' = WithCopied /\ pt_entry' = Copied(pt_entry)
    /\ pc' = "parse"
    /\ UNCHANGED <<slots, mfg_flag, user_fw, user_fw_name,
                   g_user_hash_ignored, mfg_mode_flag, deal_len>>

(* What an operation on the flash may leave behind when it is cut off: the *)
(* erase starts with the boot header.                                      *)
CutOff ==
    /\ \/ UNCHANGED slots
       \/ pc = "erase" /\ slots' = WithDest(0)
       \/ pc = "copy" /\ slots' = WithDest(deal_len + 1)
    /\ table' \in {table} \cup (IF pc = "update" THEN {WithCopied} ELSE {})
    /\ UNCHANGED mfg_flag

(* A flash operation fails.  The index that asks for the copy stays; after *)
(* a failed rewrite of the table pt_entry has the new one nevertheless,    *)
(* since BFLB_BOOT2_FAIL is not 0 in the uint8_t pt_parsed either.         *)
FlashFails ==
    /\ pc \in {"erase", "copy", "update"}
    /\ CutOff
    /\ pt_entry' = IF pc = "update" THEN Copied(pt_entry) ELSE pt_entry
    /\ Parsed(user_fw_name)
    /\ UNCHANGED <<g_user_hash_ignored, deal_len>>

-----------------------------------------------------------------------------
(* blsp_mediaboot_main.  start_address has no element for an index above 1 *)
(* (the word read is a maximal length, and no image starts there); an      *)
(* address of 0 is not booted.                                             *)
Bootable(e) ==
    /\ e # NoEntry /\ ~ NeedsCopy(e)
    /\ Content(e).n > 0
    /\ g_user_hash_ignored \/ Intact(Content(e))

Boot ==
    /\ pc = "boot"
    /\ pc' = IF Bootable(pt_entry) THEN "app"
             ELSE IF mfg_mode_flag THEN "parse" ELSE "forever"
    /\ mfg_mode_flag' = (mfg_mode_flag /\ Bootable(pt_entry))
    /\ UNCHANGED <<persistent, user_fw, user_fw_name, pt_entry,
                   g_user_hash_ignored, deal_len>>

(* Power fails, at any time; HBN_RSV0 survives a reset but not the loss of *)
(* its supply.                                                             *)
PowerFails ==
    /\ CutOff
    /\ user_fw' \in {user_fw, ""}
    /\ user_fw_name' = user_fw'
    /\ pc' = "parse" /\ pt_entry' = NoEntry
    /\ g_user_hash_ignored' = FALSE /\ mfg_mode_flag' = FALSE
    /\ deal_len' = 0

-----------------------------------------------------------------------------
Step == Parse \/ Erase \/ Copy \/ Update \/ FlashFails \/ Boot

Next == Step \/ PowerFails

Spec == Init /\ [][Next]_vars

(* main_task has nothing to wait for.                                      *)
FairSpec == Spec /\ WF_vars(Step)
=============================================================================
