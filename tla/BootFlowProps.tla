---------------------------- MODULE BootFlowProps ----------------------------
(* What main_task keeps while it prepares a boot, with flash errors and     *)
(* power failures anywhere.                                                 *)
EXTENDS BootFlow

(***************************************************************************)
(* Types of the variables; deal_len never passes the end of the image.     *)
(***************************************************************************)
TypeOK ==
    /\ table \in Tables
    /\ slots \in [Names -> [0 .. 1 -> Slot]]
    /\ mfg_flag \in {""} \cup Names /\ user_fw \in {""} \cup Names
    /\ user_fw_name \in {""} \cup Names
    /\ pc \in {"parse", "erase", "copy", "update", "boot", "app", "forever"}
    /\ \/ pt_entry = NoEntry
       \/ /\ pt_entry.name \in DOMAIN table
          /\ pt_entry.active_index \in 0 .. 3
    /\ g_user_hash_ignored \in BOOLEAN /\ mfg_mode_flag \in BOOLEAN
    /\ deal_len \in 0 .. Chunks

(***************************************************************************)
(* The image an entry stands for, the one at its current slot or, while    *)
(* its index asks for a copy, the one to be copied, is never changed:      *)
(* neither by the copy (blsp_boot2_do_fw_copy erases the other slot), nor  *)
(* by the change of the index, nor by either of them cut off halfway.      *)
(***************************************************************************)
Current(name) == slots[name][table[name] % 2]

SameImage == [][\A name \in DOMAIN table : Current(name)' = Current(name)]_vars

(***************************************************************************)
(* A copy that is done is not done again, and nothing else changes an      *)
(* index: the request for a copy is withdrawn with the rewrite of the      *)
(* table or stays.                                                         *)
(***************************************************************************)
CopiedOnce ==
    [][\A name \in DOMAIN table : table[name] < 2 => table'[name] = table[name]]_vars

(***************************************************************************)
(* A device with an intact firmware boots: main_task gives up only for a   *)
(* firmware that is not intact or that it could not copy.                  *)
(***************************************************************************)
NoFalseFailure ==
    pc = "forever" /\ "FW" \in DOMAIN table =>
        ~ Intact(Current("FW")) \/ pt_entry.active_index >= 2

(***************************************************************************)
(* A request in HBN_RSV0 is served at most once, so an application or a    *)
(* failure after it is not followed by the same request again; but until   *)
(* then, copying included, it is not lost by a reset.                      *)
(***************************************************************************)
RequestServedOnce == pc \in {"boot", "app", "forever"} => user_fw = ""

(***************************************************************************)
(* The inductive invariant behind them.  While a copy goes on pt_entry is  *)
(* the table's entry for the request, which asks for it, and when it is    *)
(* done the two slots are alike; and a request that main_task no longer knows is no     *)
(* longer in HBN_RSV0 either.                                              *)
(***************************************************************************)
Copying == pc \in {"erase", "copy", "update"}

CopyInv ==
    /\ Copying =>
        /\ pt_entry.name \in DOMAIN table /\ pt_entry.name = Wanted(user_fw_name)
        /\ pt_entry.active_index = table[pt_entry.name]
        /\ NeedsCopy(pt_entry)
    /\ pc = "copy" => deal_len < Chunks
    /\ pc = "update" => slots[pt_entry.name][Dest(pt_entry)] = Content(pt_entry)

RequestInv ==
    /\ user_fw_name = "" => user_fw = ""
    /\ RequestServedOnce /\ (pc \in {"boot", "app", "forever"} => user_fw_name = "")

BootInv == TypeOK /\ CopyInv /\ RequestInv

(***************************************************************************)
(* main_task ends in an application or in the loader, once the power stays *)
(* on, unless a request in the mfg partition names an image that does not  *)
(* boot.                                                                   *)
(***************************************************************************)
MfgRequest == "mfg" \in DOMAIN table /\ mfg_flag # ""

BootEnds ==
    []<><<PowerFails>>_vars \/ []<>(pc \in {"app", "forever"} \/ MfgRequest)

(***************************************************************************)
(* Why it ends: no more than StepsLeft steps are left at any time, and each *)
(* leaves fewer, since a request is forgotten before its image is booted   *)
(* and a copy, done or failed, is not begun again for the same request.    *)
(***************************************************************************)
Requested ==
    IF pc = "parse" \/ Copying THEN user_fw_name # "" ELSE pc = "boot" /\ mfg_mode_flag

MustCopy(req) == Wanted(req) \in DOMAIN table /\ table[Wanted(req)] >= 2

StepsOfAttempt ==
    CASE pc = "parse"  -> IF MustCopy(user_fw_name) THEN Chunks + 5 ELSE 2
      [] pc = "erase"  -> Chunks + 4
      [] pc = "copy"   -> Chunks + 3 - deal_len
      [] pc = "update" -> 3
      [] pc = "boot"   -> 1
      [] OTHER         -> 0

(* A request that does not boot is followed by the normal firmware.        *)
StepsLeft == StepsOfAttempt + (IF Requested THEN Chunks + 5 ELSE 0)

GetsOn == [][Step /\ ~MfgRequest => StepsLeft' \in 0 .. StepsLeft - 1]_vars

(***************************************************************************)
(* What blsp_boot_parser.c says of ignoring the hash ("If signed or user   *)
(* not really want to ignore, hash can't be ignored"): a firmware nobody   *)
(* requested with the hash ignored runs only if its hash was right.        *)
(***************************************************************************)
HashChecked == pc = "app" /\ ~ mfg_mode_flag => Intact(Content(pt_entry))
=============================================================================
