---------------------------- MODULE ImageCheckProps ----------------------------
(* What the check of an image comes to, whatever was checked before it and  *)
(* whatever the loader did with the hash device in between.                 *)
EXTENDS ImageCheck, FiniteSets

(***************************************************************************)
(* Types of the variables; no more of the image is hashed than there is.   *)
(***************************************************************************)
TypeOK ==
    /\ g_efuse_cfg \in [sign : BOOLEAN, encrypted : BOOLEAN, hbn_check_sign : BOOLEAN]
    /\ hbn \in BOOLEAN /\ g_user_hash_ignored \in BOOLEAN /\ mfg_mode_flag \in BOOLEAN
    /\ reg \in Registry(Names) /\ dev_check_hash \in {"hash", NULL}
    /\ shaCtx \in Seq(Data) /\ deal_len \in Nat
    /\ pc \in {"window", "header", "pkey", "sig", "iv", "hash", "check",
               "noseg", "main", "again", "select", "poll", "forever", "app", "stay"}
    /\ hash_ignore \in BOOLEAN /\ img_valid \in BOOLEAN /\ ret \in BOOLEAN
    /\ IF pc \in {"window", "select"} THEN img = NoImage
       ELSE img \in Images /\ deal_len \in 0 .. img.img_len

(***************************************************************************)
(* A device is in the registry's list once or not at all, and its status   *)
(* says which; and what the list holds is found by its name.               *)
(***************************************************************************)
RegistryInv ==
    /\ \A dev \in Devs :
        Cardinality({i \in DOMAIN reg.head : reg.head[i] = dev}) =
            IF reg.status[dev] = "UNREGISTER" THEN 0 ELSE 1
    /\ \A dev \in Range(reg.head) : device_find(reg, reg.name[dev]) = dev

(***************************************************************************)
(* While an image is parsed the hash device is open, and has been fed with *)
(* the IV and the words read so far and nothing else: no key, nothing of   *)
(* an earlier attempt, nothing of a session.                               *)
(***************************************************************************)
Hashed(n) == (IF img.encrypt_type THEN <<"iv">> ELSE <<>>) \o [i \in 1 .. n |-> Word(i)]

DigestInv ==
    /\ pc \in {"pkey", "sig", "iv", "hash", "noseg"} =>
        dev_check_hash = "hash" /\ IsOpen(reg, "hash")
    /\ pc \in {"pkey", "sig", "iv"} => shaCtx = <<>>
    /\ pc = "hash" /\ ~ hash_ignore => shaCtx = Hashed(deal_len)

(* The hash device as every attempt finds and uses it.                      *)
DeviceInv == TypeOK /\ RegistryInv /\ DigestInv

(***************************************************************************)
(* The verdict depends on the image, the chip and the request only: it is  *)
(* what the checks that count come to, and an image that passes them is    *)
(* never turned down because of what the hash device went through before.  *)
(* A hash that counts is the hash of the IV and the whole image.  What is  *)
(* marked as valid is what was checked and came in one piece.  Of a        *)
(* signature only the form counts: see SignatureVerified.                  *)
(***************************************************************************)
FitsChip == img.sign = g_efuse_cfg.sign /\ (g_efuse_cfg.encrypted => img.encrypt_type)

WellFormed == img.sig \in {"whole", "foreign"}

PartsIntact ==
    /\ img.sign => img.pk = "efuse" /\ WellFormed
    /\ img.encrypt_type => img.iv = "whole"

WakesUnchecked == hbn /\ ~ g_efuse_cfg.hbn_check_sign

AsksForNoHash == img.hash_ignore /\ img.hash = DEADBEEF /\ ~ img.sign

Sound ==
    /\ img.crc # "wrong" /\ img.magicCode /\ ~ img.notLoadInBoot /\ img.img_len > 0
    /\ FitsChip /\ PartsIntact

HashMatches ==
    \/ ~ img.no_segment \/ AsksForNoHash \/ WakesUnchecked
    \/ img.hash = Hashed(img.img_len)

Acceptable == Sound /\ (g_user_hash_ignored \/ HashMatches)

VerdictRight ==
    pc \in {"main", "poll"} => ret = Acceptable /\ img_valid = (ret /\ img.no_segment)

(***************************************************************************)
(* To the boot flow a check is one step, BootFlow's Boot, of whatever the  *)
(* table's entry stands for: nothing of a sound image, all of one whose    *)
(* hash matches as well.  However many reads, whatever fails, with and     *)
(* without sessions before and after, main_task leaves the check for the   *)
(* application, for another attempt or for good as Boot does, with the     *)
(* request and the image it began with.  An image in segments, for which   *)
(* the jump does not return, leaves Boot undone.                           *)
(***************************************************************************)
Checked == {"header", "pkey", "sig", "iv", "hash", "noseg", "check", "main", "poll", "stay"}

Stored ==
    [id |-> "image",
     n  |-> IF img = NoImage \/ ~ Sound THEN 0 ELSE IF HashMatches THEN 2 ELSE 1]

Flow == INSTANCE BootFlow WITH
    Names <- {"FW", "mfg"}, Images <- {"image"}, Chunks <- 2,
    InitTable <- {[name \in {"FW"} |-> 0]},
    table <- [name \in {"FW"} |-> 0],
    slots <- [name \in {"FW", "mfg"} |-> [i \in 0 .. 1 |-> Stored]],
    mfg_flag <- "", user_fw <- "", user_fw_name <- "", deal_len <- 0,
    pt_entry <- [name |-> "FW", active_index |-> 0],
    mfg_mode_flag <- mfg_mode_flag /\ pc # "again",
    pc <- IF pc \in Checked THEN "boot"
          ELSE IF pc \in {"app", "forever"} THEN pc ELSE "parse"

ChecksAsBoot == [][Try \/ StartOver \/ Flow!Boot]_(Flow!vars)

-----------------------------------------------------------------------------
(***************************************************************************)
(* What blsp_boot_parser.c says of blsp_boot_parser_check_signature        *)
(* ("Check signature is valid", 345, and the error for "verify failed",    *)
(* 379-383): the image that a chip with signatures starts, when nobody     *)
(* asked for less and it does not wake from hibernation without checks,    *)
(* has a signature that verifies.                                          *)
(***************************************************************************)
SignatureVerified ==
    pc = "app" /\ g_efuse_cfg.sign /\ ~ WakesUnchecked /\ ~ g_user_hash_ignored
        => img.sig = "whole"
================================================================================
