------------------------------ MODULE ImageCheck ------------------------------
(***************************************************************************)
(* How blsp_mediaboot_main decides whether an image may be started:        *)
(* blsp_mediaboot_parse_one_fw reads the boot header, the key, the         *)
(* signature and the IV behind it and then the image, and computes the     *)
(* hash with the one hash device there is, which every attempt, and the    *)
(* loader's command to read a SHA, registers and opens anew.               *)
(*                                                                         *)
(* Simplifications:                                                        *)
(*  - a CRC and a hash match only what they were made of; a hash is the    *)
(*    sequence of what went into it;                                       *)
(*  - images and chips are signed or not and encrypted or not, whatever    *)
(*    the kind; all errors are alike, since main_task makes no difference; *)
(*  - there is one CPU; the address of the image is not 0;                 *)
(*  - reading the flash succeeds (blsp_mediaboot_read ignores the result); *)
(*  - every attempt meets an image of its own: a session may have changed  *)
(*    the slot; which slot it is, BootFlow says.                           *)
(***************************************************************************)
EXTENDS Devices, Integers

CONSTANTS
    ImageWords,              \* words an image is made of
    Images,                  \* images found in the flash
    BFLB_BOOT2_READBUF_SIZE  \* words read at a time

(* What is hashed or compared with a hash; words read beyond the content   *)
(* of an image are unknown.                                                *)
Data == ImageWords \cup {"deadbeef", "iv", "pk", "received", "unknown"}

DEADBEEF == <<"deadbeef">>

(* What blsp_mediaboot_parse_one_fw reads.  A foreign signature is well     *)
(* formed, but does not verify: of another key, or of another image.        *)
Image == [crc : {"right", "wrong", "ignored"}, notLoadInBoot : BOOLEAN,
          magicCode : BOOLEAN, encrypt_type : BOOLEAN, sign : BOOLEAN,
          hash_ignore : BOOLEAN, hash : Seq(Data), img_len : Nat,
          no_segment : BOOLEAN, pk : {"efuse", "other", "damaged"},
          sig : {"whole", "foreign", "long", "damaged"}, iv : {"whole", "damaged"},
          content : Seq(ImageWords)]

ASSUME ImageAssumption ==
    /\ Images \subseteq Image
    /\ BFLB_BOOT2_READBUF_SIZE \in Nat \ {0}
    /\ {"hash", "uart0", "uart1"} \subseteq Devs

VARIABLES
    g_efuse_cfg,    \* whether the chip is signed, encrypted, and checks after HBN
    hbn,            \* g_ps_mode is BFLB_PSM_HBN
    g_user_hash_ignored, mfg_mode_flag,
    reg,            \* the device registry
    dev_check_hash, \* the hash device, or NULL
    shaCtx,         \* what was fed to it since it was opened
    pc,             \* where blsp_mediaboot_main is, or main_task outside it
    img,            \* the image being checked
    hash_ignore, img_valid, \* of g_boot_img_cfg[0]
    deal_len,       \* words of the image hashed
    ret             \* blsp_mediaboot_parse_one_fw returned BFLB_BOOT2_SUCCESS

(* Between attempts nothing of g_boot_img_cfg[0] is used.                  *)
NoImage == [crc |-> "none"]

chip == <<g_efuse_cfg, hbn>>
device == <<reg, dev_check_hash, shaCtx>>
request == <<g_user_hash_ignored, mfg_mode_flag>>
parsed == <<img, hash_ignore, img_valid, deal_len, ret>>
vars == <<chip, device, request, parsed, pc>>

-----------------------------------------------------------------------------
(* The hash device is taken out of the registry, wherever it is, put in    *)
(* again, found and opened; opening it starts a hash.                      *)
Names == {"", "dev_check_hash", "debug_log", "uart_debug"}

Renewed_NotRemoved == device_register(reg, "hash", "dev_check_hash")

Renewed ==
    device_register(device_unregister(reg, "dev_check_hash"),
                    "hash", "dev_check_hash")

HashOpens == MayOpen(Renewed, device_find(Renewed, "dev_check_hash"))

OpenHash ==
    /\ dev_check_hash' = device_find(Renewed, "dev_check_hash")
    /\ reg' = device_open(Renewed, dev_check_hash')
    /\ shaCtx' = IF HashOpens THEN <<>> ELSE shaCtx

(* shaCtx after words are written to the device.                           *)
Written(words) ==
    IF IsOpen(reg, dev_check_hash) THEN shaCtx \o words ELSE shaCtx

-----------------------------------------------------------------------------
Init ==
    /\ g_efuse_cfg \in [sign : BOOLEAN, encrypted : BOOLEAN, hbn_check_sign : BOOLEAN]
    /\ hbn \in BOOLEAN
    /\ g_user_hash_ignored = FALSE /\ mfg_mode_flag = FALSE
    /\ reg = [head   |-> <<"uart1", "uart0">>,
              name   |-> [dev \in Devs |-> CASE dev = "uart0" -> "debug_log"
                                             [] dev = "uart1" -> "uart_debug"
                                             [] OTHER -> ""],
              status |-> [dev \in Devs |-> IF dev \in {"uart0", "uart1"}
                                           THEN "OPENED" ELSE "UNREGISTER"]]
    /\ dev_check_hash = NULL /\ shaCtx = <<>>
    /\ pc = "window"
    /\ img = NoImage /\ hash_ignore = FALSE /\ img_valid = FALSE
    /\ deal_len = 0 /\ ret = FALSE

(* main_task tries an image, the normal one or a requested one.            *)
Try ==
    /\ pc \in {"window", "select"}
    /\ mfg_mode_flag' \in BOOLEAN
    /\ g_user_hash_ignored' = (g_user_hash_ignored \/ mfg_mode_flag')
    /\ img' \in Images
    /\ pc' = "header"
    /\ hash_ignore' = FALSE /\ img_valid' = FALSE /\ deal_len' = 0 /\ ret' = FALSE
    /\ UNCHANGED <<chip, device>>

Fail ==
    /\ pc' = "main" /\ ret' = FALSE

(* Where parsing goes on after the boot header.                            *)
AfterKey == IF img.encrypt_type THEN "iv" ELSE IF img.no_segment THEN "hash" ELSE "noseg"

HeaderOK ==
    /\ img.crc # "wrong" /\ ~ img.notLoadInBoot /\ img.magicCode
    /\ g_efuse_cfg.encrypted => img.encrypt_type
    /\ g_efuse_cfg.sign = img.sign
    /\ img.img_len # 0

HashIgnored ==
    \/ g_user_hash_ignored
    \/ hbn /\ ~ g_efuse_cfg.hbn_check_sign
    \/ img.hash_ignore /\ img.hash = DEADBEEF /\ ~ g_efuse_cfg.sign

(* blsp_boot_parse_bootheader.                                             *)
ParseHeader ==
    /\ pc = "header"
    /\ IF HeaderOK THEN OpenHash ELSE UNCHANGED device
    /\ IF HeaderOK /\ HashOpens
       THEN /\ pc' = IF img.sign THEN "pkey" ELSE AfterKey
            /\ hash_ignore' = HashIgnored /\ UNCHANGED ret
       ELSE Fail /\ UNCHANGED hash_ignore
    /\ UNCHANGED <<chip, request, img, img_valid, deal_len>>

(* blsp_boot_parse_pkey: the device hashes the key first and is renewed.   *)
KeyValid == img.pk = "efuse"

ParseKey_Kept ==
    /\ pc = "pkey"
    /\ IF img.pk # "damaged"
       THEN shaCtx' = Written(<<"pk">>) /\ UNCHANGED <<reg, dev_check_hash>>
       ELSE UNCHANGED device
    /\ IF KeyValid THEN pc' = "sig" /\ UNCHANGED ret ELSE Fail
    /\ UNCHANGED <<chip, request, img, hash_ignore, img_valid, deal_len>>

ParseKey ==
    /\ pc = "pkey"
    /\ IF img.pk # "damaged" THEN OpenHash ELSE UNCHANGED device
    /\ IF KeyValid /\ HashOpens THEN pc' = "sig" /\ UNCHANGED ret ELSE Fail
    /\ UNCHANGED <<chip, request, img, hash_ignore, img_valid, deal_len>>

(* The error of blsp_mediaboot_read_signaure for a signature too long does *)
(* not count, but blsp_boot_parse_signature then rejects the key still in  *)
(* the buffer.                                                             *)
SignatureRead == img.sig # "long"

ParseSignature ==
    /\ pc = "sig"
    /\ IF SignatureRead /\ img.sig # "damaged" THEN pc' = AfterKey /\ UNCHANGED ret ELSE Fail
    /\ UNCHANGED <<chip, device, request, img, hash_ignore, img_valid, deal_len>>

(* blsp_boot_parse_aesiv.                                                  *)
ParseIV ==
    /\ pc = "iv"
    /\ IF img.iv = "whole"
       THEN /\ shaCtx' = IF hash_ignore THEN shaCtx ELSE Written(<<"iv">>)
            /\ pc' = IF img.no_segment THEN "hash" ELSE "noseg"
            /\ UNCHANGED ret
       ELSE Fail /\ UNCHANGED shaCtx
    /\ UNCHANGED <<chip, reg, dev_check_hash, request, img, hash_ignore,
                   img_valid, deal_len>>

(* One turn of blsp_mediaboot_cal_hash.                                    *)
ReadLen == IF img.img_len - deal_len > BFLB_BOOT2_READBUF_SIZE
           THEN BFLB_BOOT2_READBUF_SIZE ELSE img.img_len - deal_len

Word(i) == IF i <= Len(img.content) THEN img.content[i] ELSE "unknown"

CalHash ==
    /\ pc = "hash" /\ ~ hash_ignore /\ deal_len < img.img_len
    /\ shaCtx' = Written([i \in 1 .. ReadLen |-> Word(deal_len + i)])
    /\ deal_len' = deal_len + ReadLen
    /\ UNCHANGED <<chip, reg, dev_check_hash, request, img, hash_ignore,
                   img_valid, ret, pc>>

(* blsp_boot_parser_check_hash; the device is left unregistered.           *)
CheckHash ==
    /\ pc = "hash" /\ ~ hash_ignore /\ deal_len >= img.img_len
    /\ reg' = device_unregister(device_close(reg, dev_check_hash), "dev_check_hash")
    /\ IF shaCtx = img.hash THEN pc' = "check" /\ UNCHANGED ret ELSE Fail
    /\ UNCHANGED <<chip, dev_check_hash, shaCtx, request, img, hash_ignore,
                   img_valid, deal_len>>

(* blsp_boot_parser_check_signature cannot fail: what sec_ecdsa_verify     *)
(* returns, for a foreign signature too, is not looked at.                  *)
CheckSignature ==
    /\ pc = "check" \/ (pc = "hash" /\ hash_ignore)
    /\ img_valid' = TRUE /\ ret' = TRUE /\ pc' = "main"
    /\ UNCHANGED <<chip, device, request, img, hash_ignore, deal_len>>

(* An image in segments is not checked and not valid, but no error either. *)
NoSegment ==
    /\ pc = "noseg"
    /\ img_valid' = FALSE /\ ret' = TRUE /\ pc' = "main"
    /\ UNCHANGED <<chip, device, request, img, hash_ignore, deal_len>>

-----------------------------------------------------------------------------
(* blsp_mediaboot_main goes on to the last poll for a session or returns.  *)
Decide_GivesUp ==
    /\ pc = "main"
    /\ pc' = IF ret THEN "poll" ELSE "forever"
    /\ UNCHANGED <<chip, device, request, parsed>>

Decide ==
    /\ pc = "main"
    /\ pc' = IF ret THEN "poll" ELSE IF mfg_mode_flag THEN "again" ELSE "forever"
    /\ UNCHANGED <<chip, device, request, parsed>>

(* After a requested image main_task's loop starts over (main.c:526).      *)
StartOver ==
    /\ pc = "again"
    /\ pc' = "select" /\ mfg_mode_flag' = FALSE
    /\ img' = NoImage /\ hash_ignore' = FALSE /\ img_valid' = FALSE
    /\ deal_len' = 0 /\ ret' = FALSE
    /\ UNCHANGED <<chip, device, g_user_hash_ignored>>

(* blsp_boot2_jump_entry: there is no way out of it.                       *)
Jump ==
    /\ pc = "poll"
    /\ pc' = IF img_valid THEN "app" ELSE "stay"
    /\ UNCHANGED <<chip, device, request, parsed>>

(* The loader, in one of main_task's polls: a handshake over the serial    *)
(* line reopens its UART, and bflb_eflash_loader_cmd_xip_readSha_flash     *)
(* hashes the firmware that was received.                                  *)
EnableInt ==
    /\ pc \in {"window", "poll", "forever"}
    /\ LET download_uart == device_find(reg, "debug_log")
       IN  reg' = device_open(device_close(reg, download_uart), download_uart)
    /\ UNCHANGED <<chip, dev_check_hash, shaCtx, request, parsed, pc>>

XipReadSha ==
    /\ pc \in {"window", "poll", "forever"}
    /\ dev_check_hash' = device_find(Renewed, "dev_check_hash")
    /\ reg' = device_close(device_open(Renewed, dev_check_hash'), dev_check_hash')
    /\ shaCtx' = IF HashOpens THEN <<"received">> ELSE shaCtx
    /\ UNCHANGED <<chip, request, parsed, pc>>

Loader == EnableInt \/ XipReadSha

Parse ==
    \/ ParseHeader \/ ParseKey \/ ParseSignature \/ ParseIV
    \/ CalHash \/ CheckHash \/ CheckSignature \/ NoSegment

Next == Try \/ Parse \/ Decide \/ StartOver \/ Jump \/ Loader

Spec == Init /\ [][Next]_vars
=============================================================================
