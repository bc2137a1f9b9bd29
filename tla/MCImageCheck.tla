----------------------------- MODULE MCImageCheck -----------------------------
(* An instance of ImageCheck: images of three words, read two at a time,    *)
(* with at most MaxFlaws things about each that are not as they should be.  *)
EXTENDS ImageCheckProps, FiniteSets

CONSTANT MaxFlaws

Words == <<"w1", "w2", "w3">>

HashOf(image) == IF image.encrypt_type THEN <<"iv">> \o Words ELSE Words

Flaws(image) ==
    {f \in {"crc", "notLoadInBoot", "magicCode", "hash_ignore", "hash", "img_len",
            "no_segment", "pk", "sig", "iv", "content"} :
        CASE f = "crc"           -> image.crc # "right"
          [] f = "notLoadInBoot" -> image.notLoadInBoot
          [] f = "magicCode"     -> ~ image.magicCode
          [] f = "hash_ignore"   -> image.hash_ignore
          [] f = "hash"          -> image.hash # HashOf(image)
          [] f = "img_len"       -> image.img_len # Len(Words)
          [] f = "no_segment"    -> ~ image.no_segment
          [] f = "pk"            -> image.pk # "efuse"
          [] f = "sig"           -> image.sig # "whole"
          [] f = "iv"            -> image.iv # "whole"
          [] f = "content"       -> image.content # Words}

MCImages ==
    {image \in
        [crc : {"right", "wrong", "ignored"}, notLoadInBoot : BOOLEAN,
         magicCode : BOOLEAN, encrypt_type : BOOLEAN, sign : BOOLEAN,
         hash_ignore : BOOLEAN, hash : {DEADBEEF, Words, <<"iv">> \o Words},
         img_len : {0, 2, 3}, no_segment : BOOLEAN,
         pk : {"efuse", "other", "damaged"}, sig : {"whole", "foreign", "long", "damaged"},
         iv : {"whole", "damaged"},
         content : {Words, <<"w1", "w2", "x">>, <<"w1", "w2">>}] :
        Cardinality(Flaws(image)) <= MaxFlaws}
=============================================================================
