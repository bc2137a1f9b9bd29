--------------------------- MODULE ImageCheck_proofs ---------------------------
(***************************************************************************)
(* DeviceInv and VerdictRight, for any set of images, of any length, read  *)
(* in pieces of any size, and for any set of devices.                      *)
(***************************************************************************)
EXTENDS ImageCheckProps, FiniteSetTheorems, SequenceTheorems, TLAPS

-----------------------------------------------------------------------------
(* Sequences.                                                              *)

LEMMA RemoveAtProperties ==
    ASSUME NEW S, NEW s \in Seq(S), NEW i \in 1 .. Len(s)
    PROVE  /\ RemoveAt(s, i) \in Seq(S)
           /\ Len(RemoveAt(s, i)) = Len(s) - 1
           /\ \A k \in 1 .. Len(s) - 1 :
                RemoveAt(s, i)[k] = IF k < i THEN s[k] ELSE s[k + 1]
<1> DEFINE a == SubSeq(s, 1, i - 1)
           b == SubSeq(s, i + 1, Len(s))
<1>1. Len(s) \in Nat /\ i \in Nat /\ 1 <= i /\ i <= Len(s)
  OBVIOUS
<1>2. a \in Seq(S) /\ Len(a) = i - 1 /\ \A k \in 1 .. i - 1 : a[k] = s[k]
  BY <1>1
<1>3. b \in Seq(S) /\ Len(b) = Len(s) - i /\ \A k \in 1 .. Len(s) - i : b[k] = s[i + k]
  BY <1>1
<1>4. RemoveAt(s, i) = a \o b
  BY DEF RemoveAt
<1> HIDE DEF a, b
<1>5. a \o b \in Seq(S) /\ Len(a \o b) = Len(s) - 1
  <2>1. a \o b \in Seq(S) /\ Len(a \o b) = Len(a) + Len(b)
    BY <1>2, <1>3, ConcatProperties
  <2> QED BY <1>1, <1>2, <1>3, <2>1
<1>6. ASSUME NEW k \in 1 .. Len(s) - 1
      PROVE  (a \o b)[k] = IF k < i THEN s[k] ELSE s[k + 1]
  <2>1. CASE k < i
    BY <1>1, <1>2, <1>3, <2>1
  <2>2. CASE ~ (k < i)
    <3>1. k - (i - 1) \in 1 .. Len(s) - i /\ i + (k - (i - 1)) = k + 1
      BY <1>1, <2>2
    <3>2. (a \o b)[k] = b[k - (i - 1)]
      BY <1>1, <1>2, <1>3, <2>2
    <3> QED BY <1>3, <2>2, <3>1, <3>2
  <2> QED BY <2>1, <2>2
<1> QED BY <1>4, <1>5, <1>6

-----------------------------------------------------------------------------
(* The registry.                                                           *)

Listed(r) == \E i \in DOMAIN r.head : r.head[i] = "hash"

(* The list holds a device once, and holds those that are registered; the  *)
(* devices in it have different names, of which dev_check_hash is the hash *)
(* device's and debug_log that of uart0.                                   *)
Orderly(r) ==
    /\ r \in Registry(Names)
    /\ \A i, j \in DOMAIN r.head : r.name[r.head[i]] = r.name[r.head[j]] => i = j
    /\ \A dev \in Devs : r.status[dev] = "UNREGISTER" <=> dev \notin Range(r.head)
    /\ \A i \in DOMAIN r.head : r.name[r.head[i]] = "dev_check_hash" <=> r.head[i] = "hash"
    /\ "uart0" \in Range(r.head) /\ r.name["uart0"] = "debug_log"

LEMMA Facts ==
    /\ Devs # {} /\ "hash" \in Devs /\ "uart0" \in Devs /\ "uart1" \in Devs
    /\ NULL \notin Devs /\ "hash" # NULL
  BY ImageAssumption, DevicesAssumption DEF NULL

LEMMA HeadType ==
    ASSUME NEW r, Orderly(r)
    PROVE  /\ r.head \in Seq(Devs) /\ Len(r.head) \in Nat
           /\ DOMAIN r.head = 1 .. Len(r.head)
           /\ \A i \in 1 .. Len(r.head) : r.head[i] \in Devs
           /\ r.name \in [Devs -> Names] /\ r.status \in [Devs -> Status]
  BY DEF Orderly, Registry

(* What is listed is found by its name, the search being for the first.    *)
LEMMA Finds ==
    ASSUME NEW r, Orderly(r), NEW i \in DOMAIN r.head
    PROVE  /\ Places(r, r.name[r.head[i]]) = {i}
           /\ Min(Places(r, r.name[r.head[i]])) = i
           /\ device_find(r, r.name[r.head[i]]) = r.head[i]
<1>1. Places(r, r.name[r.head[i]]) = {i}
  BY DEF Places, Orderly
<1>2. i \in Nat
  BY HeadType
<1>3. Min({i}) = i
  BY <1>2 DEF Min
<1> QED BY <1>1, <1>3 DEF device_find

LEMMA NotFound ==
    ASSUME NEW r, Orderly(r), "hash" \notin Range(r.head)
    PROVE  Places(r, "dev_check_hash") = {}
  BY DEF Places, Orderly, Range

LEMMA UnregisterHash ==
    ASSUME NEW r, Orderly(r)
    PROVE  LET u == device_unregister(r, "dev_check_hash")
           IN  Orderly(u) /\ "hash" \notin Range(u.head)
<1> DEFINE u == device_unregister(r, "dev_check_hash")
<1>1. CASE "hash" \notin Range(r.head)
  BY <1>1, NotFound DEF device_unregister
<1>2. CASE "hash" \in Range(r.head)
  <2>1. PICK i \in DOMAIN r.head : r.head[i] = "hash"
    BY <1>2 DEF Range
  <2>2. r.name["hash"] = "dev_check_hash"
    BY <2>1 DEF Orderly
  <2>3. /\ Places(r, "dev_check_hash") = {i} /\ Min(Places(r, "dev_check_hash")) = i
        /\ device_find(r, "dev_check_hash") = "hash"
    BY <2>1, <2>2, Finds
  <2> DEFINE h == RemoveAt(r.head, i)
  <2>4. u = [r EXCEPT !.head = h, !.status["hash"] = "UNREGISTER"]
    BY <2>3 DEF device_unregister
  <2>5. /\ u \in [head : Seq(Devs), name : [Devs -> Names], status : [Devs -> Status]]
        /\ u.head = h /\ u.name = r.name
        /\ u.status = [r.status EXCEPT !["hash"] = "UNREGISTER"]
    <3>1. h \in Seq(Devs)
      BY <2>1, HeadType, RemoveAtProperties
    <3>2. r \in [head : Seq(Devs), name : [Devs -> Names], status : [Devs -> Status]]
      BY DEF Orderly, Registry
    <3> HIDE DEF h, u
    <3>3. /\ u.head = h /\ u.name = r.name
          /\ u.status = [r.status EXCEPT !["hash"] = "UNREGISTER"]
      BY <2>4, <3>1, <3>2
    <3>4. u.status \in [Devs -> Status]
      BY <3>2, <3>3 DEF Status
    <3>5. u = [head |-> h, name |-> r.name, status |-> u.status]
      BY <2>4, <3>2, <3>3
    <3> QED BY <3>1, <3>2, <3>3, <3>4, <3>5
  <2>6. i \in 1 .. Len(r.head) /\ Len(r.head) \in Nat
    BY HeadType
  <2>7. /\ h \in Seq(Devs) /\ DOMAIN h = 1 .. Len(r.head) - 1
        /\ \A k \in DOMAIN h : h[k] = IF k < i THEN r.head[k] ELSE r.head[k + 1]
    <3>1. h \in Seq(Devs) /\ Len(h) = Len(r.head) - 1
      BY <2>6, HeadType, RemoveAtProperties
    <3>2. DOMAIN h = 1 .. Len(h)
      BY <3>1
    <3> QED BY <2>6, <3>1, <3>2, HeadType, RemoveAtProperties
  <2> HIDE DEF h, u
  <2> DEFINE old(k) == IF k < i THEN k ELSE k + 1
  <2>8. \A k \in DOMAIN h : old(k) \in DOMAIN r.head \ {i} /\ h[k] = r.head[old(k)]
    BY <2>6, <2>7, HeadType
  <2>9. \A k, m \in DOMAIN h : old(k) = old(m) => k = m
    BY <2>6, <2>7
  <2>10. \A k \in DOMAIN r.head \ {i} : \E m \in DOMAIN h : old(m) = k
    <3> TAKE k \in DOMAIN r.head \ {i}
    <3>1. k \in Nat /\ k >= 1 /\ k <= Len(r.head) /\ k # i
      BY HeadType
    <3>2. CASE k < i
      BY <2>6, <2>7, <3>1, <3>2
    <3>3. CASE k > i
      <4>1. k - 1 \in DOMAIN h /\ old(k - 1) = k
        BY <2>6, <2>7, <3>1, <3>3
      <4> QED BY <4>1
    <3> QED BY <2>6, <3>1, <3>2, <3>3
  <2> HIDE DEF old
  <2>11. Range(h) = Range(r.head) \ {"hash"}
    <3>1. \A k \in DOMAIN r.head : r.head[k] = "hash" => k = i
      BY <2>1 DEF Orderly
    <3> QED BY <2>1, <2>8, <2>10, <3>1 DEF Range
  <2>12. \A k, m \in DOMAIN h : r.name[h[k]] = r.name[h[m]] => k = m
    BY <2>8, <2>9 DEF Orderly
  <2>13. \A dev \in Devs : u.status[dev] = "UNREGISTER" <=> dev \notin Range(h)
    BY <2>5, <2>11, HeadType DEF Orderly
  <2>14. \A k \in DOMAIN h : r.name[h[k]] = "dev_check_hash" <=> h[k] = "hash"
    BY <2>8 DEF Orderly
  <2>15. "uart0" \in Range(h) /\ r.name["uart0"] = "debug_log"
    BY <2>11 DEF Orderly
  <2> QED BY <2>5, <2>11, <2>12, <2>13, <2>14, <2>15 DEF Orderly, Registry, u
<1> QED BY <1>1, <1>2

LEMMA RegisterHash ==
    ASSUME NEW r, Orderly(r), "hash" \notin Range(r.head)
    PROVE  LET n == device_register(r, "hash", "dev_check_hash")
           IN  /\ Orderly(n) /\ n.status["hash"] = "REGISTERED"
               /\ device_find(n, "dev_check_hash") = "hash"
<1> DEFINE n == device_register(r, "hash", "dev_check_hash")
           h == <<"hash">> \o r.head
<1>1. n = [head   |-> h,
           name   |-> [r.name EXCEPT !["hash"] = "dev_check_hash"],
           status |-> [r.status EXCEPT !["hash"] = "REGISTERED"]]
  BY DEF device_register
<1>2. Len(r.head) \in Nat
  BY HeadType
<1>3. /\ h \in Seq(Devs) /\ DOMAIN h = 1 .. Len(r.head) + 1 /\ h[1] = "hash"
      /\ \A k \in DOMAIN h : k # 1 => k - 1 \in DOMAIN r.head /\ h[k] = r.head[k - 1]
      /\ \A k \in DOMAIN r.head : k + 1 \in DOMAIN h /\ h[k + 1] = r.head[k]
  <2>1. <<"hash">> \in Seq(Devs) /\ Len(<<"hash">>) = 1 /\ <<"hash">>[1] = "hash"
    BY Facts
  <2>2. h \in Seq(Devs) /\ Len(h) = Len(r.head) + 1
    BY <1>2, <2>1, HeadType
  <2>3. DOMAIN h = 1 .. Len(r.head) + 1
    BY <2>2
  <2>4. h[1] = "hash"
    BY <1>2, <2>1, HeadType
  <2>5. \A k \in DOMAIN r.head : k + 1 \in DOMAIN h /\ h[k + 1] = r.head[k]
    BY <1>2, <2>1, <2>3, HeadType
  <2>6. \A k \in DOMAIN h : k # 1 => k - 1 \in DOMAIN r.head /\ h[k] = r.head[k - 1]
    <3> TAKE k \in DOMAIN h
    <3> HAVE k # 1
    <3>1. k - 1 \in DOMAIN r.head /\ (k - 1) + 1 = k
      BY <1>2, <2>3, HeadType
    <3> QED BY <2>5, <3>1
  <2> QED BY <2>2, <2>3, <2>4, <2>5, <2>6
<1> HIDE DEF h
<1>4. /\ n.head = h /\ n.status["hash"] = "REGISTERED" /\ n.name["hash"] = "dev_check_hash"
      /\ n.name \in [Devs -> Names] /\ n.status \in [Devs -> Status]
      /\ \A dev \in Devs \ {"hash"} : n.name[dev] = r.name[dev] /\ n.status[dev] = r.status[dev]
  <2> HIDE DEF n
  <2>1. /\ n.head = h /\ n.name = [r.name EXCEPT !["hash"] = "dev_check_hash"]
        /\ n.status = [r.status EXCEPT !["hash"] = "REGISTERED"]
    BY <1>1
  <2>2. r.name \in [Devs -> Names] /\ r.status \in [Devs -> Status]
    BY HeadType
  <2>3. "dev_check_hash" \in Names /\ "REGISTERED" \in Status
    BY DEF Names, Status
  <2> DEFINE a == n.name
             b == n.status
  <2>4. a = [r.name EXCEPT !["hash"] = "dev_check_hash"]
        /\ b = [r.status EXCEPT !["hash"] = "REGISTERED"]
    BY <2>1
  <2> HIDE DEF a, b
  <2>5. a \in [Devs -> Names] /\ a["hash"] = "dev_check_hash"
        /\ \A dev \in Devs \ {"hash"} : a[dev] = r.name[dev]
    BY <2>2, <2>3, <2>4, Facts
  <2>6. b \in [Devs -> Status] /\ b["hash"] = "REGISTERED"
        /\ \A dev \in Devs \ {"hash"} : b[dev] = r.status[dev]
    BY <2>2, <2>3, <2>4, Facts
  <2> QED BY <2>1, <2>5, <2>6 DEF a, b
<1>5. n \in Registry(Names)
  <2> HIDE DEF n
  <2>1. n = [head |-> h, name |-> n.name, status |-> n.status]
    BY <1>1
  <2> QED BY <1>3, <1>4, <2>1 DEF Registry
<1> HIDE DEF n
<1>6. Range(h) = Range(r.head) \cup {"hash"}
  BY <1>3 DEF Range
<1>7. \A k \in DOMAIN r.head : r.head[k] \in Devs \ {"hash"}
  BY HeadType DEF Range
<1>8. \A k \in DOMAIN h : k # 1 =>
        h[k] \in Devs \ {"hash"} /\ n.name[h[k]] = r.name[r.head[k - 1]]
  BY <1>3, <1>4, <1>7
<1>9. \A k \in DOMAIN h : n.name[h[k]] = "dev_check_hash" <=> k = 1
  BY <1>3, <1>4, <1>7, <1>8 DEF Orderly
<1>10. \A k, m \in DOMAIN h : n.name[h[k]] = n.name[h[m]] => k = m
  <2> TAKE k, m \in DOMAIN h
  <2> HAVE n.name[h[k]] = n.name[h[m]]
  <2>1. CASE k = 1 \/ m = 1
    BY <1>9, <2>1
  <2>2. CASE k # 1 /\ m # 1
    <3>1. k - 1 = m - 1
      BY <1>3, <1>8, <2>2 DEF Orderly
    <3> QED BY <1>2, <1>3, <3>1
  <2> QED BY <2>1, <2>2
<1>11. \A dev \in Devs : n.status[dev] = "UNREGISTER" <=> dev \notin Range(h)
  BY <1>4, <1>6 DEF Orderly
<1>12. \A k \in DOMAIN h : n.name[h[k]] = "dev_check_hash" <=> h[k] = "hash"
  BY <1>3, <1>8, <1>9
<1>13. "uart0" \in Range(h) /\ n.name["uart0"] = "debug_log"
  BY <1>4, <1>6, Facts DEF Orderly
<1>14. Orderly(n)
  BY <1>4, <1>5, <1>10, <1>11, <1>12, <1>13 DEF Orderly
<1>15. 1 \in DOMAIN n.head /\ n.head[1] = "hash"
  BY <1>2, <1>3, <1>4
<1>16. device_find(n, "dev_check_hash") = "hash"
  BY <1>4, <1>14, <1>15, Finds
<1> QED BY <1>4, <1>14, <1>16 DEF n

(* Status changes among the listed devices.                                *)
LEMMA StatusKeeps ==
    ASSUME NEW r, Orderly(r), NEW dev \in Devs, r.status[dev] # "UNREGISTER",
           NEW st \in Status \ {"UNREGISTER"}
    PROVE  Orderly([r EXCEPT !.status[dev] = st])
<1> DEFINE n == [r EXCEPT !.status[dev] = st]
<1>1. n \in Registry(Names) /\ n.head = r.head /\ n.name = r.name
      /\ n.status = [r.status EXCEPT ![dev] = st]
  BY DEF Orderly, Registry
<1> HIDE DEF n
<1>2. \A d \in Devs : n.status[d] = "UNREGISTER" <=> d \notin Range(n.head)
  BY <1>1, HeadType DEF Orderly
<1>3. Orderly(n)
  BY <1>1, <1>2 DEF Orderly
<1> QED BY <1>3 DEF n

LEMMA OpenKeeps ==
    ASSUME NEW r, Orderly(r), NEW dev \in Devs
    PROVE  Orderly(device_open(r, dev))
  BY StatusKeeps DEF device_open, MayOpen, Status

LEMMA CloseKeeps ==
    ASSUME NEW r, Orderly(r), NEW dev \in Devs
    PROVE  Orderly(device_close(r, dev))
  BY StatusKeeps DEF device_close, IsOpen, Status

(* Renewing the device succeeds whatever state it was left in.             *)
LEMMA RenewedOrderly ==
    ASSUME Orderly(reg)
    PROVE  /\ Orderly(Renewed) /\ device_find(Renewed, "dev_check_hash") = "hash"
           /\ Renewed.status["hash"] = "REGISTERED" /\ HashOpens
<1>1. /\ Orderly(Renewed) /\ device_find(Renewed, "dev_check_hash") = "hash"
      /\ Renewed.status["hash"] = "REGISTERED"
  BY UnregisterHash, RegisterHash DEF Renewed
<1> QED BY <1>1, Facts DEF HashOpens, MayOpen

LEMMA OpenHashOpens ==
    ASSUME Orderly(reg), OpenHash
    PROVE  /\ Orderly(reg') /\ dev_check_hash' = "hash" /\ IsOpen(reg', "hash")
           /\ shaCtx' = <<>>
<1>1. /\ Orderly(Renewed) /\ device_find(Renewed, "dev_check_hash") = "hash"
      /\ Renewed.status["hash"] = "REGISTERED" /\ HashOpens
  BY RenewedOrderly
<1>2. dev_check_hash' = "hash" /\ reg' = device_open(Renewed, "hash") /\ shaCtx' = <<>>
  BY <1>1 DEF OpenHash
<1>3. Orderly(reg')
  BY <1>1, <1>2, OpenKeeps, Facts
<1>4. reg'.status["hash"] = "OPENED"
  <2>1. reg' = [Renewed EXCEPT !.status["hash"] = "OPENED"]
    BY <1>1, <1>2, Facts DEF device_open, MayOpen
  <2> QED BY <1>1, <2>1, Facts DEF Orderly, Registry
<1> QED BY <1>2, <1>3, <1>4 DEF IsOpen

(* RegistryInv counts what Orderly says directly.                          *)
LEMMA OrderlyRegistry ==
    ASSUME Orderly(reg) PROVE RegistryInv
<1>1. ASSUME NEW dev \in Devs
      PROVE  Cardinality({i \in DOMAIN reg.head : reg.head[i] = dev}) =
                IF reg.status[dev] = "UNREGISTER" THEN 0 ELSE 1
  <2> DEFINE P == {i \in DOMAIN reg.head : reg.head[i] = dev}
  <2>1. CASE reg.status[dev] = "UNREGISTER"
    <3>1. P = {}
      BY <2>1 DEF Orderly, Range
    <3> QED BY <2>1, <3>1, FS_EmptySet
  <2>2. CASE reg.status[dev] # "UNREGISTER"
    <3>1. PICK i \in DOMAIN reg.head : reg.head[i] = dev
      BY <2>2 DEF Orderly, Range
    <3>2. P = {i}
      BY <3>1 DEF Orderly
    <3> QED BY <2>2, <3>2, FS_Singleton
  <2> QED BY <2>1, <2>2
<1>2. ASSUME NEW dev \in Range(reg.head) PROVE device_find(reg, reg.name[dev]) = dev
  BY Finds DEF Range
<1> QED BY <1>1, <1>2 DEF RegistryInv

-----------------------------------------------------------------------------
(* What is hashed.                                                         *)

LEMMA ImageType ==
    ASSUME img \in Images
    PROVE  /\ img.img_len \in Nat /\ img.content \in Seq(ImageWords) /\ img.hash \in Seq(Data)
           /\ {img.notLoadInBoot, img.magicCode, img.encrypt_type, img.sign,
               img.hash_ignore, img.no_segment} \subseteq BOOLEAN
           /\ img.pk \in {"efuse", "other", "damaged"}
           /\ img.sig \in {"whole", "foreign", "long", "damaged"} /\ img.iv \in {"whole", "damaged"}
  BY ImageAssumption DEF Image

LEMMA WordType ==
    ASSUME img \in Images, NEW i \in Nat \ {0} PROVE Word(i) \in Data
<1>1. img.content \in Seq(ImageWords)
  BY ImageType
<1>2. CASE i <= Len(img.content)
  <2>1. i \in 1 .. Len(img.content)
    BY <1>1, <1>2
  <2>2. img.content[i] \in Data
    BY <1>1, <2>1 DEF Data
  <2> QED BY <1>2, <2>2 DEF Word
<1>3. CASE ~ (i <= Len(img.content))
  <2>1. "unknown" \in Data
    BY DEF Data
  <2> QED BY <1>3, <2>1, Zenon DEF Word
<1> QED BY <1>2, <1>3

Prefix == IF img.encrypt_type THEN <<"iv">> ELSE <<>>
Words(m, n) == [i \in 1 .. n |-> Word(m + i)]

LEMMA WordsType ==
    ASSUME img \in Images, NEW m \in Nat, NEW n \in Nat
    PROVE  /\ Words(m, n) \in Seq(Data) /\ Len(Words(m, n)) = n
           /\ \A i \in 1 .. n : Words(m, n)[i] = Word(m + i)
<1>1. \A i \in 1 .. n : Word(m + i) \in Data
  BY WordType
<1> QED BY <1>1 DEF Words

LEMMA Single == \A S : \A x \in S : <<x>> \in Seq(S)
  OBVIOUS

LEMMA PrefixType == Prefix \in Seq(Data)
<1>1. "iv" \in Data
  BY DEF Data
<1>2. <<>> \in Seq(Data)
  OBVIOUS
<1>3. <<"iv">> \in Seq(Data)
  BY <1>1, Single, Zenon
<1> QED BY <1>2, <1>3, Zenon DEF Prefix

LEMMA HashedIs ==
    ASSUME img \in Images, NEW n \in Nat
    PROVE  /\ Hashed(n) = Prefix \o Words(0, n)
           /\ Prefix \in Seq(Data) /\ Hashed(n) \in Seq(Data)
<1>1. [i \in 1 .. n |-> Word(i)] = Words(0, n)
  BY DEF Words
<1>2. Prefix \in Seq(Data)
  BY PrefixType
<1>3. Hashed(n) = Prefix \o Words(0, n)
  BY <1>1 DEF Hashed, Prefix
<1> QED BY <1>2, <1>3, WordsType, ConcatProperties

LEMMA HashedNone ==
    ASSUME img \in Images PROVE Hashed(0) = Prefix
<1>1. Words(0, 0) = <<>>
  BY WordsType, EmptySeq
<1> QED BY <1>1, HashedIs, ConcatEmptySeq

(* Hashing the next words makes the hash one of so many words more.        *)
LEMMA HashedGrows ==
    ASSUME img \in Images, NEW m \in Nat, NEW n \in Nat
    PROVE  Hashed(m) \o Words(m, n) = Hashed(m + n)
<1> DEFINE a == Words(0, m)
           b == Words(m, n)
           c == Words(0, m + n)
<1>1. /\ a \in Seq(Data) /\ Len(a) = m /\ b \in Seq(Data) /\ Len(b) = n
      /\ c \in Seq(Data) /\ Len(c) = m + n
  <2>1. 0 \in Nat /\ m + n \in Nat
    OBVIOUS
  <2> QED BY <2>1, WordsType, Zenon
<1>2. a \o b \in Seq(Data) /\ Len(a \o b) = m + n
  <2> HIDE DEF a, b
  <2> QED BY <1>1, ConcatProperties
<1>3. ASSUME NEW i \in 1 .. m + n PROVE (a \o b)[i] = c[i]
  <2>1. CASE i <= m
    <3>1. a[i] = Word(0 + i) /\ c[i] = Word(0 + i)
      <4>1. 0 \in Nat /\ m + n \in Nat /\ i \in 1 .. m
        BY <2>1
      <4> QED BY <4>1, WordsType, Zenon
    <3> HIDE DEF a, b, c
    <3>2. (a \o b)[i] = a[i]
      BY <1>1, <2>1, ConcatProperties
    <3> QED BY <3>1, <3>2
  <2>2. CASE ~ (i <= m)
    <3>1. i - m \in 1 .. n /\ m + (i - m) = 0 + i
      BY <2>2
    <3>2. b[i - m] = Word(m + (i - m)) /\ c[i] = Word(0 + i)
      <4>1. 0 \in Nat /\ m + n \in Nat
        OBVIOUS
      <4> QED BY <3>1, <4>1, WordsType, Zenon
    <3> HIDE DEF a, b, c
    <3>3. (a \o b)[i] = b[i - m]
      BY <1>1, <2>2, ConcatProperties
    <3> QED BY <3>1, <3>2, <3>3
  <2> QED BY <2>1, <2>2
<1>4. a \o b = c
  <2> HIDE DEF a, b, c
  <2> QED BY <1>1, <1>2, <1>3, SeqEqual
<1>5. (Prefix \o a) \o b = Prefix \o (a \o b)
  <2> HIDE DEF a, b
  <2>1. Prefix \in Seq(Data) /\ a \in Seq(Data) /\ b \in Seq(Data)
    BY <1>1, PrefixType
  <2> QED BY <2>1, ConcatAssociative
<1>6. m + n \in Nat
  OBVIOUS
<1>7. Hashed(m) = Prefix \o a /\ Hashed(m + n) = Prefix \o c
  BY <1>6, HashedIs, Zenon
<1> QED BY <1>4, <1>5, <1>7, Zenon

-----------------------------------------------------------------------------
(* The inductive invariant: what has been checked at each point.           *)

Parsed == {"pkey", "sig", "iv", "hash", "noseg", "check"}

PassedInv ==
    /\ pc \in Parsed \cup {"header"} => ~ img_valid /\ ~ ret
    /\ pc \in {"header", "pkey", "sig", "iv", "noseg"} => deal_len = 0
    /\ pc \in Parsed => HeaderOK /\ (hash_ignore <=> HashIgnored)
    /\ pc \in {"pkey", "sig"} => img.sign
    /\ pc \in Parsed \ {"pkey"} => (img.sign => img.pk = "efuse")
    /\ pc \in Parsed \ {"pkey", "sig"} => (img.sign => WellFormed)
    /\ pc = "iv" => img.encrypt_type
    /\ pc \in {"hash", "noseg", "check"} => (img.encrypt_type => img.iv = "whole")
    /\ pc \in {"hash", "check"} => img.no_segment
    /\ pc = "noseg" => ~ img.no_segment
    /\ pc = "check" => ~ hash_ignore /\ img.hash = Hashed(img.img_len)

IInv == TypeOK /\ Orderly(reg) /\ DigestInv /\ PassedInv /\ VerdictRight

LEMMA InitIInv == ASSUME Init PROVE IInv
<1>1. "uart0" \in Devs /\ "uart1" \in Devs /\ "uart0" # "hash"
  BY Facts
<1>2. /\ reg.head = <<"uart1", "uart0">>
      /\ reg.name = [dev \in Devs |-> CASE dev = "uart0" -> "debug_log"
                                        [] dev = "uart1" -> "uart_debug"
                                        [] OTHER -> ""]
      /\ reg.status = [dev \in Devs |-> IF dev \in {"uart0", "uart1"}
                                        THEN "OPENED" ELSE "UNREGISTER"]
  BY DEF Init
<1>3. reg.name["uart0"] = "debug_log" /\ reg.name["uart1"] = "uart_debug"
  BY <1>1, <1>2
<1>4. reg.name \in [Devs -> Names]
  BY <1>2 DEF Names
<1>5. reg.status \in [Devs -> Status]
  BY <1>2 DEF Status
<1>6. /\ reg.head \in Seq(Devs) /\ DOMAIN reg.head = {1, 2}
      /\ reg.head[1] = "uart1" /\ reg.head[2] = "uart0"
  <2>1. DOMAIN <<"uart1", "uart0">> = 1 .. 2 /\ 1 .. 2 = {1, 2}
    OBVIOUS
  <2>2. <<"uart1", "uart0">> \in Seq(Devs)
    BY <1>1
  <2> DEFINE s == <<"uart1", "uart0">>
  <2>3. s[1] = "uart1" /\ s[2] = "uart0"
    OBVIOUS
  <2>4. reg.head = s
    BY <1>2
  <2> HIDE DEF s
  <2> QED BY <2>1, <2>2, <2>3, <2>4, Zenon DEF s
<1>7. Range(reg.head) = {"uart0", "uart1"}
  BY <1>6 DEF Range
<1>8. reg \in Registry(Names)
  <2>1. reg = [head |-> reg.head, name |-> reg.name, status |-> reg.status]
    BY DEF Init
  <2> QED BY <1>4, <1>5, <1>6, <2>1 DEF Registry
<1>9. Orderly(reg)
  <2>1. \A i, j \in DOMAIN reg.head : reg.name[reg.head[i]] = reg.name[reg.head[j]] => i = j
    BY <1>3, <1>6
  <2>2. \A i \in DOMAIN reg.head : reg.name[reg.head[i]] # "dev_check_hash" /\ reg.head[i] # "hash"
    BY <1>3, <1>6
  <2>3. \A dev \in Devs : reg.status[dev] = "UNREGISTER" <=> dev \notin Range(reg.head)
    BY <1>2, <1>7
  <2> QED BY <1>3, <1>7, <1>8, <2>1, <2>2, <2>3 DEF Orderly
<1>10. TypeOK
  <2>1. shaCtx \in Seq(Data)
    <3>1. shaCtx = <<>>
      BY Zenon DEF Init
    <3> QED BY <3>1
  <2>2. deal_len \in Nat /\ dev_check_hash \in {"hash", NULL}
    BY DEF Init
  <2> QED BY <1>8, <2>1, <2>2, Zenon DEF Init, TypeOK
<1> QED BY <1>9, <1>10 DEF Init, IInv, DigestInv, PassedInv, Parsed, VerdictRight

(* The parts of TypeOK that only few actions touch.                        *)
ChipType ==
    /\ g_efuse_cfg \in [sign : BOOLEAN, encrypted : BOOLEAN, hbn_check_sign : BOOLEAN]
    /\ hbn \in BOOLEAN /\ g_user_hash_ignored \in BOOLEAN /\ mfg_mode_flag \in BOOLEAN

LEMMA TryKeeps == ASSUME IInv, Try PROVE IInv'
<1>1. img' \in Images /\ img'.img_len \in Nat
  BY ImageAssumption DEF Try, Image
<1>2. (g_user_hash_ignored \in BOOLEAN)' /\ (mfg_mode_flag \in BOOLEAN)'
  BY Zenon DEF IInv, TypeOK, Try
<1>3. TypeOK'
  <2>1. deal_len' \in 0 .. img'.img_len
    BY <1>1 DEF Try
  <2>2. (deal_len \in Nat)'
    BY DEF Try
  <2> QED BY <1>1, <1>2, <2>1, <2>2, Zenon DEF IInv, TypeOK, Try, chip, device
<1> QED BY <1>3 DEF IInv, Orderly, DigestInv, PassedInv, Parsed, VerdictRight, Try, device

LEMMA ParsingType ==
    ASSUME IInv, pc \in Parsed \cup {"header"}
    PROVE  /\ img \in Images /\ deal_len \in 0 .. img.img_len /\ img.img_len \in Nat
           /\ Orderly(reg) /\ ~ img_valid /\ ~ ret /\ shaCtx \in Seq(Data)
           /\ pc # "header" /\ pc # "check" => dev_check_hash = "hash" /\ IsOpen(reg, "hash")
<1>1. img \in Images /\ deal_len \in 0 .. img.img_len
  BY DEF IInv, TypeOK, Parsed
<1> QED BY <1>1, ImageType DEF IInv, TypeOK, PassedInv, DigestInv, Parsed

(* The two ways out: an image that is not acceptable is turned down, one    *)
(* that is acceptable is not.                                              *)
LEMMA FailKeeps ==
    ASSUME IInv, pc \in Parsed \cup {"header"}, Fail, ~ Acceptable,
           UNCHANGED <<g_efuse_cfg, hbn, g_user_hash_ignored, mfg_mode_flag, img,
                       hash_ignore, img_valid, deal_len>>,
           Orderly(reg'), dev_check_hash' \in {"hash", NULL}, shaCtx' \in Seq(Data)
    PROVE  IInv'
<1>1. img \in Images /\ deal_len \in 0 .. img.img_len
  BY ParsingType
<1>2. pc' = "main" /\ ret' = FALSE /\ reg' \in Registry(Names)
  BY DEF Fail, Orderly
<1>3. TypeOK'
  BY <1>1, <1>2 DEF TypeOK, IInv
<1>4. ~ Acceptable'
  BY <1>1 DEF Acceptable, Sound, HashMatches, FitsChip, PartsIntact, WellFormed, AsksForNoHash,
                  WakesUnchecked, Hashed, Word
<1>5. img_valid' = FALSE
  <2>1. ~ img_valid /\ img_valid \in BOOLEAN
    BY ParsingType DEF IInv, TypeOK
  <2> QED BY <2>1
<1>6. VerdictRight'
  <2>1. ret' = Acceptable'
    BY <1>2, <1>4 DEF Acceptable, Sound, HashMatches
  <2>2. img_valid' = (ret' /\ img'.no_segment)
    BY <1>2, <1>5, Zenon
  <2> QED BY <2>1, <2>2, Zenon DEF VerdictRight
<1> QED BY <1>2, <1>3, <1>6 DEF IInv, DigestInv, PassedInv, Parsed

LEMMA PassKeeps ==
    ASSUME IInv, pc \in Parsed, Acceptable, pc' = "main", ret' = TRUE,
           img_valid' = img.no_segment,
           UNCHANGED <<g_efuse_cfg, hbn, g_user_hash_ignored, mfg_mode_flag, img,
                       hash_ignore, deal_len, reg, dev_check_hash, shaCtx>>
    PROVE  IInv'
<1>1. img \in Images /\ deal_len \in 0 .. img.img_len /\ img.no_segment \in BOOLEAN
  BY ParsingType, ImageType
<1>2. TypeOK'
  BY <1>1 DEF TypeOK, IInv
<1>3. Acceptable'
  BY <1>1 DEF Acceptable, Sound, HashMatches, FitsChip, PartsIntact, WellFormed, AsksForNoHash,
                  WakesUnchecked, Hashed, Word
<1>4. VerdictRight'
  <2>1. ret' = Acceptable'
    BY <1>3 DEF Acceptable, Sound, HashMatches
  <2>2. img_valid' = (ret' /\ img'.no_segment)
    BY <1>1
  <2> QED BY <2>1, <2>2, Zenon DEF VerdictRight
<1> QED BY <1>2, <1>4 DEF IInv, DigestInv, PassedInv, Parsed

LEMMA ParseHeaderKeeps == ASSUME IInv, ParseHeader PROVE IInv'
<1>1. pc = "header" /\ deal_len = 0
  BY DEF ParseHeader, IInv, PassedInv
<1>2. /\ img \in Images /\ Orderly(reg) /\ ~ img_valid /\ ~ ret /\ img.img_len \in Nat
      /\ shaCtx \in Seq(Data)
  BY <1>1, ParsingType
<1>3. UNCHANGED <<g_efuse_cfg, hbn, g_user_hash_ignored, mfg_mode_flag, img, img_valid, deal_len>>
  BY DEF ParseHeader, chip, request
<1>4. CASE HeaderOK
  <2>1. /\ Orderly(reg') /\ dev_check_hash' = "hash" /\ IsOpen(reg', "hash")
        /\ shaCtx' = <<>>
    BY <1>2, <1>4, OpenHashOpens DEF ParseHeader
  <2>2. /\ pc' = (IF img.sign THEN "pkey" ELSE AfterKey)
        /\ hash_ignore' = HashIgnored /\ ret' = ret
    BY <1>2, <1>4, RenewedOrderly DEF ParseHeader
  <2>3. (hash_ignore \in BOOLEAN)' /\ (hash_ignore' <=> HashIgnored)
    BY <2>2, Zenon DEF HashIgnored
  <2>4. TypeOK'
    <3>1. reg' \in Registry(Names)
      BY <2>1 DEF Orderly
    <3>2. (hash_ignore \in BOOLEAN)'
      BY <2>3, Zenon
    <3>3. (pc \in {"window", "header", "pkey", "sig", "iv", "hash", "check",
               "noseg", "main", "again", "select", "poll", "forever", "app", "stay"})'
          /\ (pc \notin {"window", "select"})'
      BY <2>2 DEF AfterKey
    <3> QED BY <1>1, <1>2, <1>3, <2>1, <2>2, <3>1, <3>2, <3>3 DEF TypeOK, IInv
  <2>5. DigestInv'
    <3>1. pc' = "hash" => shaCtx' = Hashed(0)
      BY <1>2, <2>1, <2>2, HashedNone DEF AfterKey, Prefix
    <3>2. Hashed(0)' = Hashed(0)
      BY <1>3 DEF Hashed, Word
    <3> QED BY <1>1, <1>3, <2>1, <3>1, <3>2 DEF DigestInv
  <2>6. PassedInv'
    <3>1. HeaderOK' /\ (HashIgnored' <=> HashIgnored)
      BY <1>3, <1>4 DEF HeaderOK, HashIgnored
    <3> QED BY <1>1, <1>2, <1>3, <2>2, <2>3, <3>1, ImageType DEF PassedInv, Parsed, AfterKey
  <2>7. VerdictRight'
    BY <2>2 DEF VerdictRight, AfterKey
  <2> QED BY <2>1, <2>4, <2>5, <2>6, <2>7 DEF IInv
<1>5. CASE ~ HeaderOK
  <2>1. UNCHANGED <<reg, dev_check_hash, shaCtx, hash_ignore>> /\ Fail
    BY <1>5 DEF ParseHeader, device
  <2>2. ~ Acceptable
    BY <1>2, <1>5, ImageType DEF HeaderOK, Acceptable, Sound, HashMatches, FitsChip
  <2>3. dev_check_hash \in {"hash", NULL}
    BY DEF IInv, TypeOK
  <2> QED BY <1>1, <1>2, <1>3, <2>1, <2>2, <2>3, FailKeeps
<1> QED BY <1>4, <1>5

LEMMA ParseKeyKeeps == ASSUME IInv, ParseKey PROVE IInv'
<1>1. pc = "pkey"
  BY DEF ParseKey
<1>2. /\ img \in Images /\ Orderly(reg) /\ ~ img_valid /\ ~ ret /\ img.img_len \in Nat
      /\ shaCtx \in Seq(Data) /\ img.sign /\ deal_len = 0
      /\ HeaderOK /\ (hash_ignore <=> HashIgnored)
  BY <1>1, ParsingType DEF IInv, PassedInv, Parsed
<1>3. UNCHANGED <<g_efuse_cfg, hbn, g_user_hash_ignored, mfg_mode_flag, img, hash_ignore,
                  img_valid, deal_len>>
  BY DEF ParseKey, chip, request
<1>4. CASE KeyValid
  <2>1. img.pk = "efuse"
    BY <1>4 DEF KeyValid
  <2>2. /\ Orderly(reg') /\ dev_check_hash' = "hash" /\ IsOpen(reg', "hash")
        /\ shaCtx' = <<>>
    BY <1>2, <2>1, OpenHashOpens DEF ParseKey
  <2>3. pc' = "sig" /\ ret' = ret
    BY <1>2, <1>4, RenewedOrderly DEF ParseKey
  <2>4. reg' \in Registry(Names)
    BY <2>2 DEF Orderly
  <2>5. TypeOK'
    BY <1>1, <1>2, <1>3, <2>2, <2>3, <2>4 DEF TypeOK, IInv
  <2>6. HeaderOK' /\ (HashIgnored' <=> HashIgnored)
    BY <1>2, <1>3 DEF HeaderOK, HashIgnored
  <2> QED BY <1>1, <1>2, <1>3, <2>1, <2>2, <2>3, <2>5, <2>6
          DEF IInv, DigestInv, PassedInv, Parsed, VerdictRight
<1>5. CASE ~ KeyValid
  <2>1. /\ Orderly(reg') /\ dev_check_hash' \in {"hash", NULL} /\ shaCtx' \in Seq(Data)
    <3>1. CASE img.pk # "damaged"
      BY <1>2, <3>1, OpenHashOpens DEF ParseKey
    <3>2. CASE img.pk = "damaged"
      BY <1>2, <3>2 DEF ParseKey, device, IInv, TypeOK
    <3> QED BY <3>1, <3>2
  <2>2. Fail
    BY <1>5 DEF ParseKey
  <2>3. ~ Acceptable
    BY <1>2, <1>5 DEF KeyValid, Acceptable, Sound, HashMatches, PartsIntact
  <2> QED BY <1>1, <1>3, <2>1, <2>2, <2>3, FailKeeps DEF Parsed
<1> QED BY <1>4, <1>5

LEMMA ParseSignatureKeeps == ASSUME IInv, ParseSignature PROVE IInv'
<1>1. pc = "sig"
  BY DEF ParseSignature
<1>2. /\ img \in Images /\ Orderly(reg) /\ ~ img_valid /\ ~ ret /\ img.img_len \in Nat
      /\ shaCtx = <<>> /\ img.sign /\ img.pk = "efuse" /\ deal_len = 0
      /\ HeaderOK /\ (hash_ignore <=> HashIgnored)
      /\ dev_check_hash = "hash" /\ IsOpen(reg, "hash")
  BY <1>1, ParsingType DEF IInv, PassedInv, Parsed, DigestInv
<1>3. UNCHANGED <<g_efuse_cfg, hbn, g_user_hash_ignored, mfg_mode_flag, img, hash_ignore,
                  img_valid, deal_len, reg, dev_check_hash, shaCtx>>
  BY DEF ParseSignature, chip, request, device
<1>4. CASE WellFormed
  <2>1. pc' = AfterKey /\ ret' = ret
    BY <1>4 DEF ParseSignature, SignatureRead, WellFormed
  <2>2. TypeOK'
    BY <1>1, <1>2, <1>3, <2>1 DEF TypeOK, IInv, AfterKey
  <2>3. HeaderOK' /\ (HashIgnored' <=> HashIgnored)
    BY <1>2, <1>3 DEF HeaderOK, HashIgnored
  <2>4. pc' = "hash" => shaCtx = Hashed(0)
    BY <1>2, <2>1, HashedNone DEF AfterKey, Prefix
  <2>5. Hashed(0)' = Hashed(0)
    BY <1>3 DEF Hashed, Word
  <2>6. DigestInv'
    BY <1>1, <1>2, <1>3, <2>1, <2>4, <2>5 DEF DigestInv, AfterKey
  <2>7. PassedInv'
    BY <1>1, <1>2, <1>3, <1>4, <2>1, <2>3, ImageType DEF PassedInv, WellFormed, Parsed, AfterKey
  <2>8. VerdictRight'
    BY <2>1 DEF VerdictRight, AfterKey
  <2> QED BY <1>2, <1>3, <2>2, <2>6, <2>7, <2>8 DEF IInv
<1>5. CASE ~ WellFormed
  <2>1. Fail
    BY <1>2, <1>5, ImageType DEF ParseSignature, SignatureRead, WellFormed
  <2>2. ~ Acceptable
    BY <1>2, <1>5 DEF Acceptable, Sound, HashMatches, PartsIntact
  <2>3. dev_check_hash \in {"hash", NULL} /\ shaCtx \in Seq(Data)
    BY DEF IInv, TypeOK
  <2> QED BY <1>1, <1>2, <1>3, <2>1, <2>2, <2>3, FailKeeps DEF Parsed
<1> QED BY <1>4, <1>5

LEMMA ParseIVKeeps == ASSUME IInv, ParseIV PROVE IInv'
<1>1. pc = "iv"
  BY DEF ParseIV
<1>2. /\ img \in Images /\ Orderly(reg) /\ ~ img_valid /\ ~ ret /\ img.img_len \in Nat
      /\ shaCtx = <<>> /\ img.encrypt_type /\ deal_len = 0
      /\ (img.sign => img.pk = "efuse") /\ (img.sign => WellFormed)
      /\ HeaderOK /\ (hash_ignore <=> HashIgnored)
      /\ dev_check_hash = "hash" /\ IsOpen(reg, "hash")
  BY <1>1, ParsingType DEF IInv, PassedInv, Parsed, DigestInv
<1>3. UNCHANGED <<g_efuse_cfg, hbn, g_user_hash_ignored, mfg_mode_flag, img, hash_ignore,
                  img_valid, deal_len, reg, dev_check_hash>>
  BY DEF ParseIV, chip, request
<1>4. CASE img.iv = "whole"
  <2>1. pc' = (IF img.no_segment THEN "hash" ELSE "noseg") /\ ret' = ret
    BY <1>4 DEF ParseIV
  <2>2. shaCtx' = IF hash_ignore THEN <<>> ELSE <<"iv">>
    <3>1. "iv" \in Data
      BY DEF Data
    <3>2. <<"iv">> \in Seq(Data)
      BY <3>1, Single, Zenon
    <3>3. <<>> \o <<"iv">> = <<"iv">>
      BY <3>2, ConcatEmptySeq
    <3>4. shaCtx' = IF hash_ignore THEN shaCtx ELSE Written(<<"iv">>)
      BY <1>4 DEF ParseIV
    <3> QED BY <1>2, <3>3, <3>4 DEF Written
  <2>3. shaCtx' \in Seq(Data)
    <3>1. "iv" \in Data
      BY DEF Data
    <3>2. <<"iv">> \in Seq(Data) /\ <<>> \in Seq(Data)
      BY <3>1, Single
    <3> QED BY <2>2, <3>2
  <2>4. TypeOK'
    BY <1>1, <1>2, <1>3, <2>1, <2>3 DEF TypeOK, IInv
  <2>5. HeaderOK' /\ (HashIgnored' <=> HashIgnored)
    BY <1>2, <1>3 DEF HeaderOK, HashIgnored
  <2>6. ~ hash_ignore => shaCtx' = Hashed(0)
    BY <1>2, <2>2, HashedNone DEF Prefix
  <2>7. Hashed(0)' = Hashed(0)
    BY <1>3 DEF Hashed, Word
  <2>8. DigestInv'
    BY <1>1, <1>2, <1>3, <2>1, <2>6, <2>7 DEF DigestInv
  <2>9. PassedInv'
    BY <1>1, <1>2, <1>3, <1>4, <2>1, <2>5, ImageType DEF PassedInv, WellFormed, Parsed
  <2>10. VerdictRight'
    BY <2>1 DEF VerdictRight
  <2> QED BY <1>2, <1>3, <2>4, <2>8, <2>9, <2>10 DEF IInv
<1>5. CASE img.iv # "whole"
  <2>1. Fail /\ shaCtx' = shaCtx
    BY <1>5 DEF ParseIV
  <2>2. ~ Acceptable
    BY <1>2, <1>5 DEF Acceptable, Sound, HashMatches, PartsIntact
  <2>3. dev_check_hash \in {"hash", NULL} /\ shaCtx \in Seq(Data)
    BY DEF IInv, TypeOK
  <2> QED BY <1>1, <1>2, <1>3, <2>1, <2>2, <2>3, FailKeeps DEF Parsed
<1> QED BY <1>4, <1>5

LEMMA CalHashKeeps == ASSUME IInv, CalHash PROVE IInv'
<1>1. pc = "hash" /\ ~ hash_ignore /\ deal_len < img.img_len
  BY DEF CalHash
<1>2. /\ img \in Images /\ img.img_len \in Nat /\ deal_len \in 0 .. img.img_len
      /\ shaCtx = Hashed(deal_len) /\ dev_check_hash = "hash" /\ IsOpen(reg, "hash")
  BY <1>1, ParsingType DEF IInv, Parsed, DigestInv
<1>3. UNCHANGED <<g_efuse_cfg, hbn, g_user_hash_ignored, mfg_mode_flag, img, hash_ignore,
                  img_valid, ret, reg, dev_check_hash, pc>>
  BY DEF CalHash, chip, request
<1>4. ReadLen \in Nat /\ deal_len + ReadLen \in 0 .. img.img_len /\ deal_len \in Nat
  BY <1>1, <1>2, ImageAssumption DEF ReadLen
<1>5. deal_len' = deal_len + ReadLen /\ shaCtx' = shaCtx \o Words(deal_len, ReadLen)
  BY <1>2 DEF CalHash, Written, Words
<1> HIDE DEF ReadLen
<1>6. shaCtx' = Hashed(deal_len + ReadLen)
  BY <1>2, <1>4, <1>5, HashedGrows
<1>7. shaCtx' \in Seq(Data)
  BY <1>2, <1>4, <1>6, HashedIs
<1>8. TypeOK'
  BY <1>1, <1>2, <1>3, <1>4, <1>5, <1>7 DEF TypeOK, IInv
<1>9. \A n : Hashed(n)' = Hashed(n)
  BY <1>3 DEF Hashed, Word
<1>10. DigestInv'
  BY <1>1, <1>2, <1>3, <1>5, <1>6, <1>9 DEF DigestInv
<1>11. HeaderOK' /\ (HashIgnored' <=> HashIgnored)
  BY <1>1, <1>3 DEF IInv, PassedInv, Parsed, HeaderOK, HashIgnored
<1>12. PassedInv'
  BY <1>1, <1>3, <1>11 DEF IInv, PassedInv, WellFormed, Parsed
<1> QED BY <1>1, <1>3, <1>8, <1>10, <1>12 DEF IInv, VerdictRight

LEMMA CheckHashKeeps == ASSUME IInv, CheckHash PROVE IInv'
<1>1. pc = "hash" /\ ~ hash_ignore /\ deal_len >= img.img_len
  BY DEF CheckHash
<1>2. /\ img \in Images /\ img.img_len \in Nat /\ deal_len = img.img_len
      /\ shaCtx = Hashed(img.img_len) /\ dev_check_hash = "hash" /\ Orderly(reg)
      /\ ~ img_valid /\ ~ ret /\ shaCtx \in Seq(Data)
  BY <1>1, ParsingType DEF IInv, Parsed, DigestInv
<1>3. UNCHANGED <<g_efuse_cfg, hbn, g_user_hash_ignored, mfg_mode_flag, img, hash_ignore,
                  img_valid, deal_len, dev_check_hash, shaCtx>>
  BY DEF CheckHash, chip, request
<1>4. Orderly(reg')
  <2>1. reg' = device_unregister(device_close(reg, "hash"), "dev_check_hash")
    BY <1>2 DEF CheckHash
  <2> QED BY <1>2, <2>1, CloseKeeps, UnregisterHash, Facts
<1>5. /\ HeaderOK /\ (hash_ignore <=> HashIgnored) /\ img.no_segment
      /\ (img.sign => img.pk = "efuse") /\ (img.sign => WellFormed)
      /\ (img.encrypt_type => img.iv = "whole")
  BY <1>1 DEF IInv, PassedInv, Parsed
<1>6. CASE shaCtx = img.hash
  <2>1. pc' = "check" /\ ret' = ret
    BY <1>6 DEF CheckHash
  <2>2. reg' \in Registry(Names)
    BY <1>4 DEF Orderly
  <2>3. TypeOK'
    BY <1>1, <1>2, <1>3, <2>1, <2>2 DEF TypeOK, IInv
  <2>4. HeaderOK' /\ (HashIgnored' <=> HashIgnored) /\ Hashed(img.img_len)' = Hashed(img.img_len)
    BY <1>3, <1>5 DEF HeaderOK, HashIgnored, Hashed, Word
  <2>5. PassedInv'
    BY <1>1, <1>2, <1>3, <1>5, <1>6, <2>1, <2>4 DEF PassedInv, WellFormed, Parsed
  <2> QED BY <1>4, <2>1, <2>3, <2>5 DEF IInv, DigestInv, VerdictRight
<1>7. CASE shaCtx # img.hash
  <2>1. Fail
    BY <1>7 DEF CheckHash
  <2>2. ~ (AsksForNoHash \/ WakesUnchecked \/ g_user_hash_ignored)
    BY <1>1, <1>2, <1>5, ImageType DEF HashIgnored, AsksForNoHash, WakesUnchecked, HeaderOK
  <2>3. ~ Acceptable
    BY <1>2, <1>5, <1>7, <2>2 DEF Acceptable, Sound, HashMatches
  <2> QED BY <1>1, <1>2, <1>3, <1>4, <2>1, <2>3, FailKeeps DEF Parsed
<1> QED BY <1>6, <1>7

LEMMA CheckSignatureKeeps == ASSUME IInv, CheckSignature PROVE IInv'
<1>1. pc = "check" \/ (pc = "hash" /\ hash_ignore)
  BY DEF CheckSignature
<1>2. /\ img \in Images /\ img.img_len \in Nat /\ deal_len \in 0 .. img.img_len
      /\ HeaderOK /\ (hash_ignore <=> HashIgnored) /\ img.no_segment
      /\ (img.sign => img.pk = "efuse") /\ (img.sign => WellFormed)
      /\ (img.encrypt_type => img.iv = "whole")
  BY <1>1, ParsingType DEF IInv, PassedInv, Parsed
<1>3. UNCHANGED <<g_efuse_cfg, hbn, g_user_hash_ignored, mfg_mode_flag, img, hash_ignore,
                  deal_len, reg, dev_check_hash, shaCtx>>
      /\ img_valid' = TRUE /\ ret' = TRUE /\ pc' = "main"
  BY DEF CheckSignature, chip, request, device
<1>4. \/ AsksForNoHash \/ WakesUnchecked \/ g_user_hash_ignored
      \/ img.hash = Hashed(img.img_len)
  <2>1. CASE pc = "check"
    BY <2>1 DEF IInv, PassedInv
  <2>2. CASE pc = "hash" /\ hash_ignore
    BY <1>2, <2>2, ImageType DEF HashIgnored, AsksForNoHash, WakesUnchecked, HeaderOK
  <2> QED BY <1>1, <2>1, <2>2
<1>5. Acceptable
  BY <1>2, <1>4, ImageType DEF Acceptable, Sound, HashMatches, HeaderOK, FitsChip, PartsIntact
<1> QED BY <1>1, <1>2, <1>3, <1>5, PassKeeps DEF Parsed

LEMMA NoSegmentKeeps == ASSUME IInv, NoSegment PROVE IInv'
<1>1. pc = "noseg"
  BY DEF NoSegment
<1>2. /\ img \in Images /\ img.img_len \in Nat /\ deal_len \in 0 .. img.img_len
      /\ HeaderOK /\ ~ img.no_segment
      /\ (img.sign => img.pk = "efuse") /\ (img.sign => WellFormed)
      /\ (img.encrypt_type => img.iv = "whole")
  BY <1>1, ParsingType DEF IInv, PassedInv, Parsed
<1>3. UNCHANGED <<g_efuse_cfg, hbn, g_user_hash_ignored, mfg_mode_flag, img, hash_ignore,
                  deal_len, reg, dev_check_hash, shaCtx>>
      /\ img_valid' = FALSE /\ ret' = TRUE /\ pc' = "main"
  BY DEF NoSegment, chip, request, device
<1>4. Acceptable
  BY <1>2, ImageType DEF Acceptable, Sound, HashMatches, HeaderOK, FitsChip, PartsIntact
<1>5. img_valid' = img.no_segment
  BY <1>2, <1>3, ImageType
<1> QED BY <1>1, <1>3, <1>4, <1>5, PassKeeps DEF Parsed

-----------------------------------------------------------------------------
(* Outside the check.                                                      *)

(* The verdict on an image that stays and a chip that stays does.           *)
LEMMA VerdictStays ==
    ASSUME IInv, pc \in {"main", "poll"}, UNCHANGED <<chip, request, parsed>>
    PROVE  VerdictRight'
<1>1. UNCHANGED <<g_efuse_cfg, hbn, g_user_hash_ignored, img, img_valid, ret>>
  BY DEF chip, request, parsed
<1>2. Acceptable' = Acceptable
  BY <1>1 DEF Acceptable, Sound, HashMatches, FitsChip, PartsIntact, WellFormed, AsksForNoHash,
              WakesUnchecked, Hashed, Word
<1> QED BY <1>1, <1>2 DEF IInv, VerdictRight

LEMMA DecideKeeps == ASSUME IInv, Decide PROVE IInv'
<1>1. /\ pc = "main" /\ pc' \in {"poll", "again", "forever"}
      /\ UNCHANGED <<chip, device, request, parsed>>
  BY DEF Decide
<1>2. TypeOK'
  BY <1>1 DEF TypeOK, IInv, chip, device, request, parsed
<1> QED BY <1>1, <1>2, VerdictStays DEF IInv, DigestInv, PassedInv, Parsed, device

LEMMA StartOverKeeps == ASSUME IInv, StartOver PROVE IInv'
<1>1. /\ pc' = "select" /\ mfg_mode_flag' = FALSE /\ img' = NoImage
      /\ hash_ignore' = FALSE /\ img_valid' = FALSE /\ deal_len' = 0 /\ ret' = FALSE
      /\ UNCHANGED <<chip, device, g_user_hash_ignored>>
  BY DEF StartOver
<1>2. deal_len' \in Nat
  BY <1>1
<1>3. TypeOK'
  BY <1>1, <1>2 DEF TypeOK, IInv, chip, device
<1> QED BY <1>1, <1>3 DEF IInv, DigestInv, PassedInv, Parsed, VerdictRight, device

LEMMA JumpKeeps == ASSUME IInv, Jump PROVE IInv'
<1>1. pc = "poll" /\ pc' \in {"app", "stay"} /\ UNCHANGED <<chip, device, request, parsed>>
  BY DEF Jump
<1>2. TypeOK'
  BY <1>1 DEF TypeOK, IInv, chip, device, request, parsed
<1> QED BY <1>1, <1>2 DEF IInv, DigestInv, PassedInv, Parsed, VerdictRight, device

LEMMA LoaderKeeps == ASSUME IInv, Loader PROVE IInv'
<1>1. /\ pc \in {"window", "poll", "forever"} /\ UNCHANGED <<chip, request, parsed, pc>>
      /\ Orderly(reg)
  BY DEF Loader, EnableInt, XipReadSha, IInv
<1>2. Orderly(reg') /\ dev_check_hash' \in {"hash", NULL} /\ shaCtx' \in Seq(Data)
  <2>1. CASE EnableInt
    <3>1. device_find(reg, "debug_log") = "uart0"
      BY <1>1, Finds DEF Orderly, Range
    <3>2. reg' = device_open(device_close(reg, "uart0"), "uart0")
      BY <2>1, <3>1 DEF EnableInt
    <3>3. Orderly(reg')
      BY <1>1, <3>2, OpenKeeps, CloseKeeps, Facts
    <3> QED BY <2>1, <3>3 DEF EnableInt, IInv, TypeOK
  <2>2. CASE XipReadSha
    <3>1. dev_check_hash' = "hash" /\ Orderly(Renewed)
      BY <1>1, <2>2, RenewedOrderly DEF XipReadSha
    <3>2. reg' = device_close(device_open(Renewed, "hash"), "hash")
      BY <2>2, <3>1 DEF XipReadSha
    <3>3. Orderly(reg')
      BY <3>1, <3>2, OpenKeeps, CloseKeeps, Facts
    <3>4. "received" \in Data
      BY DEF Data
    <3>5. <<"received">> \in Seq(Data)
      BY <3>4, Single, Zenon
    <3>6. shaCtx \in Seq(Data)
      BY DEF IInv, TypeOK
    <3> QED BY <2>2, <3>1, <3>3, <3>5, <3>6 DEF XipReadSha
  <2> QED BY <2>1, <2>2 DEF Loader
<1>3. reg' \in Registry(Names)
  BY <1>2 DEF Orderly
<1>4. TypeOK'
  BY <1>1, <1>2, <1>3 DEF TypeOK, IInv, chip, request, parsed
<1>5. VerdictRight'
  <2>1. CASE pc = "poll"
    BY <1>1, <2>1, VerdictStays
  <2>2. CASE pc # "poll"
    BY <1>1, <2>2 DEF VerdictRight
  <2> QED BY <2>1, <2>2
<1> QED BY <1>1, <1>2, <1>4, <1>5 DEF IInv, DigestInv, PassedInv, Parsed

LEMMA NextIInv == ASSUME IInv, [Next]_vars PROVE IInv'
<1>1. CASE UNCHANGED vars
  <2>1. UNCHANGED <<g_efuse_cfg, hbn, g_user_hash_ignored, mfg_mode_flag, img, hash_ignore,
                    img_valid, deal_len, ret, reg, dev_check_hash, shaCtx, pc>>
    BY <1>1 DEF vars, chip, device, request, parsed
  <2>2. TypeOK' /\ Orderly(reg')
    BY <2>1 DEF IInv, TypeOK
  <2>3. \A n : Hashed(n)' = Hashed(n)
    BY <2>1 DEF Hashed, Word
  <2>4. DigestInv'
    BY <2>1, <2>3 DEF IInv, DigestInv
  <2>5. HeaderOK' = HeaderOK /\ HashIgnored' = HashIgnored
    BY <2>1 DEF HeaderOK, HashIgnored
  <2>6. PassedInv'
    BY <2>1, <2>3, <2>5 DEF IInv, PassedInv, WellFormed
  <2>7. Acceptable' = Acceptable
    BY <2>1, <2>3 DEF Acceptable, Sound, HashMatches, FitsChip, PartsIntact, WellFormed,
                       AsksForNoHash, WakesUnchecked
  <2>8. VerdictRight'
    BY <2>1, <2>7 DEF IInv, VerdictRight
  <2> QED BY <2>2, <2>4, <2>6, <2>8 DEF IInv
<1>2. CASE Parse
  BY <1>2, ParseHeaderKeeps, ParseKeyKeeps, ParseSignatureKeeps, ParseIVKeeps, CalHashKeeps,
     CheckHashKeeps, CheckSignatureKeeps, NoSegmentKeeps DEF Parse
<1> QED BY <1>1, <1>2, TryKeeps, DecideKeeps, StartOverKeeps, JumpKeeps, LoaderKeeps DEF Next

THEOREM IInvCorrect == Spec => []IInv
<1> QED BY InitIInv, NextIInv, PTL DEF Spec

(* Whatever was checked and read before, the hash device is there once, is  *)
(* found by its name, and has hashed only the IV and the words read so far  *)
(* (drv_device.c, and blsp_boot_parser.c wherever it opens the device).     *)
THEOREM DeviceCorrect == Spec => []DeviceInv
<1>1. IInv => DeviceInv
  BY OrderlyRegistry DEF IInv, DeviceInv
<1> QED BY <1>1, IInvCorrect, PTL

(* The verdict is the one the image, the chip and the request call for      *)
(* (blsp_mediaboot_parse_one_fw), for every image.                          *)
THEOREM VerdictCorrect == Spec => []VerdictRight
<1>1. IInv => VerdictRight
  BY DEF IInv
<1> QED BY <1>1, IInvCorrect, PTL

-----------------------------------------------------------------------------
(* The check as one step of the boot flow.                                 *)

FlowEntry == [name |-> "FW", active_index |-> 0]

LEMMA Held == ASSUME img \in Images PROVE img # NoImage
<1>1. NoImage.crc = "none" /\ img.crc # "none"
  BY ImageAssumption DEF NoImage, Image
<1> QED BY <1>1

(* What the boot flow would boot is what the parser accepts.                *)
LEMMA BootableIsAcceptable ==
    ASSUME img \in Images PROVE Flow!Bootable(FlowEntry) <=> Acceptable
<1>1. Flow!Content(FlowEntry) = Stored
  BY DEF Flow!Content, Flow!Source, FlowEntry
<1>2. FlowEntry # Flow!NoEntry
  <2>1. FlowEntry.name = "FW" /\ Flow!NoEntry.name = ""
    BY DEF FlowEntry, Flow!NoEntry, Flow!PtEntry
  <2> QED BY <2>1
<1>3. ~ Flow!NeedsCopy(FlowEntry)
  BY DEF Flow!NeedsCopy, FlowEntry
<1>4. Stored.n = IF ~ Sound THEN 0 ELSE IF HashMatches THEN 2 ELSE 1
  BY Held DEF Stored
<1>5. Stored.n > 0 <=> Sound
  BY <1>4
<1>6. Flow!Intact(Stored) <=> Sound /\ HashMatches
  BY <1>4 DEF Flow!Intact
<1> QED BY <1>1, <1>2, <1>3, <1>5, <1>6 DEF Flow!Bootable, Acceptable

(* A step inside the check is none of the boot flow's.                      *)
LEMMA StoredStays ==
    ASSUME UNCHANGED <<chip, img>> PROVE Stored' = Stored
<1>1. UNCHANGED <<g_efuse_cfg, hbn, img>>
  BY DEF chip
<1> QED BY <1>1 DEF Stored, Sound, HashMatches, FitsChip, PartsIntact, WellFormed, AsksForNoHash,
                    WakesUnchecked, Hashed, Word

FlowPc == IF pc \in Checked THEN "boot"
          ELSE IF pc \in {"app", "forever"} THEN pc ELSE "parse"

LEMMA Stutters ==
    ASSUME UNCHANGED <<chip, img, request>>,
           FlowPc' = FlowPc, (pc = "again") = (pc' = "again")
    PROVE  UNCHANGED Flow!vars
<1>1. Stored' = Stored
  BY StoredStays
<1>2. g_user_hash_ignored' = g_user_hash_ignored /\ mfg_mode_flag' = mfg_mode_flag
  BY DEF request
<1>3. UNCHANGED Flow!persistent
  BY <1>1 DEF Flow!persistent
<1> QED BY <1>2, <1>3 DEF Flow!vars, FlowPc

LEMMA ParseStutters == ASSUME IInv, Parse PROVE UNCHANGED Flow!vars
<1>1. UNCHANGED <<chip, img, request>>
  BY DEF Parse, ParseHeader, ParseKey, ParseSignature, ParseIV, CalHash, CheckHash,
         CheckSignature, NoSegment
<1>2. pc \in Checked /\ pc' \in Checked
  BY DEF Parse, ParseHeader, ParseKey, ParseSignature, ParseIV, CalHash, CheckHash,
         CheckSignature, NoSegment, Checked, Fail, AfterKey
<1> QED BY <1>1, <1>2, Stutters DEF FlowPc, Checked

(* The two steps that end a check.                                         *)
LEMMA DecideBoots == ASSUME IInv, Decide PROVE Flow!Boot \/ UNCHANGED Flow!vars
<1>1. /\ pc = "main" /\ img \in Images /\ UNCHANGED <<chip, img, request>>
      /\ pc' = IF ret THEN "poll" ELSE IF mfg_mode_flag THEN "again" ELSE "forever"
  BY DEF Decide, IInv, TypeOK, parsed
<1>2. CASE ret
  BY <1>1, <1>2, Stutters DEF FlowPc, Checked
<1>3. CASE ~ ret
  <2>1. ~ Flow!Bootable(FlowEntry)
    BY <1>1, <1>3, BootableIsAcceptable DEF IInv, VerdictRight
  <2>2. Stored' = Stored
    BY <1>1, StoredStays
  <2>3. UNCHANGED <<g_user_hash_ignored, mfg_mode_flag>>
    BY <1>1 DEF request
  <2>4. UNCHANGED Flow!persistent
    BY <2>2 DEF Flow!persistent
  <2>5. mfg_mode_flag \in BOOLEAN
    BY DEF IInv, TypeOK
  <2> QED BY <1>1, <1>3, <2>1, <2>3, <2>4, <2>5 DEF Flow!Boot, Checked, FlowEntry
<1> QED BY <1>2, <1>3

LEMMA JumpBoots == ASSUME IInv, Jump PROVE Flow!Boot \/ UNCHANGED Flow!vars
<1>1. /\ pc = "poll" /\ img \in Images /\ UNCHANGED <<chip, img, request>>
      /\ pc' = IF img_valid THEN "app" ELSE "stay"
  BY DEF Jump, IInv, TypeOK, parsed
<1>2. CASE ~ img_valid
  BY <1>1, <1>2, Stutters DEF FlowPc, Checked
<1>3. CASE img_valid
  <2>1. Flow!Bootable(FlowEntry)
    <3>1. ret = Acceptable /\ img_valid = (ret /\ img.no_segment)
      BY <1>1, Zenon DEF IInv, VerdictRight
    <3>2. Acceptable
      BY <1>3, <3>1, Zenon
    <3> QED BY <1>1, <3>2, BootableIsAcceptable
  <2>2. Stored' = Stored
    BY <1>1, StoredStays
  <2>3. UNCHANGED <<g_user_hash_ignored, mfg_mode_flag>>
    BY <1>1 DEF request
  <2>4. UNCHANGED Flow!persistent
    BY <2>2 DEF Flow!persistent
  <2>5. mfg_mode_flag \in BOOLEAN
    BY DEF IInv, TypeOK
  <2> QED BY <1>1, <1>3, <2>1, <2>3, <2>4, <2>5 DEF Flow!Boot, Checked, FlowEntry
<1> QED BY <1>2, <1>3

(* The parser, with whatever the loader does to the hash device before and  *)
(* after, implements the one step that BootFlow takes for it.               *)
THEOREM ChecksAsBootCorrect == Spec => ChecksAsBoot
<1>1. ASSUME IInv, [Next]_vars PROVE [Try \/ StartOver \/ Flow!Boot]_(Flow!vars)
  <2>1. CASE Loader
    <3>1. UNCHANGED <<chip, img, request, pc>>
      BY <2>1 DEF Loader, EnableInt, XipReadSha, parsed
    <3> QED BY <3>1, Stutters DEF FlowPc
  <2>2. CASE UNCHANGED vars
    <3>1. UNCHANGED <<chip, img, request, pc>>
      BY <2>2 DEF vars, parsed
    <3> QED BY <3>1, Stutters DEF FlowPc
  <2> QED BY <1>1, <2>1, <2>2, ParseStutters, DecideBoots, JumpBoots DEF Next
<1> QED BY <1>1, IInvCorrect, PTL DEF Spec, ChecksAsBoot
================================================================================
