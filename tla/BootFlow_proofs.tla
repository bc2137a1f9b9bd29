--------------------------- MODULE BootFlow_proofs ---------------------------
(***************************************************************************)
(* Proofs about BootFlow, for every set of entries, every number of chunks *)
(* and every initial table.                                                *)
(***************************************************************************)
EXTENDS BootFlowProps, TLAPS

FlowInv == CopyInv /\ RequestInv

(* A table is a function on its domain, with indexes as values.             *)
LEMMA TableShape ==
    ASSUME table \in Tables
    PROVE  /\ DOMAIN table \subseteq Names
           /\ table \in [DOMAIN table -> 0 .. 3]
BY DEF Tables

LEMMA EntryType ==
    ASSUME table \in Tables, NEW name \in DOMAIN table
    PROVE  /\ Entry(name).name = name
           /\ Entry(name).active_index = table[name]
           /\ table[name] \in 0 .. 3
BY TableShape DEF Entry, PtEntry

(* Taking the first chunks of a slot gives a slot.                          *)
LEMMA FirstType ==
    ASSUME NEW c \in Slot, NEW k \in 0 .. Chunks
    PROVE  First(c, k) \in Slot
BY BootAssumption DEF First, Slot

(* Taking all of them gives the slot itself.                                *)
LEMMA FirstAll ==
    ASSUME NEW c \in Slot
    PROVE  First(c, Chunks) = c
<1>1. c.n \in 0 .. Chunks /\ Chunks \in Nat
    BY BootAssumption DEF Slot
<1>2. (IF c.n < Chunks THEN c.n ELSE Chunks) = c.n
    BY <1>1
<1>3. First(c, Chunks) = [c EXCEPT !.n = c.n]
    BY <1>2, Zenon DEF First
<1>4. QED
    BY <1>3 DEF Slot

(* The current slot of an entry and the one a copy goes to are two.         *)
LEMMA TwoSlots ==
    ASSUME NEW e, e.active_index \in 0 .. 3
    PROVE  /\ Source(e) \in 0 .. 1 /\ Dest(e) \in 0 .. 1
           /\ Source(e) # Dest(e)
           /\ Source(e) = e.active_index % 2
           /\ Dest(e) % 2 = Dest(e)
BY DEF Source, Dest

(* Writing to the other slot leaves the rest alone.                         *)
LEMMA WithDestFacts ==
    ASSUME slots \in [Names -> [0 .. 1 -> Slot]],
           pt_entry.name \in Names, pt_entry.active_index \in 0 .. 3,
           NEW k \in 0 .. Chunks
    PROVE  /\ WithDest(k) \in [Names -> [0 .. 1 -> Slot]]
           /\ \A name \in Names, i \in 0 .. 1 :
                 name # pt_entry.name \/ i # Dest(pt_entry) =>
                     WithDest(k)[name][i] = slots[name][i]
           /\ WithDest(k)[pt_entry.name][Dest(pt_entry)]
                 = First(Content(pt_entry), k)
<1>1. Source(pt_entry) \in 0 .. 1 /\ Dest(pt_entry) \in 0 .. 1
    BY TwoSlots
<1>2. Content(pt_entry) \in Slot
    BY <1>1 DEF Content
<1>3. First(Content(pt_entry), k) \in Slot
    BY <1>2, FirstType
<1>4. QED
    BY <1>1, <1>3 DEF WithDest

(* Changing the index of the copied entry leaves the others alone.          *)
LEMMA WithCopiedFacts ==
    ASSUME table \in Tables, pt_entry.name \in DOMAIN table,
           pt_entry.active_index \in 0 .. 3
    PROVE  /\ WithCopied \in Tables /\ DOMAIN WithCopied = DOMAIN table
           /\ WithCopied[pt_entry.name] = Dest(pt_entry)
           /\ \A name \in DOMAIN table :
                 name # pt_entry.name => WithCopied[name] = table[name]
<1>1. Dest(pt_entry) \in 0 .. 1
    BY TwoSlots
<1>2. Copied(pt_entry).active_index = Dest(pt_entry)
    BY DEF Copied
<1>3. /\ WithCopied \in [DOMAIN table -> 0 .. 3]
      /\ DOMAIN WithCopied = DOMAIN table
      /\ WithCopied[pt_entry.name] = Dest(pt_entry)
      /\ \A name \in DOMAIN table :
            name # pt_entry.name => WithCopied[name] = table[name]
    BY <1>1, <1>2, TableShape DEF WithCopied
<1>4. QED
    BY <1>3, TableShape DEF Tables


-----------------------------------------------------------------------------
(* What every step does to the flash: types stay, every entry keeps its     *)
(* image, and an index that asks for no copy stays.                         *)
Persist ==
    /\ table' \in Tables /\ DOMAIN table' = DOMAIN table
    /\ slots' \in [Names -> [0 .. 1 -> Slot]]
    /\ mfg_flag' = mfg_flag
    /\ \A name \in DOMAIN table :
          /\ Current(name)' = Current(name)
          /\ table[name] < 2 => table'[name] = table[name]

LEMMA KeepPersists ==
    ASSUME TypeOK, UNCHANGED persistent
    PROVE  Persist
BY DEF TypeOK, persistent, Persist, Current

(* The entry a copy is made for, as the proofs below use it.                *)
LEMMA CopyingEntry ==
    ASSUME TypeOK, FlowInv, Copying
    PROVE  /\ pt_entry.name \in DOMAIN table /\ pt_entry.name \in Names
           /\ pt_entry.active_index \in 0 .. 3
           /\ pt_entry.active_index = table[pt_entry.name]
           /\ pt_entry.active_index >= 2
<1>1. /\ pt_entry.name \in DOMAIN table
      /\ pt_entry.active_index = table[pt_entry.name]
      /\ pt_entry.active_index >= 2
    BY DEF FlowInv, CopyInv, NeedsCopy
<1>2. table \in Tables
    BY DEF TypeOK
<1>3. QED
    BY <1>1, <1>2, TableShape

(* A step of the copy writes to the slot that is not current.               *)
LEMMA CopyPersists ==
    ASSUME TypeOK, FlowInv, Copying, NEW k \in 0 .. Chunks,
           slots' = WithDest(k), UNCHANGED <<table, mfg_flag>>
    PROVE  Persist
<1>1. table \in Tables /\ slots \in [Names -> [0 .. 1 -> Slot]]
    BY DEF TypeOK
<1>2. /\ slots' \in [Names -> [0 .. 1 -> Slot]]
      /\ \A name \in Names, i \in 0 .. 1 :
            name # pt_entry.name \/ i # Dest(pt_entry) =>
                slots'[name][i] = slots[name][i]
    BY <1>1, CopyingEntry, WithDestFacts
<1>3. ASSUME NEW name \in DOMAIN table
      PROVE  Current(name)' = Current(name)
    <2>1. name \in Names /\ table[name] \in 0 .. 3 /\ table[name] % 2 \in 0 .. 1
        BY <1>1, TableShape
    <2>2. name = pt_entry.name => table[name] % 2 # Dest(pt_entry)
        BY CopyingEntry, TwoSlots
    <2>3. slots'[name][table[name] % 2] = slots[name][table[name] % 2]
        BY <1>2, <2>1, <2>2
    <2>4. QED
        BY <2>3 DEF Current
<1>4. QED
    BY <1>1, <1>2, <1>3 DEF Persist

(* When the index changes the two slots are alike.                          *)
LEMMA CommitPersists ==
    ASSUME TypeOK, FlowInv, pc = "update",
           table' = WithCopied, UNCHANGED <<slots, mfg_flag>>
    PROVE  Persist
<1>1. table \in Tables /\ slots \in [Names -> [0 .. 1 -> Slot]]
    BY DEF TypeOK
<1>2. /\ pt_entry.name \in DOMAIN table /\ pt_entry.active_index \in 0 .. 3
      /\ pt_entry.active_index = table[pt_entry.name]
      /\ pt_entry.active_index >= 2
    BY CopyingEntry DEF Copying
<1>3. /\ table' \in Tables /\ DOMAIN table' = DOMAIN table
      /\ table'[pt_entry.name] = Dest(pt_entry)
      /\ \A name \in DOMAIN table :
            name # pt_entry.name => table'[name] = table[name]
    BY <1>1, <1>2, WithCopiedFacts
<1>4. slots[pt_entry.name][Dest(pt_entry)]
        = slots[pt_entry.name][table[pt_entry.name] % 2]
    BY <1>2, TwoSlots DEF FlowInv, CopyInv, Content
<1>5. ASSUME NEW name \in DOMAIN table
      PROVE  Current(name)' = Current(name)
    <2>1. CASE name = pt_entry.name
        <3>1. table'[name] % 2 = Dest(pt_entry)
            BY <2>1, <1>2, <1>3, TwoSlots
        <3>2. QED
            BY <3>1, <2>1, <1>4 DEF Current
    <2>2. CASE name # pt_entry.name
        BY <2>2, <1>3 DEF Current
    <2>3. QED
        BY <2>1, <2>2
<1>6. ASSUME NEW name \in DOMAIN table, table[name] < 2
      PROVE  table'[name] = table[name]
    <2>1. name # pt_entry.name
        BY <1>2, <1>6, <1>1, TableShape
    <2>2. QED
        BY <2>1, <1>3
<1>7. QED
    BY <1>1, <1>3, <1>5, <1>6 DEF Persist

(* And so does an operation that is cut off.                                *)
LEMMA CutOffPersists ==
    ASSUME TypeOK, FlowInv, CutOff
    PROVE  Persist
<1>1. deal_len \in 0 .. Chunks /\ (pc = "copy" => deal_len < Chunks) /\ Chunks \in Nat
    BY BootAssumption DEF TypeOK, FlowInv, CopyInv
<1>2. CASE UNCHANGED slots /\ table' = table
    BY <1>2, KeepPersists DEF CutOff, persistent
<1>3. CASE pc = "erase" /\ slots' = WithDest(0)
    <2>1. table' = table /\ mfg_flag' = mfg_flag
        BY <1>3 DEF CutOff
    <2>2. 0 \in 0 .. Chunks /\ Copying
        BY <1>1, <1>3 DEF Copying
    <2>3. QED
        BY <1>3, <2>1, <2>2, CopyPersists
<1>4. CASE pc = "copy" /\ slots' = WithDest(deal_len + 1)
    <2>1. table' = table /\ mfg_flag' = mfg_flag
        BY <1>4 DEF CutOff
    <2>2. deal_len + 1 \in 0 .. Chunks /\ Copying
        BY <1>1, <1>4 DEF Copying
    <2>3. QED
        BY <1>4, <2>1, <2>2, CopyPersists
<1>5. CASE pc = "update" /\ table' = WithCopied /\ UNCHANGED slots
    BY <1>5, CommitPersists DEF CutOff
<1>6. QED
    BY <1>2, <1>3, <1>4, <1>5 DEF CutOff


-----------------------------------------------------------------------------
(* The invariant step by step: one lemma per action.                        *)
IInv == TypeOK /\ FlowInv

LEMMA ChunksNat == Chunks \in Nat /\ 0 < Chunks /\ 0 \in 0 .. Chunks
<1>1. Chunks \in Nat \ {0}
    BY BootAssumption, Zenon
<1>2. QED
    BY <1>1

LEMMA InitIInv == Init => IInv
<1> SUFFICES ASSUME Init PROVE IInv
    OBVIOUS
<1>1. TypeOK
    BY ChunksNat, BootAssumption DEF Init, TypeOK
<1>2. FlowInv
    BY DEF Init, FlowInv, CopyInv, RequestInv, RequestServedOnce, Copying
<1>3. QED
    BY <1>1, <1>2 DEF IInv

(* What the lookup leaves in pt_entry is an entry of the table or, when     *)
(* nothing was ever read, none.                                             *)
LEMMA LookupType ==
    ASSUME TypeOK, NEW req
    PROVE  /\ \/ Lookup(req) = NoEntry
              \/ /\ Lookup(req).name \in DOMAIN table
                 /\ Lookup(req).active_index \in 0 .. 3
           /\ req \in DOMAIN table => Lookup(req) = Entry(req)
<1>1. table \in Tables
    BY DEF TypeOK
<1>2. CASE req \in DOMAIN table
    BY <1>1, <1>2, EntryType DEF Lookup
<1>3. CASE req \notin DOMAIN table /\ "mfg" \in DOMAIN table
    BY <1>1, <1>3, EntryType DEF Lookup
<1>4. CASE req \notin DOMAIN table /\ "mfg" \notin DOMAIN table
    BY <1>4 DEF Lookup, TypeOK
<1>5. QED
    BY <1>2, <1>3, <1>4

LEMMA ParseIInv ==
    ASSUME IInv, Parse
    PROVE  IInv'
<1>1. TypeOK /\ table \in Tables /\ pc = "parse"
    BY DEF IInv, TypeOK, Parse
<1>2. /\ StartRequest \in {""} \cup Names
      /\ StartRequest = "" => user_fw = ""
    BY DEF StartRequest, IInv, TypeOK, FlowInv, RequestInv
<1>3. UNCHANGED <<table, slots, mfg_flag, deal_len>>
    BY DEF Parse, persistent
<1>4. /\ \/ pt_entry' = NoEntry
         \/ pt_entry'.name \in DOMAIN table /\ pt_entry'.active_index \in 0 .. 3
      /\ g_user_hash_ignored' \in BOOLEAN
    BY <1>1, LookupType DEF Parse, IInv, TypeOK
<1>5. CASE Wanted(StartRequest) \in DOMAIN table /\ NeedsCopy(pt_entry')
    <2>1. /\ pc' = "erase" /\ user_fw_name' = StartRequest
          /\ UNCHANGED <<user_fw, mfg_mode_flag>>
        BY <1>5 DEF Parse
    <2>2. pt_entry' = Entry(Wanted(StartRequest))
        BY <1>1, <1>5, LookupType DEF Parse
    <2>3. /\ pt_entry'.name \in DOMAIN table /\ pt_entry'.name = Wanted(StartRequest)
          /\ pt_entry'.active_index = table[pt_entry'.name]
          /\ pt_entry'.active_index >= 2
        BY <2>2, <1>1, <1>5, EntryType DEF NeedsCopy
    <2>4. TypeOK'
        BY <2>1, <1>2, <1>3, <1>4 DEF IInv, TypeOK
    <2>5. FlowInv'
        BY <2>1, <2>3, <1>2, <1>3
        DEF FlowInv, CopyInv, RequestInv, RequestServedOnce, NeedsCopy, Wanted
    <2>6. QED
        BY <2>4, <2>5 DEF IInv
<1>6. CASE ~ (Wanted(StartRequest) \in DOMAIN table /\ NeedsCopy(pt_entry'))
    <2>1. Parsed(StartRequest)
        BY <1>6 DEF Parse
    <2>2. /\ pc' = "boot" /\ user_fw' = "" /\ user_fw_name' = ""
          /\ mfg_mode_flag' \in BOOLEAN
        BY <2>1, <1>2 DEF Parsed
    <2>3. TypeOK'
        BY <2>2, <1>3, <1>4 DEF IInv, TypeOK
    <2>4. FlowInv'
        BY <2>2 DEF FlowInv, CopyInv, RequestInv, RequestServedOnce, Copying
    <2>5. QED
        BY <2>3, <2>4 DEF IInv
<1>7. QED
    BY <1>5, <1>6

LEMMA EraseIInv ==
    ASSUME IInv, Erase
    PROVE  IInv' /\ Persist
<1>1. /\ TypeOK /\ FlowInv /\ Copying
      /\ pc' = "copy" /\ deal_len' = 0 /\ slots' = WithDest(0)
      /\ UNCHANGED <<table, mfg_flag, user_fw, user_fw_name, pt_entry,
                     g_user_hash_ignored, mfg_mode_flag>>
    BY DEF IInv, Erase, Copying
<1>2. Persist
    BY <1>1, ChunksNat, CopyPersists
<1>3. TypeOK'
    BY <1>1, <1>2, ChunksNat DEF TypeOK, Persist
<1>4. FlowInv'
    BY <1>1, ChunksNat
    DEF FlowInv, CopyInv, RequestInv, RequestServedOnce, Copying, NeedsCopy, Wanted
<1>5. QED
    BY <1>2, <1>3, <1>4 DEF IInv

(* The last chunk makes the two slots alike.                                *)
LEMMA CopyIInv ==
    ASSUME IInv, Copy
    PROVE  IInv' /\ Persist
<1>1. /\ TypeOK /\ FlowInv /\ Copying
      /\ slots' = WithDest(deal_len + 1) /\ deal_len' = deal_len + 1
      /\ pc' = IF deal_len + 1 = Chunks THEN "update" ELSE "copy"
      /\ UNCHANGED <<table, mfg_flag, user_fw, user_fw_name, pt_entry,
                     g_user_hash_ignored, mfg_mode_flag>>
    BY DEF IInv, Copy, Copying
<1>2. deal_len \in 0 .. Chunks /\ deal_len < Chunks
    BY <1>1 DEF TypeOK, FlowInv, CopyInv, Copy
<1>3. deal_len + 1 \in 0 .. Chunks
    BY <1>2, ChunksNat
<1>4. Persist
    BY <1>1, <1>3, CopyPersists
<1>5. TypeOK'
    BY <1>1, <1>3, <1>4 DEF TypeOK, Persist
<1>6. pc' = "update" =>
        slots'[pt_entry.name][Dest(pt_entry)] = slots'[pt_entry.name][Source(pt_entry)]
    <2>1. SUFFICES ASSUME deal_len + 1 = Chunks
                   PROVE  slots'[pt_entry.name][Dest(pt_entry)]
                            = slots'[pt_entry.name][Source(pt_entry)]
        BY <1>1
    <2>2. /\ slots \in [Names -> [0 .. 1 -> Slot]]
          /\ pt_entry.name \in Names /\ pt_entry.active_index \in 0 .. 3
        BY <1>1, CopyingEntry DEF TypeOK
    <2>3. /\ Source(pt_entry) \in 0 .. 1
          /\ Source(pt_entry) # Dest(pt_entry)
        BY <2>2, TwoSlots
    <2>4. /\ slots'[pt_entry.name][Dest(pt_entry)] = First(Content(pt_entry), Chunks)
          /\ slots'[pt_entry.name][Source(pt_entry)] = Content(pt_entry)
        <3>1. slots' = WithDest(Chunks) /\ Chunks \in 0 .. Chunks
            BY <1>1, <1>3, <2>1
        <3>2. /\ WithDest(Chunks)[pt_entry.name][Dest(pt_entry)]
                    = First(Content(pt_entry), Chunks)
              /\ WithDest(Chunks)[pt_entry.name][Source(pt_entry)]
                    = slots[pt_entry.name][Source(pt_entry)]
            BY <2>2, <2>3, <3>1, WithDestFacts
        <3>3. QED
            BY <3>1, <3>2 DEF Content
    <2>5. Content(pt_entry) \in Slot
        BY <2>2, <2>3 DEF Content
    <2>6. QED
        BY <2>4, <2>5, FirstAll
<1>7. CopyInv'
    <2>1. Copying' => /\ pt_entry'.name \in DOMAIN table'
                      /\ pt_entry'.name = Wanted(user_fw_name)'
                      /\ pt_entry'.active_index = table'[pt_entry'.name]
                      /\ NeedsCopy(pt_entry)'
        BY <1>1 DEF FlowInv, CopyInv, NeedsCopy, Wanted
    <2>2. pc' = "copy" => deal_len' < Chunks
        BY <1>1, <1>2, ChunksNat
    <2>3. pc' = "update" =>
            slots'[pt_entry'.name][Dest(pt_entry)'] = Content(pt_entry)'
        BY <1>1, <1>6 DEF Content, Source, Dest
    <2>4. QED
        BY <2>1, <2>2, <2>3 DEF CopyInv
<1>8. RequestInv'
    BY <1>1 DEF FlowInv, RequestInv, RequestServedOnce
<1>9. QED
    BY <1>4, <1>5, <1>7, <1>8 DEF IInv, FlowInv

(* What pt_entry becomes when the copy is done.                             *)
LEMMA CopiedType ==
    ASSUME TypeOK, FlowInv, Copying
    PROVE  /\ Copied(pt_entry).name = pt_entry.name
           /\ Copied(pt_entry).active_index \in 0 .. 3
<1>1. Dest(pt_entry) \in 0 .. 1
    BY CopyingEntry, TwoSlots
<1>2. QED
    BY <1>1 DEF Copied

LEMMA UpdateIInv ==
    ASSUME IInv, Update
    PROVE  IInv' /\ Persist
<1>1. /\ TypeOK /\ FlowInv /\ Copying /\ pc = "update" /\ pc' = "parse"
      /\ table' = WithCopied /\ pt_entry' = Copied(pt_entry)
      /\ UNCHANGED <<slots, mfg_flag, user_fw, user_fw_name,
                     g_user_hash_ignored, mfg_mode_flag, deal_len>>
    BY DEF IInv, Update, Copying
<1>2. Persist
    BY <1>1, CommitPersists
<1>3. pt_entry'.name \in DOMAIN table' /\ pt_entry'.active_index \in 0 .. 3
    BY <1>1, <1>2, CopyingEntry, CopiedType DEF Persist
<1>4. TypeOK'
    BY <1>1, <1>2, <1>3 DEF TypeOK, Persist
<1>5. FlowInv'
    BY <1>1 DEF FlowInv, CopyInv, RequestInv, RequestServedOnce, Copying
<1>6. QED
    BY <1>2, <1>4, <1>5 DEF IInv

LEMMA FlashFailsIInv ==
    ASSUME IInv, FlashFails
    PROVE  IInv' /\ Persist
<1>1. /\ TypeOK /\ FlowInv /\ Copying /\ CutOff
      /\ pt_entry' = IF pc = "update" THEN Copied(pt_entry) ELSE pt_entry
      /\ Parsed(user_fw_name)
      /\ UNCHANGED <<g_user_hash_ignored, deal_len>>
    BY DEF IInv, FlashFails, Copying
<1>2. Persist
    BY <1>1, CutOffPersists
<1>3. pt_entry'.name \in DOMAIN table' /\ pt_entry'.active_index \in 0 .. 3
    BY <1>1, <1>2, CopyingEntry, CopiedType DEF Persist
<1>4. /\ pc' = "boot" /\ user_fw' = "" /\ user_fw_name' = ""
      /\ mfg_mode_flag' \in BOOLEAN
    BY <1>1 DEF Parsed, FlowInv, RequestInv
<1>5. TypeOK'
    BY <1>1, <1>2, <1>3, <1>4 DEF TypeOK, Persist
<1>6. FlowInv'
    BY <1>4 DEF FlowInv, CopyInv, RequestInv, RequestServedOnce, Copying
<1>7. QED
    BY <1>2, <1>5, <1>6 DEF IInv

LEMMA BootIInv ==
    ASSUME IInv, Boot
    PROVE  IInv'
<1>1. /\ TypeOK /\ FlowInv /\ pc = "boot"
      /\ pc' \in {"app", "parse", "forever"} /\ mfg_mode_flag' \in BOOLEAN
      /\ UNCHANGED <<table, slots, mfg_flag, user_fw, user_fw_name, pt_entry,
                     g_user_hash_ignored, deal_len>>
    BY DEF IInv, Boot, persistent, TypeOK
<1>2. TypeOK'
    BY <1>1 DEF TypeOK
<1>3. FlowInv'
    BY <1>1 DEF FlowInv, CopyInv, RequestInv, RequestServedOnce, Copying
<1>4. QED
    BY <1>2, <1>3 DEF IInv

LEMMA PowerFailsIInv ==
    ASSUME IInv, PowerFails
    PROVE  IInv' /\ Persist
<1>1. /\ TypeOK /\ FlowInv /\ CutOff
      /\ user_fw' \in {""} \cup Names /\ user_fw_name' = user_fw'
      /\ pc' = "parse" /\ pt_entry' = NoEntry /\ deal_len' = 0
      /\ g_user_hash_ignored' = FALSE /\ mfg_mode_flag' = FALSE
    BY DEF IInv, TypeOK, PowerFails
<1>2. Persist
    BY <1>1, CutOffPersists
<1>3. TypeOK'
    BY <1>1, <1>2, ChunksNat DEF TypeOK, Persist
<1>4. FlowInv'
    BY <1>1 DEF FlowInv, CopyInv, RequestInv, RequestServedOnce, Copying
<1>5. QED
    BY <1>2, <1>3, <1>4 DEF IInv

-----------------------------------------------------------------------------
(* Every step keeps the invariant and, on flash, what Persist says.         *)
LEMMA NextIInv ==
    ASSUME IInv, [Next]_vars
    PROVE  IInv' /\ Persist
<1>1. CASE Parse
    BY <1>1, ParseIInv, KeepPersists DEF IInv, Parse
<1>2. CASE Erase
    BY <1>2, EraseIInv
<1>3. CASE Copy
    BY <1>3, CopyIInv
<1>4. CASE Update
    BY <1>4, UpdateIInv
<1>5. CASE FlashFails
    BY <1>5, FlashFailsIInv
<1>6. CASE Boot
    BY <1>6, BootIInv, KeepPersists DEF IInv, Boot
<1>7. CASE PowerFails
    BY <1>7, PowerFailsIInv
<1>8. CASE UNCHANGED vars
    <2>1. UNCHANGED <<table, slots, mfg_flag, user_fw, pc, user_fw_name, pt_entry,
                      g_user_hash_ignored, mfg_mode_flag, deal_len>>
        BY <1>8 DEF vars, persistent
    <2>2. TypeOK'
        BY <2>1 DEF IInv, TypeOK
    <2>3. FlowInv'
        BY <2>1 DEF IInv, FlowInv, CopyInv, RequestInv, RequestServedOnce,
                    Copying, NeedsCopy, Content, Source, Dest, Wanted
    <2>4. Persist
        BY <2>1, KeepPersists DEF IInv, persistent
    <2>5. QED
        BY <2>2, <2>3, <2>4 DEF IInv
<1>9. QED
    BY <1>1, <1>2, <1>3, <1>4, <1>5, <1>6, <1>7, <1>8 DEF Next, Step

LEMMA IInvCorrect == Spec => []IInv
<1>1. IInv /\ [Next]_vars => IInv'
    BY NextIInv
<1>2. QED
    BY InitIInv, <1>1, PTL DEF Spec

(* Types hold in every reachable state: in particular deal_len stays within *)
(* the image and pt_entry, if any, is an entry of the table that is in      *)
(* flash, although the table changes under it.                              *)
THEOREM TypeCorrect == Spec => []TypeOK
<1>1. IInv => TypeOK
    BY DEF IInv
<1>2. QED
    BY IInvCorrect, <1>1, PTL

(* The copy runs only for an entry that asks for it, and its rewrite of the *)
(* table only when the two slots are alike; a request is never left behind. *)
THEOREM BootInvCorrect == Spec => []BootInv
<1>1. IInv => BootInv
    BY DEF IInv, FlowInv, BootInv
<1>2. QED
    BY IInvCorrect, <1>1, PTL

(* A request in HBN_RSV0 is gone by the time an image is booted for it.     *)
THEOREM RequestServedOnceCorrect == Spec => []RequestServedOnce
<1>1. IInv => RequestServedOnce
    BY DEF IInv, FlowInv, RequestInv
<1>2. QED
    BY IInvCorrect, <1>1, PTL

(* No step, interrupted ones included, changes the image an entry stands    *)
(* for.                                                                     *)
THEOREM SameImageCorrect == Spec => SameImage
<1>1. IInv /\ [Next]_vars =>
        [\A name \in DOMAIN table : Current(name)' = Current(name)]_vars
    BY NextIInv DEF Persist
<1>2. QED
    BY IInvCorrect, <1>1, PTL DEF Spec, SameImage

(* An index that asks for no copy never changes.                            *)
THEOREM CopiedOnceCorrect == Spec => CopiedOnce
<1>1. IInv /\ [Next]_vars =>
        [\A name \in DOMAIN table : table[name] < 2 => table'[name] = table[name]]_vars
    BY NextIInv DEF Persist
<1>2. QED
    BY IInvCorrect, <1>1, PTL DEF Spec, CopiedOnce

-----------------------------------------------------------------------------
(* Without a request main_task boots what the table says the firmware is:   *)
(* the lookup finds its entry, and a copy of it that is done, or whose      *)
(* rewrite of the table failed, is the same image.                          *)
FirmwareInv ==
    /\ pc = "boot" /\ ~ mfg_mode_flag /\ "FW" \in DOMAIN table =>
         /\ pt_entry.name = "FW"
         /\ NeedsCopy(pt_entry) \/ Content(pt_entry) = Current("FW")
    /\ NoFalseFailure

LEMMA ParseFirmware ==
    ASSUME IInv, Parse PROVE FirmwareInv'
<1>1. /\ TypeOK /\ UNCHANGED <<table, slots>>
      /\ pt_entry' = Lookup(Wanted(StartRequest))
      /\ pc' = "erase" \/ pc' = "boot"
    BY DEF IInv, Parse, Parsed, persistent
<1>2. StartRequest = "" /\ "FW" \in DOMAIN table =>
         pt_entry' = Entry("FW") /\ pt_entry'.name = "FW" /\ Content(pt_entry)' = Current("FW")'
    <2> SUFFICES ASSUME StartRequest = "", "FW" \in DOMAIN table
                 PROVE  pt_entry' = Entry("FW") /\ pt_entry'.name = "FW"
                        /\ Content(pt_entry)' = Current("FW")'
        OBVIOUS
    <2>1. Wanted(StartRequest) = "FW"
        BY DEF Wanted
    <2>2. pt_entry' = Entry("FW")
        BY <1>1, <2>1, LookupType
    <2>3. Entry("FW").name = "FW" /\ Entry("FW").active_index = table["FW"]
        BY <1>1, EntryType DEF TypeOK
    <2>4. QED
        BY <1>1, <2>2, <2>3 DEF Content, Source, Current
<1>3. CASE Wanted(StartRequest) \in DOMAIN table /\ NeedsCopy(pt_entry')
    <2>1. pc' = "erase" /\ user_fw_name' = StartRequest
        BY <1>3 DEF Parse
    <2>2. QED
        BY <2>1 DEF FirmwareInv, NoFalseFailure
<1>4. CASE ~ (Wanted(StartRequest) \in DOMAIN table /\ NeedsCopy(pt_entry'))
    <2>1. pc' = "boot" /\ mfg_mode_flag' = (StartRequest # "")
        BY <1>4 DEF Parse, Parsed
    <2>2. QED
        BY <1>1, <1>2, <2>1 DEF FirmwareInv, NoFalseFailure, Copying
<1>5. QED
    BY <1>3, <1>4

(* A copy that fails leaves its request in the entry, and a rewrite of the  *)
(* table that fails the new index, whose slot is by then like the old one.  *)
LEMMA FlashFailsFirmware ==
    ASSUME IInv, FirmwareInv, FlashFails PROVE FirmwareInv'
<1>1. /\ TypeOK /\ FlowInv /\ Copying /\ CutOff
      /\ pt_entry' = IF pc = "update" THEN Copied(pt_entry) ELSE pt_entry
      /\ pc' = "boot" /\ mfg_mode_flag' = (user_fw_name # "")
    BY DEF IInv, FlashFails, Parsed, Copying
<1>2. Persist
    BY <1>1, CutOffPersists
<1>3. CASE user_fw_name # ""
    BY <1>1, <1>3 DEF FirmwareInv, NoFalseFailure, Copying
<1>4. CASE user_fw_name = ""
    <2>1. pt_entry.name = "FW" /\ pt_entry.active_index \in 0 .. 3 /\ pt_entry.active_index >= 2
          /\ pt_entry.active_index = table["FW"] /\ "FW" \in DOMAIN table
        BY <1>1, <1>4, CopyingEntry DEF FlowInv, CopyInv, Wanted
    <2>2. CASE pc # "update"
        BY <1>1, <2>1, <2>2 DEF FirmwareInv, NoFalseFailure, Copying, NeedsCopy
    <2>3. CASE pc = "update"
        <3>1. slots' = slots /\ pt_entry' = Copied(pt_entry)
            BY <1>1, <2>3 DEF CutOff
        <3>2. /\ pt_entry'.name = "FW" /\ pt_entry'.active_index = Dest(pt_entry)
              /\ Dest(pt_entry) % 2 = Dest(pt_entry)
            BY <2>1, <3>1, TwoSlots DEF Copied
        <3>3. Content(pt_entry)' = slots["FW"][Dest(pt_entry)]
            BY <3>1, <3>2 DEF Content, Source
        <3>4. slots["FW"][Dest(pt_entry)] = Current("FW")
            BY <1>1, <2>1, <2>3 DEF FlowInv, CopyInv, Content, Source, Current
        <3>5. Current("FW")' = Current("FW")
            BY <1>2, <2>1 DEF Persist
        <3>6. QED
            BY <1>1, <3>2, <3>3, <3>4, <3>5 DEF FirmwareInv, NoFalseFailure, Copying
    <2>4. QED
        BY <2>2, <2>3
<1>5. QED
    BY <1>3, <1>4

LEMMA BootFirmware ==
    ASSUME IInv, FirmwareInv, Boot PROVE FirmwareInv'
<1>1. /\ TypeOK /\ pc = "boot"
      /\ UNCHANGED <<table, slots, pt_entry>>
      /\ pc' \in {"app", "parse", "forever"}
      /\ pc' = "forever" => ~ Bootable(pt_entry) /\ ~ mfg_mode_flag
    BY DEF IInv, Boot, persistent
<1>2. ASSUME pc' = "forever", "FW" \in DOMAIN table
      PROVE  ~ Intact(Current("FW")) \/ pt_entry.active_index >= 2
    <2>1. /\ pt_entry.name = "FW" /\ ~ Bootable(pt_entry)
          /\ NeedsCopy(pt_entry) \/ Content(pt_entry) = Current("FW")
        BY <1>1, <1>2 DEF FirmwareInv
    <2>2. pt_entry # NoEntry
        <3>1. NoEntry.name = ""
            BY DEF NoEntry, PtEntry
        <3>2. QED
            BY <2>1, <3>1
    <2>3. CASE NeedsCopy(pt_entry)
        BY <2>3 DEF NeedsCopy
    <2>4. CASE ~ NeedsCopy(pt_entry)
        <3>1. ~ (Content(pt_entry).n > 0) \/ ~ Intact(Content(pt_entry))
            BY <2>1, <2>2, <2>4 DEF Bootable
        <3>2. QED
            BY <2>1, <2>4, <3>1, ChunksNat DEF Intact
    <2>5. QED
        BY <2>3, <2>4
<1>3. NoFalseFailure'
    BY <1>1, <1>2 DEF NoFalseFailure, Current, Intact
<1>4. QED
    BY <1>1, <1>3 DEF FirmwareInv, Copying

LEMMA NextFirmware ==
    ASSUME IInv, FirmwareInv, [Next]_vars PROVE FirmwareInv'
<1>1. CASE Erase \/ Copy
    BY <1>1 DEF Erase, Copy, FirmwareInv, NoFalseFailure, Copying
<1>2. CASE Update \/ PowerFails
    BY <1>2 DEF Update, PowerFails, FirmwareInv, NoFalseFailure, Copying
<1>3. CASE UNCHANGED vars
    BY <1>3 DEF vars, persistent, FirmwareInv, NoFalseFailure, Copying, NeedsCopy, Content, Source,
                Current, Intact
<1>4. QED
    BY <1>1, <1>2, <1>3, ParseFirmware, FlashFailsFirmware, BootFirmware DEF Next, Step

(* main_task gives up only for a firmware that is not intact or could not   *)
(* be copied: no order of requests, copies, errors and power failures makes *)
(* it give up a good one.                                                   *)
THEOREM NoFalseFailureCorrect == Spec => []NoFalseFailure
<1>1. Init => FirmwareInv
    BY DEF Init, FirmwareInv, NoFalseFailure, Copying
<1>2. IInv /\ FirmwareInv /\ [Next]_vars => FirmwareInv'
    BY NextFirmware
<1>3. FirmwareInv => NoFalseFailure
    BY DEF FirmwareInv
<1>4. QED
    BY IInvCorrect, <1>1, <1>2, <1>3, PTL DEF Spec

-----------------------------------------------------------------------------
(* How many steps main_task has left.                                       *)
LEMMA StepsAt ==
    /\ pc = "parse" => StepsOfAttempt = IF MustCopy(user_fw_name) THEN Chunks + 5 ELSE 2
    /\ pc = "erase" => StepsOfAttempt = Chunks + 4
    /\ pc = "copy" => StepsOfAttempt = Chunks + 3 - deal_len
    /\ pc = "update" => StepsOfAttempt = 3
    /\ pc = "boot" => StepsOfAttempt = 1
    /\ pc \in {"app", "forever"} => StepsOfAttempt = 0
BY DEF StepsOfAttempt

LEMMA StepsLeftAre ==
    /\ Requested => StepsLeft = StepsOfAttempt + (Chunks + 5)
    /\ ~ Requested => StepsLeft = StepsOfAttempt + 0
BY DEF StepsLeft

LEMMA CopyLen == ASSUME IInv, pc = "copy" PROVE deal_len \in 0 .. Chunks - 1
<1>1. deal_len \in 0 .. Chunks /\ deal_len < Chunks /\ Chunks \in Nat
    BY ChunksNat DEF IInv, TypeOK, FlowInv, CopyInv
<1>2. QED
    BY <1>1

(* A step within the attempt leaves fewer steps of it and the request as    *)
(* it was; one that ends the attempt for a request has the other to go on   *)
(* with.                                                                    *)
LEMMA FewerOfAttempt ==
    ASSUME NEW a \in Nat, NEW b \in Nat, b < a,
           StepsOfAttempt = a, StepsOfAttempt' = b, Requested' => Requested
    PROVE  StepsLeft' \in 0 .. StepsLeft - 1
<1>1. /\ Requested => StepsLeft = a + (Chunks + 5)
      /\ ~ Requested => StepsLeft = a + 0
      /\ Requested' => StepsLeft' = b + (Chunks + 5)
      /\ ~ Requested' => StepsLeft' = b + 0
    BY DEF StepsLeft
<1>2. Chunks \in Nat
    BY ChunksNat
<1>3. CASE Requested /\ Requested'
    <2>1. StepsLeft = a + (Chunks + 5) /\ StepsLeft' = b + (Chunks + 5)
        BY <1>1, <1>3
    <2>2. QED
        BY <1>2, <2>1
<1>4. CASE Requested /\ ~ Requested'
    <2>1. StepsLeft = a + (Chunks + 5) /\ StepsLeft' = b
        BY <1>1, <1>4
    <2>2. QED
        BY <1>2, <2>1
<1>5. CASE ~ Requested /\ ~ Requested'
    <2>1. StepsLeft = a /\ StepsLeft' = b
        BY <1>1, <1>5
    <2>2. QED
        BY <2>1
<1>6. QED
    BY <1>3, <1>4, <1>5

LEMMA ParseGetsOn ==
    ASSUME IInv, Parse, ~ MfgRequest PROVE StepsLeft' \in 0 .. StepsLeft - 1
<1>1. TypeOK /\ pc = "parse" /\ StartRequest = user_fw_name /\ Chunks \in Nat
    BY ChunksNat DEF IInv, Parse, StartRequest, MfgRequest
<1>2. CASE Wanted(StartRequest) \in DOMAIN table /\ NeedsCopy(pt_entry')
    <2>1. pc' = "erase" /\ user_fw_name' = user_fw_name
        BY <1>1, <1>2 DEF Parse
    <2>2. MustCopy(user_fw_name)
        <3>1. pt_entry' = Entry(Wanted(StartRequest))
            BY <1>1, <1>2, LookupType DEF Parse
        <3>2. table[Wanted(StartRequest)] >= 2
            BY <1>1, <1>2, <3>1, EntryType DEF NeedsCopy, TypeOK
        <3>3. QED
            BY <1>1, <1>2, <3>2 DEF MustCopy
    <2>3. StepsOfAttempt = Chunks + 5
        BY <1>1, <2>2, StepsAt
    <2>4. StepsOfAttempt' = Chunks + 4
        BY <2>1 DEF StepsOfAttempt
    <2>5. Requested' => Requested
        BY <1>1, <2>1 DEF Requested, Copying
    <2>6. Chunks + 5 \in Nat /\ Chunks + 4 \in Nat /\ Chunks + 4 < Chunks + 5
        BY <1>1
    <2>7. QED
        BY <2>3, <2>4, <2>5, <2>6, FewerOfAttempt
<1>3. CASE ~ (Wanted(StartRequest) \in DOMAIN table /\ NeedsCopy(pt_entry'))
    <2>1. pc' = "boot" /\ mfg_mode_flag' = (user_fw_name # "")
        BY <1>1, <1>3 DEF Parse, Parsed
    <2>2. PICK a \in Nat : StepsOfAttempt = a /\ a > 1
        <3>1. Chunks + 5 \in Nat /\ Chunks + 5 > 1
            BY <1>1
        <3>2. QED
            BY <1>1, <3>1, StepsAt
    <2>3. StepsOfAttempt' = 1
        BY <2>1 DEF StepsOfAttempt
    <2>4. Requested' => Requested
        BY <1>1, <2>1 DEF Requested, Copying
    <2>5. QED
        BY <2>2, <2>3, <2>4, FewerOfAttempt
<1>4. QED
    BY <1>2, <1>3

LEMMA EraseGetsOn == ASSUME IInv, Erase PROVE StepsLeft' \in 0 .. StepsLeft - 1
<1>1. pc = "erase" /\ pc' = "copy" /\ deal_len' = 0 /\ user_fw_name' = user_fw_name
    BY DEF Erase
<1>2. Chunks \in Nat
    BY ChunksNat
<1>3. StepsOfAttempt = Chunks + 4
    BY <1>1, StepsAt
<1>4. StepsOfAttempt' = Chunks + 3 - 0
    BY <1>1 DEF StepsOfAttempt
<1>5. Chunks + 4 \in Nat /\ Chunks + 3 - 0 \in Nat /\ Chunks + 3 - 0 < Chunks + 4
    BY <1>2
<1>6. Requested' => Requested
    BY <1>1 DEF Requested, Copying
<1>7. QED
    BY <1>3, <1>4, <1>5, <1>6, FewerOfAttempt

LEMMA CopyGetsOn == ASSUME IInv, Copy PROVE StepsLeft' \in 0 .. StepsLeft - 1
<1>1. /\ pc = "copy" /\ deal_len' = deal_len + 1 /\ user_fw_name' = user_fw_name
      /\ pc' = IF deal_len + 1 = Chunks THEN "update" ELSE "copy"
    BY DEF Copy
<1>2. deal_len \in 0 .. Chunks - 1 /\ Chunks \in Nat
    BY <1>1, CopyLen, ChunksNat
<1>3. StepsOfAttempt = Chunks + 3 - deal_len
    BY <1>1, StepsAt
<1>4. Requested' => Requested
    BY <1>1 DEF Requested, Copying
<1>5. CASE deal_len + 1 = Chunks
    <2>1. StepsOfAttempt' = 3
        BY <1>1, <1>5 DEF StepsOfAttempt
    <2>2. Chunks + 3 - deal_len = 4
        BY <1>2, <1>5
    <2>3. QED
        BY <1>3, <1>4, <2>1, <2>2, FewerOfAttempt
<1>6. CASE deal_len + 1 # Chunks
    <2>1. StepsOfAttempt' = Chunks + 3 - (deal_len + 1)
        BY <1>1, <1>6 DEF StepsOfAttempt
    <2>2. /\ Chunks + 3 - deal_len \in Nat /\ Chunks + 3 - (deal_len + 1) \in Nat
          /\ Chunks + 3 - (deal_len + 1) < Chunks + 3 - deal_len
        BY <1>2
    <2>3. QED
        BY <1>3, <1>4, <2>1, <2>2, FewerOfAttempt
<1>7. QED
    BY <1>5, <1>6

(* After the rewrite the entry asks for no copy any more.                   *)
LEMMA UpdateGetsOn == ASSUME IInv, Update PROVE StepsLeft' \in 0 .. StepsLeft - 1
<1>1. /\ TypeOK /\ FlowInv /\ Copying /\ pc = "update" /\ pc' = "parse"
      /\ table' = WithCopied /\ user_fw_name' = user_fw_name
    BY DEF IInv, Update, Copying
<1>2. /\ pt_entry.name = Wanted(user_fw_name) /\ pt_entry.active_index \in 0 .. 3
      /\ pt_entry.name \in DOMAIN table
    BY <1>1, CopyingEntry DEF FlowInv, CopyInv
<1>3. table'[Wanted(user_fw_name)] \in 0 .. 1
    BY <1>1, <1>2, WithCopiedFacts, TwoSlots DEF TypeOK
<1>4. ~ MustCopy(user_fw_name)'
    <2>1. Wanted(user_fw_name)' = Wanted(user_fw_name)
        BY <1>1 DEF Wanted
    <2>2. ~ (table'[Wanted(user_fw_name)] >= 2)
        BY <1>3
    <2>3. QED
        BY <2>1, <2>2 DEF MustCopy
<1>5. StepsOfAttempt' = 2
    BY <1>1, <1>4 DEF StepsOfAttempt
<1>6. StepsOfAttempt = 3
    BY <1>1, StepsAt
<1>7. Requested' => Requested
    BY <1>1 DEF Requested, Copying
<1>8. QED
    BY <1>5, <1>6, <1>7, FewerOfAttempt

LEMMA FlashFailsGetsOn == ASSUME IInv, FlashFails PROVE StepsLeft' \in 0 .. StepsLeft - 1
<1>1. Copying /\ pc' = "boot" /\ mfg_mode_flag' = (user_fw_name # "")
    BY DEF FlashFails, Parsed, Copying
<1>2. StepsOfAttempt' = 1
    BY <1>1 DEF StepsOfAttempt
<1>3. PICK a \in Nat : StepsOfAttempt = a /\ a > 1
    <2>1. CASE pc = "copy"
        <3>1. deal_len \in 0 .. Chunks - 1 /\ Chunks \in Nat
            BY <2>1, CopyLen, ChunksNat
        <3>2. Chunks + 3 - deal_len \in Nat /\ Chunks + 3 - deal_len > 1
            BY <3>1
        <3>3. QED
            BY <2>1, <3>2, StepsAt
    <2>2. CASE pc = "erase"
        <3>1. Chunks + 4 \in Nat /\ Chunks + 4 > 1
            BY ChunksNat
        <3>2. QED
            BY <2>2, <3>1, StepsAt
    <2>3. CASE pc = "update"
        BY <2>3, StepsAt
    <2>4. QED
        BY <1>1, <2>1, <2>2, <2>3 DEF Copying
<1>4. Requested' => Requested
    BY <1>1 DEF Requested, Copying
<1>5. QED
    BY <1>2, <1>3, <1>4, FewerOfAttempt

(* A request that did not boot is forgotten: at most the attempt without    *)
(* one is left, with a copy of its own.                                     *)
LEMMA BootGetsOn == ASSUME IInv, Boot PROVE StepsLeft' \in 0 .. StepsLeft - 1
<1>1. /\ pc = "boot" /\ user_fw_name = "" /\ user_fw_name' = ""
      /\ pc' = IF Bootable(pt_entry) THEN "app" ELSE IF mfg_mode_flag THEN "parse" ELSE "forever"
    BY DEF IInv, Boot, FlowInv, RequestInv
<1>2. StepsOfAttempt = 1 /\ Chunks \in Nat
    BY <1>1, StepsAt, ChunksNat
<1>3. ~ Requested'
    BY <1>1 DEF Requested, Copying
<1>4. CASE pc' \in {"app", "forever"}
    <2>1. StepsOfAttempt' = 0
        BY <1>4 DEF StepsOfAttempt
    <2>2. QED
        BY <1>2, <1>3, <2>1, FewerOfAttempt
<1>5. CASE pc' = "parse"
    <2>1. Requested
        BY <1>1, <1>5 DEF Requested, Copying
    <2>2. StepsLeft = 1 + (Chunks + 5)
        BY <1>2, <2>1, StepsLeftAre
    <2>3. PICK b \in 0 .. Chunks + 5 : StepsOfAttempt' = b
        <3>1. Chunks + 5 \in 0 .. Chunks + 5 /\ 2 \in 0 .. Chunks + 5
            BY <1>2
        <3>2. QED
            BY <1>5, <3>1 DEF StepsOfAttempt
    <2>4. StepsLeft' = b + 0
        BY <1>3, <2>3 DEF StepsLeft
    <2>5. QED
        BY <1>2, <2>2, <2>4
<1>6. QED
    BY <1>1, <1>4, <1>5

(* Every step of main_task leaves fewer steps to the end of the boot, for   *)
(* any length of an image: that is why main_task does not go on for ever.   *)
THEOREM GetsOnCorrect == Spec => GetsOn
<1>1. ASSUME IInv, [Next]_vars
      PROVE  [Step /\ ~MfgRequest => StepsLeft' \in 0 .. StepsLeft - 1]_vars
    <2>1. SUFFICES ASSUME Step, ~ MfgRequest PROVE StepsLeft' \in 0 .. StepsLeft - 1
        OBVIOUS
    <2>2. QED
        BY <1>1, <2>1, ParseGetsOn, EraseGetsOn, CopyGetsOn, UpdateGetsOn, FlashFailsGetsOn,
           BootGetsOn DEF Step
<1>2. QED
    BY IInvCorrect, <1>1, PTL DEF Spec, GetsOn

-----------------------------------------------------------------------------
(* What the code keeps of HashChecked: nothing but a request sets           *)
(* g_user_hash_ignored.                                                     *)
NoRequest == mfg_flag = "" /\ user_fw = ""

QuietInv ==
    /\ NoRequest /\ user_fw_name = "" /\ ~ g_user_hash_ignored
    /\ pc = "app" => Intact(Content(pt_entry))

(* On a device without a request, whatever is interrupted and whatever      *)
(* fails, only an intact firmware is started (main.c:541 and 551, the two   *)
(* places that set g_user_hash_ignored).                                    *)
THEOREM IntactWithoutRequest ==
    Spec /\ NoRequest => [](pc = "app" => Intact(Content(pt_entry)))
<1>1. Init /\ NoRequest => QuietInv
    BY DEF Init, NoRequest, QuietInv
<1>2. ASSUME IInv, QuietInv, [Next]_vars PROVE QuietInv'
    <2>1. mfg_flag' = mfg_flag
        BY <1>2, NextIInv DEF Persist
    <2>2. CASE Parse
        <3>1. StartRequest = "" /\ ~ g_user_hash_ignored /\ user_fw = ""
            BY <1>2 DEF StartRequest, QuietInv, NoRequest
        <3>2. ~ g_user_hash_ignored' /\ user_fw' = "" /\ user_fw_name' = "" /\ pc' # "app"
            BY <2>2, <3>1 DEF Parse, Parsed
        <3>3. QED
            BY <1>2, <2>1, <3>2 DEF QuietInv, NoRequest
    <2>3. CASE Erase \/ Copy \/ Update
        <3>1. pc' # "app" /\ UNCHANGED <<user_fw, user_fw_name, g_user_hash_ignored>>
            BY <2>3 DEF Erase, Copy, Update
        <3>2. QED
            BY <1>2, <2>1, <3>1 DEF QuietInv, NoRequest
    <2>4. CASE FlashFails
        BY <1>2, <2>1, <2>4 DEF FlashFails, Parsed, QuietInv, NoRequest
    <2>5. CASE Boot
        BY <1>2, <2>1, <2>5
        DEF Boot, Bootable, QuietInv, NoRequest, persistent, Content, Source, Intact
    <2>6. CASE PowerFails
        BY <1>2, <2>1, <2>6 DEF PowerFails, QuietInv, NoRequest
    <2>7. CASE UNCHANGED vars
        BY <1>2, <2>1, <2>7
        DEF vars, persistent, QuietInv, NoRequest, Content, Source, Intact
    <2>8. QED
        BY <1>2, <2>2, <2>3, <2>4, <2>5, <2>6, <2>7 DEF Next, Step
<1>3. QuietInv => (pc = "app" => Intact(Content(pt_entry)))
    BY DEF QuietInv
<1>4. QED
    BY IInvCorrect, <1>1, <1>2, <1>3, PTL DEF Spec
=============================================================================
