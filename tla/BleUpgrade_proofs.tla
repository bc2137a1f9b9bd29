-------------------------- MODULE BleUpgrade_proofs --------------------------
(***************************************************************************)
(* Proofs about BleUpgrade, for every number of pages, size of the slot    *)
(* and number of transactions: one inductive invariant, which follows the  *)
(* one command that is under way, and the safety properties it implies.    *)
(***************************************************************************)
EXTENDS BleUpgradeProps, SequenceTheorems, TLAPS

-----------------------------------------------------------------------------
(***************************************************************************)
(* Sequences of one and two elements, commands and their frames.           *)
(***************************************************************************)

LEMMA Ones ==
    ASSUME NEW S, NEW a \in S
    PROVE  /\ <<a>> \in Seq(S) /\ <<a>> # <<>> /\ Len(<<a>>) = 1 /\ <<a>>[1] = a
           /\ Head(<<a>>) = a /\ Tail(<<a>>) = <<>>
           /\ <<>> \o <<a>> = <<a>> /\ Append(<<>>, a) = <<a>>
PROOF
<1>1. <<a>> \in Seq(S) /\ <<a>> # <<>> /\ Len(<<a>>) = 1 /\ <<a>>[1] = a
      /\ <<>> \in Seq(S) /\ Len(<<>>) = 0
    OBVIOUS
<1>2. Head(<<a>>) = a /\ Tail(<<a>>) = <<>>
    OBVIOUS
<1>3. <<>> \o <<a>> = <<a>>
    BY <1>1, ConcatEmptySeq
<1>4. Append(<<>>, a) = <<a>>
    BY <1>1, <1>3, AppendIsConcat
<1> QED BY <1>1, <1>2, <1>3, <1>4

LEMMA AppendOne ==
    ASSUME NEW S, NEW t \in Seq(S), Len(t) = 1, NEW b \in S
    PROVE  Append(t, b) = <<t[1], b>>
PROOF
<1>1. Append(t, b) \in Seq(S) /\ Len(Append(t, b)) = Len(t) + 1
    BY AppendProperties, Zenon
<1>2. Append(t, b)[1] = t[1] /\ Append(t, b)[2] = b
    BY AppendProperties
<1>3. /\ <<t[1], b>> \in Seq(S) /\ Len(<<t[1], b>>) = 2
      /\ <<t[1], b>>[1] = t[1] /\ <<t[1], b>>[2] = b
    OBVIOUS
<1>4. Len(Append(t, b)) = 2
    BY <1>1
<1>5. \A i \in 1 .. Len(Append(t, b)) : Append(t, b)[i] = <<t[1], b>>[i]
    BY <1>2, <1>3, <1>4
<1> QED BY <1>1, <1>3, <1>4, <1>5, SeqEqual, Zenon

LEMMA TailOne ==
    ASSUME NEW S, NEW s \in Seq(S), Len(s) = 2
    PROVE  Tail(s) = <<s[2]>>
PROOF
<1>1. s # <<>>
    OBVIOUS
<1>2. Tail(s) \in Seq(S) /\ Len(Tail(s)) = Len(s) - 1
    BY <1>1, HeadTailProperties, Zenon
<1>3. Len(Tail(s)) = 1 /\ Tail(s)[1] = s[2]
    BY <1>1, HeadTailProperties
<1>4. <<s[2]>> \in Seq(S) /\ Len(<<s[2]>>) = 1 /\ <<s[2]>>[1] = s[2]
    OBVIOUS
<1>5. \A i \in 1 .. Len(Tail(s)) : Tail(s)[i] = <<s[2]>>[i]
  <2> DEFINE u == Tail(s)
             v == <<s[2]>>
  <2>1. Len(u) = 1 /\ u[1] = v[1]
    BY <1>3, <1>4
  <2> HIDE DEF u, v
  <2>2. \A i \in 1 .. Len(u) : u[i] = v[i]
    BY <2>1
  <2> QED BY <2>2 DEF u, v
<1>6. Len(Tail(s)) = Len(<<s[2]>>)
    BY <1>3, <1>4
<1> QED BY <1>2, <1>4, <1>5, <1>6, SeqEqual, Zenon

LEMMA Twos ==
    ASSUME NEW S, NEW a \in S, NEW b \in S
    PROVE  /\ <<a, b>> \in Seq(S) /\ <<a, b>> # <<>> /\ Len(<<a, b>>) = 2
           /\ <<a, b>>[1] = a /\ <<a, b>>[2] = b
           /\ Head(<<a, b>>) = a /\ Tail(<<a, b>>) = <<b>>
           /\ <<>> \o <<a, b>> = <<a, b>> /\ Append(<<a>>, b) = <<a, b>>
PROOF
<1>1. /\ <<a, b>> \in Seq(S) /\ Len(<<a, b>>) = 2
      /\ <<a, b>>[1] = a /\ <<a, b>>[2] = b
    OBVIOUS
<1>7. <<a, b>> # <<>>
    OBVIOUS
<1>6. Head(<<a, b>>) = a
    OBVIOUS
<1>2. <<a>> \in Seq(S) /\ Len(<<a>>) = 1 /\ <<a>>[1] = a
    OBVIOUS
<1>3. Tail(<<a, b>>) = <<<<a, b>>[2]>>
    BY <1>1, TailOne, Zenon
<1>4. Append(<<a>>, b) = <<<<a>>[1], b>>
    BY <1>2, AppendOne, Zenon
<1>5. <<>> \o <<a, b>> = <<a, b>>
    BY <1>1, ConcatEmptySeq
<1> QED BY <1>1, <1>2, <1>3, <1>4, <1>5, <1>6, <1>7, Zenon

LEMMA CommandFacts ==
    ASSUME NEW c \in Commands
    PROVE  /\ c = Cmd(c.cmd, c.arg)
           /\ c.cmd \in {"erase", "write", "reset"} /\ c.arg \in 0 .. Pages
           /\ c.cmd = "reset" => c.arg = 0
    BY LoaderAssumption DEF Commands, Cmd

LEMMA PartFacts ==
    ASSUME NEW c \in Commands, NEW nr, NEW bytes
    PROVE  LET part == Part(c, nr, bytes)
           IN  /\ part.cmd = c.cmd /\ part.arg = c.arg
               /\ part.part = nr /\ part.bytes = bytes
               /\ nr \in {1, 2} /\ bytes \in {5, 12, 24, 4080} => part \in Parts
    BY CommandFacts DEF Part, Parts

LEMMA FrameOf ==
    ASSUME NEW c \in Commands
    PROVE  /\ c.cmd = "erase" => Frame(c) = <<Part(c, 1, 12)>>
           /\ c.cmd = "reset" => Frame(c) = <<Part(c, 1, 5)>>
           /\ c.cmd = "write" => Frame(c) = <<Part(c, 1, 4080), Part(c, 2, 24)>>
    BY DEF Frame

LEMMA FrameFacts ==
    ASSUME NEW c \in Commands
    PROVE  /\ Len(Frame(c)) = IF c.cmd = "write" THEN 2 ELSE 1
           /\ Frame(c) \in Seq(Parts)
           /\ \A i \in 1 .. Len(Frame(c)) :
                Frame(c)[i].cmd = c.cmd /\ Frame(c)[i].arg = c.arg
PROOF
<1>1. /\ Part(c, 1, 12) \in Parts /\ Part(c, 1, 5) \in Parts
      /\ Part(c, 1, 4080) \in Parts /\ Part(c, 2, 24) \in Parts
    BY PartFacts
<1>2. CASE c.cmd = "erase"
  <2>1. Frame(c) = <<Part(c, 1, 12)>>
    BY <1>2, FrameOf
  <2> QED BY <1>1, <1>2, <2>1, Ones, Twos, PartFacts
<1>3. CASE c.cmd = "reset"
  <2>1. Frame(c) = <<Part(c, 1, 5)>>
    BY <1>3, FrameOf
  <2> QED BY <1>1, <1>3, <2>1, Ones, Twos, PartFacts
<1>4. CASE c.cmd = "write"
  <2>1. Frame(c) = <<Part(c, 1, 4080), Part(c, 2, 24)>>
    BY <1>4, FrameOf
  <2> QED BY <1>1, <1>4, <2>1, Ones, Twos, PartFacts
<1> QED BY <1>2, <1>3, <1>4, CommandFacts

LEMMA CarriesFacts ==
    ASSUME NEW S, NEW parts \in Seq(S), NEW c \in Commands
    PROVE  Carries(parts, c) <=>
             /\ Len(Frame(c)) <= Len(parts)
             /\ \A i \in 1 .. Len(Frame(c)) : parts[i] = Frame(c)[i]
PROOF
<1> DEFINE f == Frame(c)
<1>1. Len(f) \in {1, 2} /\ f \in Seq(Parts)
    BY FrameFacts
<1> HIDE DEF f
<1>2. SubSeq(f, 1, Len(f)) = f
    BY <1>1, SubSeqFull
<1>3. CASE Len(f) <= Len(parts)
  <2>1. Len(parts) \in Nat /\ \A i \in 1 .. Len(f) : parts[i] \in S
    BY <1>1, <1>3
  <2>2. SubSeq(parts, 1, Len(f)) \in Seq(S) /\ Len(SubSeq(parts, 1, Len(f))) = Len(f)
        /\ \A i \in 1 .. Len(f) : SubSeq(parts, 1, Len(f))[i] = parts[1 + i - 1]
    BY <1>1, <2>1, SubSeqProperties
  <2>3. ASSUME \A i \in 1 .. Len(f) : parts[i] = f[i]
        PROVE  SubSeq(parts, 1, Len(f)) = f
    <3> DEFINE u == SubSeq(parts, 1, Len(f))
    <3>1. u \in Seq(S \cup Parts) /\ f \in Seq(S \cup Parts)
        BY <2>2, <1>1, SeqMonotonic
    <3>2. Len(u) = Len(f) /\ \A i \in 1 .. Len(u) : u[i] = f[i]
        BY <2>2, <2>3, <1>1
    <3> HIDE DEF u
    <3>3. u = f
        BY <3>1, <3>2, SeqEqual
    <3> QED BY <3>3 DEF u
  <2>4. ASSUME SubSeq(parts, 1, Len(f)) = f
        PROVE  \A i \in 1 .. Len(f) : parts[i] = f[i]
    BY <2>2, <2>4, <1>1
  <2> QED BY <1>2, <1>3, <2>3, <2>4 DEF Carries, IsPrefix, f
<1> QED BY <1>3 DEF Carries, IsPrefix, f

LEMMA CarriesFrame ==
    ASSUME NEW c \in Commands
    PROVE  Carries(Frame(c), c)
    BY CarriesFacts, FrameFacts

-----------------------------------------------------------------------------
(***************************************************************************)
(* The inductive invariant.                                                *)
(***************************************************************************)

(* The command the host sent last, its parts, and where it can be.         *)
Asked ==
    CASE sent = "erase" -> Cmd("erase", Pages - fw_data + 1)
      [] sent = "write" -> Cmd("write", fw_data)
      [] OTHER -> Cmd("reset", 0)

Page1 == Part(Cmd("write", fw_data), 1, 4080)
Page2 == Part(Cmd("write", fw_data), 2, 24)

Zero(part) == part.cmd = "zero"
Idle == held.cmd = "none"
Busy == pc \in {"erase", "write", "reset"}
Empty == to_device = <<>> /\ rx = <<>>
NoAnswer == to_host = <<>> /\ rx_queue = <<>>
Ok == to_host = <<"ok">> \/ rx_queue = <<"ok">>
Waiting == hpc \in {"answer", "closing", "done"}

(* main_task holds a command just while it executes one, and counts as the *)
(* loader's loop lets it.                                                  *)
LoopInv ==
    /\ Busy => held.cmd = pc /\ to_cnt = 0
    /\ ~ Busy => Idle
    /\ pc = "read" \/ Busy => err_cnt <= 2
    /\ pc = "read" => to_cnt <= 1
    /\ ~ torn
    /\ back # "checked" /\ pc \in {"jump", "app"} => Bootable(slot)
    /\ pc = "checked" => Bootable(slot)

(* What the host's place says of the connection and of the last command.   *)
HostInv ==
    /\ hpc # "hung"
    /\ hpc \notin {"done", "gaveup"} => retry < MaxTry
    /\ hpc \in {"scan", "connect", "done", "gaveup"} => ~ link
    /\ ~ link => to_device = <<>> /\ to_host = <<>>
    /\ hpc = "answer" => sent \in {"erase", "write"}
    /\ hpc = "answer" /\ sent = "write" => fw_data <= Pages
    /\ hpc \in {"closing", "done"} => sent = "reset" /\ fw_data = Pages + 1
    /\ held.cmd = "reset" => hpc \in {"closing", "done"}

(* One thing is under way at a time: the command the host waits for is     *)
(* travelling, in the buffer, being executed or answered.  What a reset    *)
(* command left never outlives its transaction, and of what the others     *)
(* left a new connection keeps zeroes only.                                *)
WireInv ==
    /\ hpc \in {"scan", "connect", "gaveup"} => \A i \in DOMAIN rx : rx[i].cmd # "reset"
    /\ hpc = "settle" => to_device = <<>> /\ to_host = <<>> /\ Idle
                         /\ \A i \in DOMAIN rx : Zero(rx[i])
    /\ hpc = "send" => Empty /\ Idle /\ NoAnswer
    /\ ~ Idle => Empty
    /\ Waiting /\ ~ Idle => held = Asked /\ NoAnswer
    /\ Waiting /\ ~ Empty => Idle /\ NoAnswer
    /\ hpc \in {"closing", "done"} => NoAnswer
    /\ OneAnswer
    /\ rx = <<>> => rx_len = 0

(* Where the parts of each command are, and what may be in front of them.  *)
EraseFlight == hpc = "answer" /\ sent = "erase" =>
    \/ to_device = Frame(Asked) /\ \A i \in DOMAIN rx : Zero(rx[i])
    \/ to_device = <<>> /\ \A i \in DOMAIN rx : Zero(rx[i]) \/ rx[i] = Frame(Asked)[1]

PageFlight == hpc = "answer" /\ sent = "write" =>
    \/ to_device = <<Page1, Page2>> /\ rx = <<>>
    \/ to_device = <<Page2>> /\ rx = <<Page1>> /\ rx_len = 4080 /\ (link => ~ is_rcv_msg)
    \/ to_device = <<>> /\ rx = <<Page1, Page2>> /\ (link => is_rcv_msg)
    \/ to_device = <<>> /\ rx = <<Page1>> /\ ~ link
    \/ Empty

ResetFlight == hpc \in {"closing", "done"} =>
    \/ to_device = Frame(Cmd("reset", 0)) /\ rx = <<>>
    \/ to_device = <<>> /\ rx = Frame(Cmd("reset", 0))
    \/ Empty

(* While a page is due, the session that takes it is open over Bluetooth.  *)
Due == \/ hpc = "send"
       \/ hpc = "answer" /\ sent = "write" /\ ~ Empty
       \/ hpc = "answer" /\ Ok

SessionInv == link /\ Due =>
    /\ pc = "read" /\ reading = "ble" /\ if_type = "ble"
    /\ is_rcv_msg /\ rx = <<>> => to_cnt = 0

(* The first n pages are in the slot, and nothing else.                    *)
Written(n) ==
    /\ \A p \in 1 .. n : slot[p - 1] = p
    /\ \A i \in n .. Pages - 1 : slot[i] = Blank
    /\ link /\ (pc = "read" \/ pc = "write") => iap_write_addr = n

(* In a transaction that began with everything in an unused session, the   *)
(* slot holds what the host counts as written at each point.               *)
PagesInv == fresh =>
    /\ hpc = "answer" /\ sent = "erase" =>
        fw_data = 1 /\ (pc \in {"read", "erase"} => iap_write_addr = 0)
    /\ hpc = "answer" /\ sent = "write" /\ link /\ NoAnswer /\ (~ Empty \/ ~ Idle) =>
        Written(fw_data - 1)
    /\ hpc = "answer" /\ Ok => Written(IF sent = "write" THEN fw_data ELSE fw_data - 1)
    /\ hpc = "send" => Written(fw_data - 1)
    /\ hpc \in {"closing", "done"} => Whole(slot)

(* How far the write address can have got: one sector for every page the   *)
(* host knows or waits to be written, and one for each failed transaction. *)
Reach == fw_data - 1 + retry + (IF hpc = "answer" /\ sent = "write" THEN 1 ELSE 0)

WriteDue ==
    \/ held.cmd = "write"
    \/ \E i \in DOMAIN rx : rx[i].cmd = "write"
    \/ \E i \in DOMAIN to_device : to_device[i].cmd = "write"

ReachInv ==
    /\ iap_write_addr <= Reach
    /\ WriteDue => iap_write_addr < Reach

PsmInv == Pages < SlotSectors => PsmSpared

IInv == /\ TypeOK /\ LoopInv /\ HostInv /\ WireInv
        /\ EraseFlight /\ PageFlight /\ ResetFlight
        /\ SessionInv /\ PagesInv /\ ReachInv /\ PsmInv

-----------------------------------------------------------------------------
(***************************************************************************)
(* What the states of the invariant have in common.                        *)
(***************************************************************************)
LEMMA Asks ==
    ASSUME TypeOK, HostInv, Waiting
    PROVE  /\ Asked \in Commands /\ Asked.cmd = sent
           /\ sent = "erase" => Frame(Asked) = <<Part(Asked, 1, 12)>>
           /\ sent = "write" => Asked = Cmd("write", fw_data)
           /\ sent = "write" => Frame(Asked) = <<Page1, Page2>>
           /\ sent = "reset" => Asked = Cmd("reset", 0) /\ Frame(Asked) = <<Part(Asked, 1, 5)>>
PROOF
<1>0. sent \in {"erase", "write", "reset"} /\ fw_data \in 1 .. Pages + 1
      /\ (sent = "write" => fw_data \in 1 .. Pages)
    BY LoaderAssumption DEF HostInv, Waiting, TypeOK, HostType
<1>1. Asked \in Commands /\ Asked.cmd = sent
  <2>1. CASE sent = "erase"
    <3>1. Asked = Cmd("erase", Pages - fw_data + 1) /\ Pages - fw_data + 1 \in 0 .. Pages
        BY <1>0, <2>1, LoaderAssumption DEF Asked
    <3> QED BY <2>1, <3>1 DEF Commands, Cmd
  <2>2. CASE sent = "write"
    BY <1>0, <2>2 DEF Asked, Cmd, Commands
  <2>3. CASE sent = "reset"
    BY <2>3 DEF Asked, Cmd, Commands
  <2> QED BY <1>0, <2>1, <2>2, <2>3
<1>2. /\ sent = "write" => Asked = Cmd("write", fw_data)
      /\ sent = "reset" => Asked = Cmd("reset", 0)
    BY DEF Asked
<1> QED BY <1>1, <1>2, FrameOf DEF Page1, Page2

LEMMA Carried ==
    ASSUME TypeOK, NEW c \in Commands, Carries(rx, c)
    PROVE  1 \in DOMAIN rx /\ rx[1].cmd = c.cmd /\ rx[1].arg = c.arg /\ rx # <<>>
PROOF
<1>1. rx \in Seq(Parts)
    BY DEF TypeOK, TransportType
<1>2. Len(Frame(c)) <= Len(rx) /\ \A i \in 1 .. Len(Frame(c)) : rx[i] = Frame(c)[i]
    BY <1>1, CarriesFacts
<1>3. Len(Frame(c)) \in {1, 2} /\ Frame(c)[1].cmd = c.cmd /\ Frame(c)[1].arg = c.arg
    BY FrameFacts
<1> QED BY <1>1, <1>2, <1>3

(* A flash operation runs while the host waits for its outcome, or after   *)
(* the host has given up the connection.                                   *)
LEMMA WhileFlashing ==
    ASSUME IInv, pc \in {"erase", "write"}
    PROVE  /\ ~ Idle /\ held.cmd = pc /\ to_cnt = 0
           /\ held \in Commands /\ held.arg \in 0 .. Pages
           /\ pc = "write" => held.arg \in 1 .. Pages
           /\ \/ hpc \in {"scan", "connect", "gaveup"} /\ ~ link
              \/ hpc = "answer" /\ sent = pc /\ held = Asked /\ Empty /\ NoAnswer
PROOF
<1>1. ~ Idle /\ held.cmd = pc /\ to_cnt = 0
    BY DEF IInv, LoopInv, Busy, Idle
<1>2. held \in Commands
    BY <1>1 DEF IInv, TypeOK, TransportType, Idle, Cmd
<1>3. held.arg \in 0 .. Pages /\ (pc = "write" => held.arg \in 1 .. Pages)
    BY <1>1, <1>2, LoaderAssumption DEF Commands, Cmd
<1>4. CASE Waiting
  <2>1. held = Asked /\ Empty /\ NoAnswer
    BY <1>1, <1>4 DEF IInv, WireInv
  <2>2. sent = pc
    BY <1>1, <1>4, <2>1, Asks DEF IInv
  <2>3. hpc \in {"answer", "closing", "done"} /\ sent # "reset"
    BY <1>4, <2>2 DEF Waiting
  <2>4. hpc = "answer"
    BY <2>3 DEF IInv, HostInv
  <2> QED BY <1>1, <1>2, <1>3, <2>1, <2>2, <2>4
<1>5. CASE ~ Waiting
  <2>1. hpc \notin {"settle", "send", "hung"}
    BY <1>1 DEF IInv, WireInv, HostInv
  <2>2. hpc \in {"scan", "connect", "gaveup"}
    BY <1>5, <2>1 DEF Waiting, IInv, TypeOK, HostType
  <2> QED BY <1>1, <1>2, <1>3, <2>2 DEF IInv, HostInv
<1> QED BY <1>1, <1>2, <1>3, <1>4, <1>5

LEMMA Empties == <<>> \in Seq(Parts) /\ <<>> \in Seq({"ok", "nack"}) /\ Len(<<>>) = 0
    BY EmptySeq

LEMMA NoneSent ==
    ASSUME Len(rx_queue) \in 0 .. 1, rx_queue' = rx_queue, to_host' = <<>>
    PROVE  OneAnswer'
PROOF
<1> DEFINE m == Len(rx_queue')
           n == Len(to_host')
<1>1. m \in 0 .. 1 /\ n = 0
    BY Empties
<1>2. OneAnswer' <=> m + n <= 1
    BY Zenon DEF OneAnswer
<1> HIDE DEF m, n
<1>3. m + n <= 1
    BY <1>1
<1> QED BY <1>2, <1>3

LEMMA RestartType ==
    ASSUME TransportType, RestartTransport
    PROVE  TransportType'
PROOF
<1>1. if_type' \in {"uart", "ble"} /\ reading' \in {"uart", "ble"}
    BY DEF TransportType, RestartTransport, Disconnect
<1>2. rx_len' \in Nat /\ rx_index' \in 0 .. 1
    BY DEF RestartTransport
<1>3. link' \in BOOLEAN /\ is_rcv_msg' \in BOOLEAN /\ torn' \in BOOLEAN
    BY Zenon DEF RestartTransport, Disconnect
<1>4. rx' \in Seq(Parts) /\ to_device' \in Seq(Parts) /\ to_host' \in Seq({"ok", "nack"})
    BY Empties DEF RestartTransport, Disconnect
<1>5. held' \in Commands \cup {Cmd("none", 0)}
    BY DEF RestartTransport
<1> QED BY <1>1, <1>2, <1>3, <1>4, <1>5 DEF TransportType

LEMMA DisconnectType ==
    ASSUME TransportType, Disconnect,
           UNCHANGED <<reading, rx, rx_len, is_rcv_msg, rx_index, held, torn>>
    PROVE  TransportType'
PROOF
<1>1. /\ if_type' \in {"uart", "ble"} /\ reading' \in {"uart", "ble"}
      /\ rx_len' \in Nat /\ rx_index' \in 0 .. 1
    BY DEF TransportType, Disconnect
<1>2. link' \in BOOLEAN /\ is_rcv_msg' \in BOOLEAN /\ torn' \in BOOLEAN
    BY DEF TransportType, Disconnect
<1>3. rx' \in Seq(Parts) /\ to_device' \in Seq(Parts) /\ to_host' \in Seq({"ok", "nack"})
    BY Empties DEF TransportType, Disconnect
<1>4. held' \in Commands \cup {Cmd("none", 0)}
    BY DEF TransportType
<1> QED BY <1>1, <1>2, <1>3, <1>4 DEF TransportType

LEMMA Sending ==
    ASSUME NEW c \in Commands, to_device = <<>>, SendCommand(c)
    PROVE  /\ to_device' = Frame(c) /\ to_device' \in Seq(Parts) /\ to_device' # <<>>
           /\ sent' = c.cmd
           /\ UNCHANGED <<loader, link, if_type, reading, rx, rx_len, is_rcv_msg, rx_index,
                          held, torn, to_host>>
PROOF
<1>1. Frame(c) \in Seq(Parts) /\ Len(Frame(c)) # 0
    BY FrameFacts
<1>2. to_device' = Frame(c)
    BY <1>1, ConcatEmptySeq, Zenon DEF SendCommand
<1>3. Frame(c) # <<>>
    BY <1>1, Empties
<1> QED BY <1>1, <1>2, <1>3 DEF SendCommand

LEMMA ZeroedFacts ==
    ASSUME NEW parts \in Seq(Parts)
    PROVE  /\ Zeroed(parts) \in Seq(Parts) /\ DOMAIN Zeroed(parts) = DOMAIN parts
           /\ \A i \in DOMAIN parts : Zero(Zeroed(parts)[i])
           /\ Zeroed(parts) = <<>> => parts = <<>>
PROOF
<1>1. Len(parts) \in Nat /\ DOMAIN parts = 1 .. Len(parts)
      /\ \A i \in 1 .. Len(parts) : parts[i] \in Parts
    BY ElementOfSeq
<1>2. \A part \in Parts :
        /\ [part EXCEPT !.cmd = "zero"] \in Parts
        /\ [part EXCEPT !.cmd = "zero"].cmd = "zero"
    BY DEF Parts
<1>3. Zeroed(parts) = [i \in 1 .. Len(parts) |-> [parts[i] EXCEPT !.cmd = "zero"]]
    BY <1>1 DEF Zeroed
<1>4. Zeroed(parts) \in [1 .. Len(parts) -> Parts]
    BY <1>1, <1>2, <1>3
<1>5. Zeroed(parts) \in Seq(Parts)
    BY <1>1, <1>4, SeqDef
<1>6. Zeroed(parts) = <<>> => parts = <<>>
    BY <1>1, <1>3, <1>5, EmptySeq
<1>7. ASSUME NEW i \in DOMAIN parts
      PROVE  Zero(Zeroed(parts)[i])
  <2>1. Zeroed(parts)[i] = [parts[i] EXCEPT !.cmd = "zero"]
    BY <1>1, <1>3
  <2>2. parts[i] \in Parts
    BY <1>1
  <2> QED BY <1>2, <2>1, <2>2 DEF Zero
<1>8. DOMAIN Zeroed(parts) = DOMAIN parts
    BY <1>1, <1>3
<1> QED BY <1>5, <1>6, <1>7, <1>8

LEMMA Only ==
    ASSUME NEW S, NEW s \in Seq(S), Len(s) = 1
    PROVE  s = <<s[1]>> /\ s[1] \in S /\ Head(s) = s[1] /\ Tail(s) = <<>>
PROOF
<1>1. s[1] \in S /\ s # <<>>
    BY ElementOfSeq
<1>2. <<s[1]>> \in Seq(S) /\ Len(<<s[1]>>) = 1 /\ <<s[1]>>[1] = s[1]
    BY <1>1, Ones
<1>3. Len(s) = Len(<<s[1]>>) /\ \A i \in 1 .. Len(s) : s[i] = <<s[1]>>[i]
    BY <1>2
<1>4. s = <<s[1]>>
    BY <1>2, <1>3, SeqEqual, Zenon
<1>5. Tail(<<s[1]>>) = <<>> /\ Head(<<s[1]>>) = s[1]
    BY <1>1, Ones, Zenon
<1> QED BY <1>1, <1>4, <1>5, Zenon

(* Which bytes ble_blf_recv can get, and what the buffer then holds.       *)
EraseArrives ==
    /\ hpc = "answer" /\ sent = "erase" /\ to_device' = <<>>
    /\ rx' \in Seq(Parts) /\ rx' # <<>>
    /\ \A i \in DOMAIN rx' : Zero(rx'[i]) \/ rx'[i] = Frame(Asked)[1]

Page1Arrives ==
    /\ hpc = "answer" /\ sent = "write" /\ Page1 \in Parts /\ Page2 \in Parts
    /\ to_device' = <<Page2>> /\ rx' = <<Page1>> /\ rx_len' = 4080 /\ ~ is_rcv_msg'

Page2Arrives ==
    /\ hpc = "answer" /\ sent = "write" /\ Page1 \in Parts /\ Page2 \in Parts
    /\ to_device' = <<>> /\ rx' = <<Page1, Page2>> /\ is_rcv_msg'

ResetArrives ==
    /\ hpc \in {"closing", "done"} /\ to_device' = <<>>
    /\ rx' = Frame(Cmd("reset", 0)) /\ rx' \in Seq(Parts) /\ rx' # <<>>

Arrives == EraseArrives \/ Page1Arrives \/ Page2Arrives \/ ResetArrives

LEMMA ReceiveFacts ==
    ASSUME IInv, Receive
    PROVE  /\ Waiting /\ link /\ Idle /\ NoAnswer /\ ~ Empty
           /\ rx_len' \in Nat /\ is_rcv_msg' \in BOOLEAN /\ torn' = FALSE
           /\ Arrives
PROOF
<1>1. Waiting /\ link /\ Idle /\ NoAnswer /\ ~ Empty /\ to_device # <<>>
    BY DEF Receive, IInv, HostInv, WireInv, Waiting, Empty, TypeOK, HostType
<1>2. torn' = FALSE
    BY <1>1, Zenon DEF Receive, Idle
<1>3. /\ Asked \in Commands
      /\ Part(Asked, 1, 12) \in Parts /\ Part(Asked, 1, 5) \in Parts
      /\ sent = "write" => Page1 \in Parts /\ Page2 \in Parts
    BY <1>1, Asks, PartFacts DEF IInv, Page1, Page2
<1>4. /\ rx \in Seq(Parts) /\ to_device \in Seq(Parts) /\ rx_len \in Nat
      /\ is_rcv_msg \in BOOLEAN
    BY DEF IInv, TypeOK, TransportType
<1>5. is_rcv_msg' = (is_rcv_msg \/ IsLast(Head(to_device))) /\ is_rcv_msg' \in BOOLEAN
    BY <1>4, Zenon DEF Receive
<1>6. ASSUME hpc = "answer", sent = "erase"
      PROVE  rx_len' \in Nat /\ EraseArrives
  <2> DEFINE e == Part(Asked, 1, 12)
             kept == IF rx_len >= BLE_READBUF_SIZE THEN <<>> ELSE rx
  <2>1. Frame(Asked) = <<e>> /\ e \in Parts /\ e.bytes = 12
    BY <1>1, <1>3, <1>6, Asks, PartFacts DEF IInv
  <2>2. to_device = <<e>> /\ \A i \in DOMAIN rx : Zero(rx[i])
    BY <1>1, <1>6, <2>1 DEF IInv, EraseFlight
  <2>3. to_device' = <<>> /\ rx' = Append(kept, e) /\ rx_len' \in Nat
    BY <1>4, <2>1, <2>2, Ones DEF Receive, BLE_READBUF_SIZE
  <2>4. kept \in Seq(Parts) /\ \A i \in DOMAIN kept : Zero(kept[i])
    BY <1>4, <2>2, Empties
  <2> HIDE DEF kept, e
  <2>5. rx' \in Seq(Parts) /\ rx' # <<>> /\ Len(rx') = Len(kept) + 1
        /\ (\A i \in 1 .. Len(kept) : rx'[i] = kept[i]) /\ rx'[Len(kept) + 1] = e
    BY <2>1, <2>3, <2>4, AppendProperties
  <2>6. \A i \in DOMAIN rx' : Zero(rx'[i]) \/ rx'[i] = e
    BY <2>4, <2>5, LenProperties
  <2>7. Frame(Asked)[1] = e
    BY <2>1
  <2> QED BY <1>6, <2>3, <2>5, <2>6, <2>7 DEF EraseArrives
<1>7. ASSUME hpc = "answer", sent = "write"
      PROVE  rx_len' \in Nat /\ (Page1Arrives \/ Page2Arrives)
  <2>1. Page1.bytes = 4080 /\ Page2.bytes = 24 /\ ~ IsLast(Page1) /\ IsLast(Page2)
    BY DEF Page1, Page2, Part, Cmd, IsLast
  <2>2. \/ to_device = <<Page1, Page2>> /\ rx = <<>>
        \/ to_device = <<Page2>> /\ rx = <<Page1>> /\ rx_len = 4080
    BY <1>1, <1>7 DEF IInv, PageFlight, Empty
  <2>3. CASE to_device = <<Page1, Page2>> /\ rx = <<>>
    <3>1. rx_len = 0
        BY <2>3 DEF IInv, WireInv
    <3>2. Head(to_device) = Page1 /\ to_device' = <<Page2>> /\ rx' = <<Page1>>
        BY <1>3, <1>7, <2>3, <3>1, Ones, Twos DEF Receive, BLE_READBUF_SIZE
    <3>3. rx_len' = 4080
        BY <2>1, <3>1, <3>2 DEF Receive, BLE_READBUF_SIZE
    <3>4. ~ is_rcv_msg
      <4>1. link /\ Due
        BY <1>1, <1>7 DEF Due
      <4>2. pc = "read" /\ reading = "ble"
        BY <4>1 DEF IInv, SessionInv
      <4> QED BY <4>2 DEF Receive, Readable
    <3>5. ~ is_rcv_msg'
      <4>1. ~ IsLast(Head(to_device))
        BY <2>1, <3>2
      <4> QED BY <1>5, <3>4, <4>1, Zenon
    <3> QED BY <1>3, <1>7, <3>2, <3>3, <3>5 DEF Page1Arrives
  <2>4. CASE to_device = <<Page2>> /\ rx = <<Page1>> /\ rx_len = 4080
    <3>1. Head(to_device) = Page2 /\ to_device' = <<>> /\ rx' = <<Page1, Page2>>
        BY <1>3, <1>7, <2>4, Ones, Twos DEF Receive, BLE_READBUF_SIZE
    <3>2. rx_len' \in Nat
        BY <2>1, <2>4, <3>1 DEF Receive, BLE_READBUF_SIZE
    <3>3. is_rcv_msg'
      <4>1. IsLast(Head(to_device))
        BY <2>1, <3>1
      <4> QED BY <1>5, <4>1, Zenon
    <3> QED BY <1>3, <1>7, <3>1, <3>2, <3>3 DEF Page2Arrives
  <2> QED BY <2>2, <2>3, <2>4
<1>8. ASSUME hpc \in {"closing", "done"}
      PROVE  rx_len' \in Nat /\ ResetArrives
  <2> DEFINE r == Part(Cmd("reset", 0), 1, 5)
  <2>1. Frame(Cmd("reset", 0)) = <<r>> /\ r \in Parts /\ r.bytes = 5
    BY <1>1, <1>3, <1>8, Asks, PartFacts DEF IInv, HostInv
  <2>2. to_device = <<r>> /\ rx = <<>> /\ rx_len = 0
    BY <1>1, <1>8, <2>1 DEF IInv, ResetFlight, WireInv, Empty
  <2>3. to_device' = <<>> /\ rx' = <<r>> /\ rx_len' \in Nat
    BY <2>1, <2>2, Ones DEF Receive, BLE_READBUF_SIZE
  <2> QED BY <1>8, <2>1, <2>3, Ones DEF ResetArrives
<1>9. hpc = "answer" => sent \in {"erase", "write"}
    BY DEF IInv, HostInv
<1>10. \/ hpc = "answer" /\ sent = "erase"
       \/ hpc = "answer" /\ sent = "write"
       \/ hpc \in {"closing", "done"}
    BY <1>1, <1>9 DEF Waiting
<1>11. rx_len' \in Nat /\ Arrives
    BY <1>6, <1>7, <1>8, <1>10 DEF Arrives
<1> QED BY <1>1, <1>2, <1>5, <1>11

(* Only zeroes of an old connection are dropped while the connection is up. *)
LEMMA DroppedFacts ==
    ASSUME IInv, ReadBle \/ ReadUart, rx # <<>>, \A c \in Commands : ~ Carries(rx, c)
    PROVE  link => Zero(rx[1]) /\ ~ Due
PROOF
<1> SUFFICES ASSUME link
             PROVE  Zero(rx[1]) /\ ~ Due
    OBVIOUS
<1>1. rx \in Seq(Parts) /\ 1 \in DOMAIN rx
    BY EmptySeq, LenProperties DEF IInv, TypeOK, TransportType
<1>2. \A c \in Commands : rx # Frame(c)
    BY CarriesFrame
<1>3. is_rcv_msg
    BY <1>2 DEF ReadBle, Readable, ReadUart, UartTakes
<1>4. CASE hpc = "answer" /\ sent = "erase"
  <2>1. Asked \in Commands /\ Len(Frame(Asked)) = 1
    BY <1>4, Asks, FrameFacts DEF IInv, Waiting
  <2>2. rx[1] # Frame(Asked)[1]
    BY <1>1, <2>1, CarriesFacts, LenProperties
  <2>3. Zero(rx[1])
    BY <1>1, <1>4, <2>2 DEF IInv, EraseFlight
  <2>4. NoAnswer
    BY <1>4 DEF IInv, WireInv, Waiting, Empty
  <2> QED BY <1>4, <2>3, <2>4 DEF Due, Ok, NoAnswer
<1>5. CASE hpc = "answer" /\ sent = "write"
  <2>1. rx # <<Page1, Page2>>
    BY <1>2, <1>5, Asks DEF IInv, Waiting
  <2> QED BY <1>3, <1>5, <2>1 DEF IInv, PageFlight, Empty
<1>6. hpc \notin {"scan", "connect", "done", "gaveup", "hung", "send"}
    BY DEF IInv, HostInv, WireInv, Empty
<1>7. CASE hpc = "closing"
  <2>1. rx # Frame(Cmd("reset", 0))
    BY <1>2 DEF Commands
  <2> QED BY <1>7, <2>1 DEF IInv, ResetFlight, Empty
<1>8. CASE hpc = "settle"
    BY <1>1, <1>8 DEF IInv, WireInv, Due
<1> QED BY <1>4, <1>5, <1>6, <1>7, <1>8 DEF IInv, TypeOK, HostType, HostInv

(* What is dispatched is what the host asked last.                         *)
LEMMA DispatchedFacts ==
    ASSUME IInv, NEW c \in Commands, Carries(rx, c)
    PROVE  /\ rx # <<>> /\ ~ Zero(rx[1]) /\ (c.cmd = "write" => WriteDue)
           /\ \/ hpc \in {"scan", "connect", "gaveup"} /\ c.cmd # "reset" /\ to_device = <<>>
              \/ Waiting /\ c = Asked /\ to_device = <<>> /\ NoAnswer
PROOF
<1>1. /\ rx # <<>> /\ 1 \in DOMAIN rx
      /\ rx[1].cmd = c.cmd /\ rx[1].arg = c.arg
      /\ c = Cmd(c.cmd, c.arg) /\ c.cmd \in {"erase", "write", "reset"}
    BY Carried, CommandFacts DEF IInv
<1>2. ~ Zero(rx[1]) /\ (c.cmd = "write" => WriteDue)
    BY <1>1 DEF Zero, WriteDue
<1>3. CASE ~ Waiting
  <2>1. hpc \in {"scan", "connect", "gaveup"}
    BY <1>1, <1>2, <1>3 DEF IInv, HostInv, WireInv, Waiting, Empty, TypeOK, HostType
  <2>2. c.cmd # "reset" /\ to_device = <<>>
    BY <1>1, <2>1 DEF IInv, WireInv, HostInv
  <2> QED BY <1>1, <1>2, <2>1, <2>2
<1>4. CASE Waiting
  <2>1. NoAnswer
    BY <1>1, <1>4 DEF IInv, WireInv, Empty
  <2>2. Asked \in Commands /\ Asked.cmd = sent /\ Asked = Cmd(Asked.cmd, Asked.arg)
    BY <1>4, Asks, CommandFacts DEF IInv
  <2>3. /\ Len(Frame(Asked)) >= 1
        /\ Frame(Asked)[1].cmd = Asked.cmd /\ Frame(Asked)[1].arg = Asked.arg
    BY <2>2, FrameFacts
  <2>4. rx[1] = Frame(Asked)[1] /\ to_device = <<>>
    <3>1. CASE hpc = "answer" /\ sent = "erase"
        BY <1>1, <1>2, <3>1 DEF IInv, EraseFlight
    <3>2. CASE hpc = "answer" /\ sent = "write"
      <4>1. Frame(Asked) = <<Page1, Page2>> /\ Page1 \in Parts /\ Page2 \in Parts
            /\ Page1.cmd = "write"
        BY <1>4, <2>2, <3>2, Asks, PartFacts DEF IInv, Page1, Page2
      <4>2. rx[1] = Page1
        BY <1>1, <3>2, <4>1, Ones, Twos DEF IInv, PageFlight, Empty
      <4>3. Len(rx) >= 2
        <5>1. c.cmd = "write"
            BY <1>1, <4>1, <4>2
        <5> QED BY <5>1, CarriesFacts, FrameFacts DEF IInv, TypeOK, TransportType
      <4>4. rx # <<Page1>>
        BY <4>1, <4>3, Ones
      <4> QED BY <1>1, <3>2, <4>1, <4>2, <4>4, Twos DEF IInv, PageFlight, Empty
    <3>3. CASE hpc \in {"closing", "done"}
      <4>1. Asked = Cmd("reset", 0)
        BY <1>4, <3>3, Asks DEF IInv, HostInv
      <4> QED BY <1>1, <3>3, <4>1 DEF IInv, ResetFlight, Empty
    <3> QED BY <1>4, <3>1, <3>2, <3>3 DEF IInv, HostInv, Waiting
  <2>5. c = Asked
    BY <1>1, <2>2, <2>3, <2>4
  <2> QED BY <1>1, <1>2, <1>4, <2>1, <2>4, <2>5
<1> QED BY <1>3, <1>4

(* Reads empty the buffer, and nothing is answered to what they drop.      *)
Nothing ==
    /\ rx = <<>> /\ reading = "ble" /\ is_rcv_msg /\ ~ is_rcv_msg'
    /\ NoMessage /\ UNCHANGED <<held, torn>>

Dropped == ~ (link /\ Due) /\ DropFrame /\ UNCHANGED <<held, torn>>

Dispatched ==
    /\ held' \in Commands /\ torn' = FALSE /\ Dispatch(held')
    /\ held'.cmd = "write" => WriteDue
    /\ rx # <<>>
    /\ \/ hpc \in {"scan", "connect", "gaveup"} /\ held'.cmd # "reset" /\ to_device = <<>>
       \/ Waiting /\ held' = Asked /\ to_device = <<>> /\ NoAnswer

LEMMA ReadFacts ==
    ASSUME IInv, ReadBle \/ ReadUart
    PROVE  /\ pc = "read" /\ reading' = if_type
           /\ rx' = <<>> /\ rx_len' = 0 /\ is_rcv_msg' \in BOOLEAN /\ rx_index' \in 0 .. 1
           /\ UNCHANGED <<link, if_type, to_device, to_host, host>>
           /\ Nothing \/ Dropped \/ Dispatched
PROOF
<1>0. is_rcv_msg' \in BOOLEAN
    BY DEF ReadBle, ReadUart, IInv, TypeOK, TransportType
<1>a. rx_index' \in 0 .. 1
    BY DEF ReadBle, ReadUart, IInv, TypeOK, TransportType
<1>1. /\ pc = "read" /\ rx' = <<>> /\ rx_len' = 0 /\ is_rcv_msg' \in BOOLEAN
      /\ rx_index' \in 0 .. 1 /\ UNCHANGED <<link, if_type, to_device, host>>
    BY <1>0, <1>a DEF ReadBle, Readable, ReadUart
<1>2. CASE rx = <<>>
  <2>1. \A c \in Commands : rx # Frame(c)
    BY <1>2, FrameFacts, Empties
  <2>2. ReadBle
    BY <2>1 DEF ReadUart, UartTakes
  <2> QED BY <1>1, <1>2, <2>2 DEF ReadBle, Readable, Nothing
<1>3. CASE rx # <<>>
  <2>1. Handle(rx)
    BY <1>3 DEF ReadBle, ReadUart
  <2>2. CASE \A c \in Commands : ~ Carries(rx, c)
    <3>1. DropFrame /\ UNCHANGED <<held, torn>> /\ reading' = if_type
        BY <2>1, <2>2 DEF Handle
    <3>2. link => Zero(rx[1]) /\ ~ Due
        BY <1>3, <2>2, DroppedFacts
    <3>3. UNCHANGED to_host
        BY <2>1, <2>2, <3>2 DEF Handle, Answer, Zero
    <3> QED BY <1>1, <3>1, <3>2, <3>3 DEF Dropped
  <2>3. CASE \E c \in Commands : Carries(rx, c)
    <3>1. PICK c \in Commands :
            /\ Carries(rx, c) /\ Dispatch(c)
            /\ held' = c /\ torn' = FALSE /\ UNCHANGED to_host /\ reading' = if_type
        BY <2>1, <2>3 DEF Handle
    <3>2. Dispatched
        BY <3>1, DispatchedFacts DEF Dispatched
    <3> QED BY <1>1, <3>1, <3>2
  <2> QED BY <2>2, <2>3
<1> QED BY <1>2, <1>3

LEMMA NotifiedFacts ==
    ASSUME IInv, Notified
    PROVE  hpc = "answer" /\ rx_queue = <<>> /\ hpc' = hpc
PROOF
<1>1. hpc = "answer" /\ ~ NoAnswer
    BY DEF IInv, Notified, WireInv, HostInv, NoAnswer, Waiting, TypeOK, HostType
<1>2. Len(to_host) # 0
    BY EmptySeq DEF Notified, IInv, TypeOK, TransportType
<1>3. rx_queue = <<>>
    BY <1>2, EmptySeq DEF IInv, WireInv, OneAnswer, TypeOK, TransportType, HostType
<1> QED BY <1>1, <1>3 DEF Notified

-----------------------------------------------------------------------------
(***************************************************************************)
(* Every action keeps the invariant.                                       *)
(***************************************************************************)

LEMMA ReceiveStep ==
    ASSUME IInv, Receive
    PROVE  IInv'
PROOF
<1>1. /\ Waiting /\ link /\ Idle /\ NoAnswer /\ ~ Empty
      /\ rx_len' \in Nat /\ is_rcv_msg' \in BOOLEAN /\ torn' = FALSE
      /\ Arrives
    BY ReceiveFacts
<1>2. UNCHANGED <<loader, link, if_type, reading, rx_index, held, to_host, host>>
    BY DEF Receive
<1>3. rx' \in Seq(Parts) /\ to_device' \in Seq(Parts) /\ rx' # <<>>
  <2>1. CASE EraseArrives
    BY <2>1, Empties DEF EraseArrives
  <2>2. CASE Page1Arrives
    BY <2>2, Ones DEF Page1Arrives
  <2>3. CASE Page2Arrives
    BY <2>3, Twos, Empties DEF Page2Arrives
  <2>4. CASE ResetArrives
    BY <2>4, Empties DEF ResetArrives
  <2> QED BY <1>1, <2>1, <2>2, <2>3, <2>4 DEF Arrives
<1>4. LoaderType' /\ HostType'
    BY <1>2 DEF IInv, TypeOK, LoaderType, HostType, loader, host
<1>5. TransportType'
    BY <1>1, <1>2, <1>3 DEF IInv, TypeOK, TransportType
<1>6. LoopInv'
    BY <1>1, <1>2 DEF IInv, LoopInv, Busy, Idle, loader
<1>7. HostInv'
    BY <1>1, <1>2 DEF IInv, HostInv, host
<1>8. WireInv'
    BY <1>1, <1>2, <1>3 DEF IInv, WireInv, Waiting, Idle, NoAnswer, OneAnswer, host
<1>9. EraseFlight'
    BY <1>1, <1>2
    DEF EraseFlight, Asked, Arrives, EraseArrives, Page1Arrives, Page2Arrives,
        ResetArrives, host
<1>10. PageFlight'
    BY <1>1, <1>2 DEF PageFlight, Page1, Page2, Arrives, EraseArrives, Page1Arrives,
        Page2Arrives, ResetArrives, host
<1>11. ResetFlight'
    BY <1>1, <1>2
    DEF ResetFlight, Arrives, EraseArrives, Page1Arrives, Page2Arrives, ResetArrives, host
<1>12. SessionInv'
    BY <1>1, <1>2, <1>3
    DEF IInv, SessionInv, Due, Ok, Waiting, NoAnswer, loader, host
<1>13. PagesInv'
    BY <1>1, <1>2 DEF IInv, PagesInv, Written, Ok, NoAnswer, Idle, loader, host
<1>14. WriteDue' => WriteDue
  <2>1. CASE EraseArrives \/ ResetArrives
    <3>1. ~ Idle' => ~ Idle
        BY <1>2 DEF Idle
    <3>2. Asked \in Commands /\ Frame(Asked)[1].cmd = sent /\ sent # "write"
        BY <1>1, <2>1, Asks, FrameFacts DEF IInv, EraseArrives, ResetArrives, HostInv
    <3>3. \A i \in DOMAIN rx' : rx'[i].cmd # "write"
        BY <1>1, <2>1, <3>2, Asks, FrameFacts, LenProperties
        DEF IInv, EraseArrives, ResetArrives, Zero, HostInv
    <3> QED BY <1>1, <1>2, <2>1, <3>3 DEF WriteDue, EraseArrives, ResetArrives, Idle
  <2>2. CASE Page1Arrives \/ Page2Arrives
    <3>1. to_device # <<>> /\ Page1.cmd = "write" /\ Page2.cmd = "write"
        BY DEF Receive, Page1, Page2, Part, Cmd
    <3>2. to_device = <<Page1, Page2>> \/ to_device = <<Page2>>
        BY <2>2, <3>1 DEF IInv, PageFlight, Page1Arrives, Page2Arrives, Empty
    <3>3. Len(to_device) \in {1, 2} /\ to_device[1].cmd = "write"
        BY <2>2, <3>1, <3>2, Ones, Twos DEF Page1Arrives, Page2Arrives
    <3> QED BY <3>3, LenProperties DEF WriteDue, IInv, TypeOK, TransportType
  <2> QED BY <1>1, <2>1, <2>2 DEF Arrives
<1>15. ReachInv'
    BY <1>2, <1>14 DEF IInv, ReachInv, Reach, loader, host
<1>16. PsmInv'
    BY <1>2 DEF IInv, PsmInv, PsmSpared, loader, host
<1> QED BY <1>4, <1>5, <1>6, <1>7, <1>8, <1>9, <1>10, <1>11, <1>12, <1>13, <1>15, <1>16
        DEF IInv, TypeOK

LEMMA ReadStep ==
    ASSUME IInv, ReadBle \/ ReadUart
    PROVE  IInv'
PROOF
<1>1. /\ pc = "read" /\ reading' = if_type
      /\ rx' = <<>> /\ rx_len' = 0 /\ is_rcv_msg' \in BOOLEAN /\ rx_index' \in 0 .. 1
      /\ UNCHANGED <<link, if_type, to_device, to_host, host>>
      /\ Nothing \/ Dropped \/ Dispatched
    BY ReadFacts
<1>2. /\ UNCHANGED <<slot, active_index, back, iap_write_addr, err_cnt>> /\ Idle
      /\ to_cnt <= 1 /\ err_cnt <= 2
    BY <1>1 DEF IInv, LoopInv, Busy, Nothing, Dropped, Dispatched, NoMessage, DropFrame,
        Dispatch
<1>3. CASE Nothing \/ Dropped
  <2>1. AfterSession \in {"window", "forever", "jump"}
        /\ (AfterSession = "jump" => back = "checked")
    BY DEF AfterSession, IInv, TypeOK, LoaderType
  <2>2. /\ pc' \in {"read", AfterSession} /\ (pc' = "read" => to_cnt' <= 1)
        /\ to_cnt' \in 0 .. 2 /\ held' = held /\ torn' = torn
    <3>1. CASE Nothing
        BY <1>1, <1>2, <2>1, <3>1 DEF Nothing, NoMessage, IInv, TypeOK, LoaderType
    <3>2. CASE Dropped
        BY <1>1, <1>2, <3>2 DEF Dropped, DropFrame
    <3> QED BY <1>3, <3>1, <3>2
  <2>3. LoaderType' /\ LoopInv'
    BY <1>2, <2>1, <2>2 DEF IInv, TypeOK, LoaderType, LoopInv, Busy, Idle
  <2>4. TransportType' /\ HostType'
    BY <1>1, <2>2, Empties DEF IInv, TypeOK, TransportType, HostType, host
  <2>5. HostInv' /\ WireInv' /\ PsmInv'
    BY <1>1, <1>2, <2>1, <2>2, Empties DEF IInv, HostInv, WireInv, PsmInv, PsmSpared,
        Waiting, Idle,
        Empty, NoAnswer, OneAnswer, host
  <2>6. EraseFlight' /\ ResetFlight'
    BY <1>1, Empties DEF IInv, EraseFlight, ResetFlight, Asked, Empty, host
  <2>7. PageFlight'
    <3>1. CASE to_device = <<>>
        BY <1>1, <3>1 DEF PageFlight, Empty
    <3>2. CASE to_device # <<>> /\ hpc = "answer" /\ sent = "write"
      <4>1. link /\ Due
        BY <3>2 DEF IInv, HostInv, Due, Empty
      <4>2. rx = <<>>
        BY <1>3, <4>1 DEF Nothing, Dropped
      <4>3. to_device = <<Page1, Page2>>
        BY <3>2, <4>2 DEF IInv, PageFlight, Empty
      <4> QED BY <1>1, <4>3 DEF PageFlight, Page1, Page2, host
    <3> QED BY <1>1, <3>1, <3>2 DEF PageFlight, host
  <2>8. SessionInv'
    BY <1>1, <1>2, <1>3, <2>1, <2>2
    DEF IInv, SessionInv, Due, Ok, Empty, Nothing, Dropped, NoMessage, host, TypeOK,
        LoaderType
  <2>9. PagesInv'
    BY <1>1, <1>2, <2>1, <2>2 DEF IInv, PagesInv, Written, Ok, Empty, Idle, NoAnswer, host
  <2>10. ReachInv'
    BY <1>1, <1>2, <2>1, <2>2, Empties DEF IInv, ReachInv, Reach, WriteDue, host
  <2> QED BY <2>3, <2>4, <2>5, <2>6, <2>7, <2>8, <2>9, <2>10 DEF IInv, TypeOK
<1>4. CASE Dispatched
  <2>1. /\ held' \in Commands /\ torn' = FALSE /\ to_cnt' = 0 /\ pc' = held'.cmd
        /\ held'.cmd \in {"erase", "write", "reset"} /\ held'.cmd # "none"
    BY <1>4, CommandFacts DEF Dispatched, Dispatch
  <2>2. /\ Empty' /\ ~ Idle'
        /\ \/ hpc \in {"scan", "connect", "gaveup"} /\ held'.cmd # "reset"
           \/ Waiting /\ held' = Asked /\ NoAnswer
    BY <1>1, <1>4, <2>1 DEF Dispatched, Empty, Idle
  <2>3. LoaderType' /\ LoopInv'
    BY <1>2, <2>1, <2>2 DEF IInv, TypeOK, LoaderType, LoopInv, Busy
  <2>4. TransportType' /\ HostType'
    BY <1>1, <2>1, Empties DEF IInv, TypeOK, TransportType, HostType, host
  <2>5. HostInv'
    BY <1>1, <2>2, Asks DEF IInv, HostInv, Waiting, host
  <2>6. WireInv' /\ PsmInv'
    BY <1>1, <1>2, <2>2, Empties DEF IInv, WireInv, PsmInv, PsmSpared, Waiting, Asked,
        Empty, NoAnswer, OneAnswer, host
  <2>7. EraseFlight' /\ PageFlight' /\ ResetFlight' /\ SessionInv'
    BY <1>1, <2>2, Empties DEF IInv, EraseFlight, PageFlight, ResetFlight, SessionInv,
        Due, Ok,
        NoAnswer, Empty, WireInv, host, Waiting
  <2>8. PagesInv'
    BY <1>1, <1>2, <1>4, <2>1, <2>2, Asks
    DEF IInv, PagesInv, Written, Ok, Empty, NoAnswer, Waiting, Dispatched, host
  <2>9. ReachInv'
    BY <1>1, <1>2, <1>4, <2>1, Empties DEF IInv, ReachInv, Reach, WriteDue, Dispatched,
        host
  <2> QED BY <2>3, <2>4, <2>5, <2>6, <2>7, <2>8, <2>9 DEF IInv, TypeOK
<1> QED BY <1>1, <1>3, <1>4


LEMMA Answers == <<"ok">> # <<>> /\ <<"nack">> # <<>> /\ <<"nack">> # <<"ok">>
    OBVIOUS

(* What an operation of the flash, done, failed or interrupted, can have   *)
(* left in the slot.                                                       *)
FlashTouched ==
    \/ slot' = slot
    \/ pc = "erase" /\ \E k \in 0 .. held.arg + 1 : slot' = ErasedBelow(slot, k)
    \/ pc = "write" /\ \E u \in {held.arg, Mixed} : slot' = Programmed(slot, iap_write_addr, u)

LEMMA FlashStep ==
    ASSUME IInv, FlashTouched, UNCHANGED retry
    PROVE  slot' \in [Sectors -> Content] /\ PsmInv'
PROOF
<1> USE LoaderAssumption, BleAssumption
<1>1. slot \in [Sectors -> Content] /\ iap_write_addr \in Nat /\ retry \in Nat
    BY DEF IInv, TypeOK, LoaderType, HostType
<1>2. CASE slot' = slot
    BY <1>1, <1>2 DEF IInv, PsmInv, PsmSpared
<1>3. ASSUME pc = "erase", NEW k \in 0 .. held.arg + 1, slot' = ErasedBelow(slot, k)
      PROVE  slot' \in [Sectors -> Content] /\ PsmInv'
  <2>1. k <= Pages + 1 /\ k \in Int
    BY <1>3, WhileFlashing
  <2>2. slot' \in [Sectors -> Content]
    BY <1>1, <1>3, <2>1 DEF ErasedBelow, Sectors, Content, Blank, Old
  <2>3. Pages < SlotSectors => slot'[SlotSectors] = slot[SlotSectors]
    BY <1>3, <2>1 DEF ErasedBelow, Sectors
  <2> QED BY <1>1, <2>2, <2>3 DEF IInv, PsmInv, PsmSpared
<1>4. ASSUME pc = "write", NEW u \in {held.arg, Mixed},
             slot' = Programmed(slot, iap_write_addr, u)
      PROVE  slot' \in [Sectors -> Content] /\ PsmInv'
  <2>1. u \in Content /\ Mixed \in Content
    BY <1>4, WhileFlashing DEF Content, Mixed, Old
  <2>2. slot' \in [Sectors -> Content]
    BY <1>1, <1>4, <2>1 DEF Programmed
  <2>3. iap_write_addr # SlotSectors => slot'[SlotSectors] = slot[SlotSectors]
    BY <1>1, <1>4 DEF Programmed, Sectors
  <2>4. iap_write_addr < Pages + retry
    <3>1. held.cmd = "write" /\ fw_data \in 1 .. Pages + 1
          /\ (hpc = "answer" => sent = "write")
        BY <1>4, WhileFlashing DEF IInv, TypeOK, HostType
    <3>2. iap_write_addr < Reach
        BY <3>1 DEF IInv, ReachInv, WriteDue
    <3>3. hpc = "answer" => fw_data <= Pages
        BY <3>1 DEF IInv, HostInv
    <3> QED BY <1>1, <3>1, <3>2, <3>3 DEF Reach
  <2>5. iap_write_addr = SlotSectors => retry > SlotSectors - Pages
    BY <1>1, <2>4
  <2> QED BY <1>1, <2>2, <2>3, <2>5 DEF IInv, PsmInv, PsmSpared
<1> QED BY <1>2, <1>3, <1>4 DEF FlashTouched

(* The outcomes of a command, one answer each.                             *)
Succeeds ==
    /\ pc' = "read" /\ err_cnt' = err_cnt /\ Answer("ok")
    /\ \/ pc = "erase" /\ slot' = ErasedBelow(slot, held.arg + 1)
          /\ iap_write_addr' = iap_write_addr
       \/ pc = "write" /\ slot' = Programmed(slot, iap_write_addr, held.arg)
          /\ iap_write_addr' = iap_write_addr + 1

CommandFailed ==
    /\ err_cnt' = err_cnt + 1 /\ iap_write_addr' = iap_write_addr /\ Answer("nack")
    /\ pc' = IF err_cnt + 1 > 2 THEN AfterSession ELSE "read"

LEMMA ExecuteFacts ==
    ASSUME IInv, Execute
    PROVE  /\ pc \in {"erase", "write"} /\ FlashTouched
           /\ Succeeds \/ CommandFailed
           /\ UNCHANGED <<active_index, back, to_cnt>>
           /\ reading' = if_type /\ held' = Cmd("none", 0) /\ torn' = FALSE
           /\ UNCHANGED <<link, if_type, rx, rx_len, is_rcv_msg, rx_index, to_device, host>>
PROOF
<1>1. /\ reading' = if_type /\ held' = Cmd("none", 0) /\ torn' = FALSE
      /\ UNCHANGED <<link, if_type, rx, rx_len, is_rcv_msg, rx_index, to_device, host>>
    BY Zenon DEF Execute
<1>2. PageHeld = held.arg
    BY DEF PageHeld, IInv, LoopInv
<1>3. CASE EraseFlash(held.arg) /\ Answer("ok")
  <2>1. held.arg \in Nat
    BY <1>3, WhileFlashing, LoaderAssumption DEF EraseFlash
  <2> QED BY <1>1, <1>3, <2>1 DEF EraseFlash, EraseLast, FlashTouched, Succeeds
<1>4. CASE EraseFlashFails(held.arg) /\ Answer("nack")
  <2>1. held.arg \in Nat
    BY <1>4, WhileFlashing, LoaderAssumption DEF EraseFlashFails
  <2>2. pc = "erase" /\ FlashTouched
    BY <1>4, <2>1 DEF EraseFlashFails, EraseLast, FlashTouched
  <2> QED BY <1>1, <1>4, <2>2 DEF EraseFlashFails, CommandFails, CommandFailed
<1>5. CASE WriteFlash(PageHeld) /\ Answer("ok")
    BY <1>1, <1>2, <1>5 DEF WriteFlash, FlashTouched, Succeeds
<1>6. CASE WriteFlashFails(PageHeld) /\ Answer("nack")
  <2>1. pc = "write" /\ FlashTouched
    BY <1>2, <1>6 DEF WriteFlashFails, FlashTouched
  <2> QED BY <1>1, <1>6, <2>1 DEF WriteFlashFails, CommandFails, CommandFailed
<1> QED BY <1>3, <1>4, <1>5, <1>6 DEF Execute

LEMMA ExecuteStep ==
    ASSUME IInv, Execute
    PROVE  IInv'
PROOF
<1> USE LoaderAssumption, BleAssumption
<1>1. /\ pc \in {"erase", "write"} /\ FlashTouched
      /\ Succeeds \/ CommandFailed
      /\ UNCHANGED <<active_index, back, to_cnt>>
      /\ reading' = if_type /\ held' = Cmd("none", 0) /\ torn' = FALSE
      /\ UNCHANGED <<link, if_type, rx, rx_len, is_rcv_msg, rx_index, to_device, host>>
    BY ExecuteFacts
<1>2. /\ ~ Idle /\ held.cmd = pc /\ to_cnt = 0 /\ Empty
      /\ \/ hpc \in {"scan", "connect", "gaveup"} /\ ~ link
         \/ hpc = "answer" /\ sent = pc /\ held = Asked /\ NoAnswer
      /\ held.arg \in 0 .. Pages /\ (pc = "write" => held.arg \in 1 .. Pages)
    BY <1>1, WhileFlashing DEF IInv, WireInv
<1>3. slot' \in [Sectors -> Content] /\ PsmInv'
    BY <1>1, FlashStep DEF host
<1>4. Idle' /\ Empty' /\ ~ WriteDue'
    BY <1>1, <1>2, Empties DEF Idle, Cmd, Empty, WriteDue
<1>5. err_cnt \in 0 .. 2 /\ iap_write_addr \in Nat /\ back \in {"window", "checked", "forever"}
    BY <1>1 DEF IInv, LoopInv, Busy, TypeOK, LoaderType
<1>6. /\ err_cnt' \in 0 .. 3 /\ iap_write_addr' \in Nat
      /\ pc' \in {"read", "window", "forever", "jump"}
      /\ pc' = "read" => err_cnt' <= 2
      /\ pc' = "jump" => back = "checked"
    BY <1>1, <1>5 DEF Succeeds, CommandFailed, AfterSession
<1>7. \/ to_host' = to_host
      \/ to_host' = Append(to_host, "ok") /\ Succeeds /\ link /\ if_type = "ble"
      \/ to_host' = Append(to_host, "nack") /\ link
    BY <1>1 DEF Succeeds, CommandFailed, Answer
<1>8. hpc = "answer" =>
        \/ to_host' = <<>>
        \/ to_host' = <<"ok">> /\ Succeeds /\ link /\ if_type = "ble"
        \/ to_host' = <<"nack">> /\ link
    BY <1>2, <1>7, Ones DEF NoAnswer
<1>9. hpc \in {"scan", "connect", "gaveup"} => to_host' = to_host
    BY <1>2, <1>7
<1>10. LoaderType'
    BY <1>1, <1>3, <1>5, <1>6 DEF IInv, TypeOK, LoaderType
<1>11. TransportType'
  <2>1. to_host' \in Seq({"ok", "nack"})
    BY <1>2, <1>8, <1>9, Ones, Empties DEF IInv, TypeOK, TransportType
  <2> QED BY <1>1, <2>1 DEF IInv, TypeOK, TransportType
<1>12. HostType'
    BY <1>1 DEF IInv, TypeOK, HostType, host
<1>13. LoopInv'
    BY <1>1, <1>2, <1>4, <1>6 DEF LoopInv, Busy
<1>14. HostInv'
    BY <1>1, <1>4, <1>8, <1>9, <1>2 DEF IInv, HostInv, Idle, host
<1>15. WireInv'
  <2>1. OneAnswer'
    <3>1. CASE hpc = "answer"
      <4>1. Len(to_host') \in 0 .. 1 /\ Len(rx_queue') = 0
        BY <1>1, <1>2, <1>8, <3>1, Empties, Ones DEF NoAnswer, host
      <4> QED BY <4>1 DEF OneAnswer
    <3>2. CASE hpc # "answer"
        BY <1>1, <1>2, <1>9, <3>2 DEF IInv, WireInv, OneAnswer, host
    <3> QED BY <3>1, <3>2
  <2> QED BY <1>1, <1>2, <1>4, <2>1 DEF IInv, WireInv, Waiting, host
<1>16. EraseFlight' /\ ResetFlight' /\ PageFlight'
    BY <1>1, <1>2, <1>4 DEF IInv, EraseFlight, ResetFlight, PageFlight, Asked, Empty, host
<1>17. hpc = "answer" /\ Ok' => Succeeds /\ link /\ if_type = "ble"
  <2>1. SUFFICES ASSUME Ok', hpc = "answer"
                 PROVE  Succeeds /\ link /\ if_type = "ble"
    OBVIOUS
  <2>2. rx_queue' = <<>>
    BY <1>1, <1>2, <2>1 DEF NoAnswer, host
  <2>3. to_host' = <<"ok">>
    BY <2>1, <2>2, Answers, Zenon DEF Ok
  <2>4. to_host' # <<>> /\ to_host' # <<"nack">>
    BY <2>3, Answers, Zenon
  <2> QED BY <1>8, <2>1, <2>4
<1>18. SessionInv'
    BY <1>1, <1>2, <1>4, <1>17 DEF SessionInv, Due, Succeeds, host
<1>19. PagesInv'
  <2> SUFFICES ASSUME fresh'
               PROVE  /\ hpc = "answer" /\ sent = "erase" =>
                            fw_data = 1 /\ (pc' \in {"read", "erase"} => iap_write_addr' = 0)
                      /\ hpc = "answer" /\ Ok' =>
                            Written(IF sent = "write" THEN fw_data ELSE fw_data - 1)'
    BY <1>1, <1>2, <1>4 DEF PagesInv, host
  <2>0. fresh /\ UNCHANGED <<fw_data, sent>>
    BY <1>1 DEF host
  <2>1. ASSUME hpc = "answer", sent = "erase"
        PROVE  fw_data = 1 /\ iap_write_addr = 0 /\ iap_write_addr' = 0
    BY <1>1, <1>2, <2>0, <2>1 DEF IInv, PagesInv, Succeeds, CommandFailed
  <2>2. ASSUME hpc = "answer", sent = "erase", Ok'
        PROVE  Written(fw_data - 1)'
    <3>1. held.arg = Pages /\ fw_data = 1
        BY <1>2, <2>1, <2>2 DEF Asked, Cmd
    <3>2. slot' = ErasedBelow(slot, Pages + 1)
        BY <1>1, <1>2, <1>17, <2>2, <3>1 DEF Succeeds
    <3>3. \A i \in 0 .. Pages - 1 : slot'[i] = Blank
        BY <3>2 DEF ErasedBelow, Sectors
    <3> QED BY <2>0, <2>1, <2>2, <3>1, <3>3 DEF Written
  <2>3. ASSUME hpc = "answer", sent = "write", Ok'
        PROVE  Written(fw_data)'
    <3>1. held.arg = fw_data /\ Succeeds /\ link /\ pc = "write" /\ fw_data \in 1 .. Pages
        BY <1>2, <1>17, <2>3 DEF Asked, Cmd
    <3>2. Written(fw_data - 1)
        BY <1>2, <2>0, <2>3, <3>1 DEF IInv, PagesInv
    <3>3. iap_write_addr = fw_data - 1 /\ slot[fw_data - 1] = Blank
        BY <3>1, <3>2 DEF Written
    <3>4. slot' = [slot EXCEPT ![fw_data - 1] = fw_data] /\ iap_write_addr' = fw_data
        BY <3>1, <3>3 DEF Succeeds, Programmed, Sectors
    <3>5. slot \in [Sectors -> Content] /\ \A i \in 0 .. Pages - 1 : i \in Sectors
        BY DEF IInv, TypeOK, LoaderType, Sectors
    <3>6. \A p \in 1 .. fw_data : slot'[p - 1] = p
      <4> TAKE p \in 1 .. fw_data
      <4>1. p - 1 \in Sectors
        BY <3>1, <3>5
      <4>2. CASE p = fw_data
        BY <3>4, <3>5, <4>1, <4>2
      <4>3. CASE p # fw_data
        <5>1. p \in 1 .. fw_data - 1 /\ p - 1 # fw_data - 1
            BY <3>1, <4>3
        <5> QED BY <3>2, <3>4, <3>5, <4>1, <5>1 DEF Written
      <4> QED BY <4>2, <4>3
    <3>7. \A i \in fw_data .. Pages - 1 : slot'[i] = Blank
      <4> TAKE i \in fw_data .. Pages - 1
      <4>1. i \in Sectors /\ i # fw_data - 1 /\ i \in fw_data - 1 .. Pages - 1
        BY <3>1, <3>5
      <4> QED BY <3>2, <3>4, <3>5, <4>1 DEF Written
    <3> QED BY <2>0, <3>4, <3>6, <3>7 DEF Written
  <2> QED BY <1>1, <1>2, <2>0, <2>1, <2>2, <2>3 DEF host
<1>20. ReachInv'
  <2>1. iap_write_addr' <= Reach
    <3>1. Reach \in Int
        BY DEF Reach, IInv, TypeOK, HostType
    <3>2. pc = "write" => iap_write_addr < Reach
        BY <1>2 DEF IInv, ReachInv, WriteDue
    <3> QED BY <1>1, <1>5, <3>1, <3>2 DEF IInv, ReachInv, Succeeds, CommandFailed
  <2> QED BY <1>1, <1>4, <2>1 DEF ReachInv, Reach, host
<1> QED BY <1>3, <1>10, <1>11, <1>12, <1>13, <1>14, <1>15, <1>16, <1>18, <1>19, <1>20
        DEF IInv, TypeOK

LEMMA PowerFailsStep ==
    ASSUME IInv, PowerFails
    PROVE  IInv'
PROOF
<1> USE LoaderAssumption, BleAssumption
<1>1. FlashTouched
  <2>1. PageHeld = held.arg
    BY DEF PageHeld, IInv, LoopInv
  <2>2. pc = "erase" => held.arg \in Nat
    BY WhileFlashing
  <2> QED BY <2>1, <2>2 DEF FlashTouched, PowerFails, PowerCycle, EraseLast
<1>2. slot' \in [Sectors -> Content] /\ PsmInv'
    BY <1>1, FlashStep DEF PowerFails, host
<1>3. /\ pc' = "window" /\ back' = "window" /\ iap_write_addr' = 0 /\ err_cnt' = 0
      /\ to_cnt' = 0 /\ active_index' = active_index
      /\ ~ link' /\ to_device' = <<>> /\ to_host' = <<>>
      /\ rx' = <<>> /\ rx_len' = 0 /\ held' = Cmd("none", 0) /\ ~ torn'
      /\ RestartTransport
      /\ UNCHANGED host
    BY DEF PowerFails, PowerCycle, Restart, RestartTransport, Disconnect
<1>4. Empty' /\ Idle' /\ ~ Busy' /\ ~ WriteDue'
    BY <1>3, Empties DEF Empty, Idle, Busy, WriteDue, Cmd
<1>5. LoaderType' /\ TransportType' /\ HostType'
    BY <1>2, <1>3, RestartType DEF IInv, TypeOK, LoaderType, HostType, host
<1>6. LoopInv' /\ HostInv'
    BY <1>3, <1>4 DEF IInv, LoopInv, HostInv, Idle, host
<1>7. WireInv'
  <2>1. Len(rx_queue) \in 0 .. 1
    BY DEF IInv, TypeOK, HostType
  <2>2. OneAnswer'
    BY <1>3, <2>1, Empties DEF OneAnswer, host
  <2> QED BY <1>3, <1>4, <2>2, Empties DEF IInv, WireInv, HostInv, Waiting, NoAnswer, host
<1>8. EraseFlight' /\ PageFlight' /\ ResetFlight'
    BY <1>3, <1>4, Empties DEF EraseFlight, PageFlight, ResetFlight, Empty
<1>9. SessionInv'
    BY <1>3 DEF SessionInv
<1>10. PagesInv'
  <2>1. CASE slot' # slot
    <3>1. hpc \in {"scan", "connect", "gaveup"} \/ (hpc = "answer" /\ NoAnswer)
        BY <1>1, <2>1, WhileFlashing DEF FlashTouched
    <3>2. hpc = "answer" => ~ Ok'
        BY <1>3, <3>1, Answers DEF Ok, NoAnswer, host
    <3> QED BY <1>3, <1>4, <3>1, <3>2 DEF IInv, PagesInv, host
  <2>2. CASE slot' = slot
    <3>1. Ok' => Ok
        BY <1>3, Answers DEF Ok, host
    <3> QED BY <1>3, <1>4, <2>2, <3>1 DEF IInv, PagesInv, Written, Whole, host
  <2> QED BY <2>1, <2>2
<1>11. ReachInv'
    BY <1>3, <1>4 DEF ReachInv, Reach, IInv, TypeOK, HostType, host
<1> QED BY <1>2, <1>5, <1>6, <1>7, <1>8, <1>9, <1>10, <1>11 DEF IInv, TypeOK

LEMMA HandshakeStep ==
    ASSUME IInv, Handshake
    PROVE  IInv'
PROOF
<1> USE LoaderAssumption, BleAssumption
    DEF IInv, transport, host, loader, Handshake, OpenSession
<1>1. LoaderType'
    BY DEF TypeOK, LoaderType, LoopInv, Busy
<1>2. TransportType'
    BY Empties DEF TypeOK, TransportType
<1>3. HostType'
    BY DEF TypeOK, HostType, HostInv
<1>4. LoopInv'
    BY DEF TypeOK, LoaderType, LoopInv, Idle, Busy, Cmd
<1>5. HostInv'
    BY DEF TypeOK, HostType, HostInv, WireInv, Waiting, Cmd
<1>6. WireInv'
    BY DEF WireInv, HostInv, Waiting, Idle, Empty, NoAnswer, OneAnswer, Asked, Cmd
<1>7. EraseFlight'
    BY DEF EraseFlight, HostInv, WireInv, Asked
<1>8. PageFlight'
    BY DEF PageFlight, HostInv, WireInv, Empty, Page1, Page2
<1>9. ResetFlight'
    BY DEF ResetFlight, HostInv, WireInv, Empty
<1>10. SessionInv'
    BY DEF SessionInv, HostInv, WireInv, Due, Ok, Empty, NoAnswer, Waiting
<1>11. PagesInv'
    BY DEF PagesInv, HostInv, LoopInv, SessionInv, Due, Written, Whole, Ok, Empty, Idle,
        Busy
<1>12. ReachInv'
    BY DEF TypeOK, LoaderType, HostType, ReachInv, HostInv, WireInv, Reach, WriteDue,
        Idle, Empty, Cmd
<1>13. PsmInv'
    BY DEF PsmInv, PsmSpared
<1> QED BY <1>1, <1>2, <1>3, <1>4, <1>5, <1>6, <1>7,
           <1>8, <1>9, <1>10, <1>11, <1>12, <1>13 DEF TypeOK

LEMMA ReadTimesOutStep ==
    ASSUME IInv, ReadTimesOut
    PROVE  IInv'
PROOF
<1> USE LoaderAssumption, BleAssumption
    DEF IInv, transport, host, loader, ReadTimesOut, Soon, NoMessage, Readable,
        AfterSession
<1>1. LoaderType'
    BY DEF TypeOK, LoaderType, LoopInv, Busy
<1>2. TransportType'
    BY Empties DEF TypeOK, TransportType
<1>3. HostType'
    BY DEF TypeOK, HostType, HostInv
<1>4. LoopInv'
    BY DEF TypeOK, LoaderType, LoopInv, Idle, Busy, Cmd
<1>5. HostInv'
    BY DEF TypeOK, HostType, HostInv, WireInv, Waiting, Cmd
<1>6. WireInv'
    BY DEF WireInv, HostInv, Waiting, Idle, Empty, NoAnswer, OneAnswer, Asked, Cmd
<1>7. EraseFlight'
    BY DEF EraseFlight, HostInv, WireInv, Asked
<1>8. PageFlight'
    BY DEF PageFlight, HostInv, WireInv, Empty, Page1, Page2
<1>9. ResetFlight'
    BY DEF ResetFlight, HostInv, WireInv, Empty
<1>10. SessionInv'
    BY DEF SessionInv, WireInv, PageFlight, Due, Ok, Empty, NoAnswer, Waiting, Page1,
        Page2
<1>11. PagesInv'
    BY DEF PagesInv, HostInv, WireInv, Written, Whole, Ok, Empty, Idle, NoAnswer, Waiting
<1>12. ReachInv'
    BY DEF TypeOK, LoaderType, HostType, ReachInv, HostInv, WireInv, Reach, WriteDue,
        Idle, Empty, Cmd
<1>13. PsmInv'
    BY DEF PsmInv, PsmSpared
<1> QED BY <1>1, <1>2, <1>3, <1>4, <1>5, <1>6, <1>7,
           <1>8, <1>9, <1>10, <1>11, <1>12, <1>13 DEF TypeOK

LEMMA SystemResetStep ==
    ASSUME IInv, SystemReset
    PROVE  IInv'
PROOF
<1> USE LoaderAssumption, BleAssumption
    DEF IInv, transport, host, loader, SystemReset, Reset, Restart, RestartTransport,
        Disconnect
<1>1. LoaderType'
    BY DEF TypeOK, LoaderType, LoopInv, Busy
<1>2. TransportType'
    BY RestartType DEF TypeOK
<1>3. HostType'
    BY DEF TypeOK, HostType, HostInv
<1>4. LoopInv'
    BY DEF TypeOK, LoaderType, LoopInv, Idle, Busy, Cmd
<1>5. HostInv'
    BY DEF TypeOK, HostType, HostInv, WireInv, Waiting, Cmd
<1>6. WireInv'
    BY DEF WireInv, HostInv, Waiting, Idle, Empty, NoAnswer, OneAnswer, Asked, Cmd
<1>7. EraseFlight'
    BY DEF EraseFlight, HostInv, WireInv, Asked
<1>8. PageFlight'
    BY DEF PageFlight, HostInv, WireInv, Empty, Page1, Page2
<1>9. ResetFlight'
    BY DEF ResetFlight, HostInv, WireInv, Empty
<1>10. SessionInv'
    BY DEF SessionInv, HostInv, WireInv, Due, Ok, Empty, NoAnswer, Waiting
<1>11. PagesInv'
    BY DEF PagesInv, HostInv, WireInv, Written, Whole, Ok, Empty, Idle, NoAnswer, Waiting
<1>12. ReachInv'
    BY DEF TypeOK, LoaderType, HostType, ReachInv, HostInv, WireInv, Reach, WriteDue,
        Idle, Empty, Cmd
<1>13. PsmInv'
    BY DEF PsmInv, PsmSpared
<1> QED BY <1>1, <1>2, <1>3, <1>4, <1>5, <1>6, <1>7,
           <1>8, <1>9, <1>10, <1>11, <1>12, <1>13 DEF TypeOK

LEMMA CloseWindowStep ==
    ASSUME IInv, CloseWindow
    PROVE  IInv'
PROOF
<1> USE LoaderAssumption, BleAssumption
    DEF IInv, transport, host, loader, CloseWindow, CheckImage
<1>1. LoaderType'
    BY DEF TypeOK, LoaderType, LoopInv, Busy
<1>2. TransportType'
    BY Empties DEF TypeOK, TransportType
<1>3. HostType'
    BY DEF TypeOK, HostType, HostInv
<1>4. LoopInv'
    BY DEF TypeOK, LoaderType, LoopInv, Idle, Busy, Cmd
<1>5. HostInv'
    BY DEF TypeOK, HostType, HostInv, WireInv, Waiting, Cmd
<1>6. WireInv'
    BY DEF WireInv, HostInv, Waiting, Idle, Empty, NoAnswer, OneAnswer, Asked, Cmd
<1>7. EraseFlight'
    BY DEF EraseFlight, HostInv, WireInv, Asked
<1>8. PageFlight'
    BY DEF PageFlight, HostInv, WireInv, Empty, Page1, Page2
<1>9. ResetFlight'
    BY DEF ResetFlight, HostInv, WireInv, Empty
<1>10. SessionInv'
    BY DEF SessionInv, HostInv, WireInv, Due, Ok, Empty, NoAnswer, Waiting
<1>11. PagesInv'
    BY DEF PagesInv, HostInv, WireInv, Written, Whole, Ok, Empty, Idle, NoAnswer, Waiting
<1>12. ReachInv'
    BY DEF TypeOK, LoaderType, HostType, ReachInv, HostInv, WireInv, Reach, WriteDue,
        Idle, Empty, Cmd
<1>13. PsmInv'
    BY DEF PsmInv, PsmSpared
<1> QED BY <1>1, <1>2, <1>3, <1>4, <1>5, <1>6, <1>7,
           <1>8, <1>9, <1>10, <1>11, <1>12, <1>13 DEF TypeOK

LEMMA NoHandshakeStep ==
    ASSUME IInv, NoHandshake
    PROVE  IInv'
PROOF
<1> USE LoaderAssumption, BleAssumption
    DEF IInv, transport, host, loader, NoHandshake, LastPoll
<1>1. LoaderType'
    BY DEF TypeOK, LoaderType, LoopInv, Busy
<1>2. TransportType'
    BY Empties DEF TypeOK, TransportType
<1>3. HostType'
    BY DEF TypeOK, HostType, HostInv
<1>4. LoopInv'
    BY DEF TypeOK, LoaderType, LoopInv, Idle, Busy, Cmd
<1>5. HostInv'
    BY DEF TypeOK, HostType, HostInv, WireInv, Waiting, Cmd
<1>6. WireInv'
    BY DEF WireInv, HostInv, Waiting, Idle, Empty, NoAnswer, OneAnswer, Asked, Cmd
<1>7. EraseFlight'
    BY DEF EraseFlight, HostInv, WireInv, Asked
<1>8. PageFlight'
    BY DEF PageFlight, HostInv, WireInv, Empty, Page1, Page2
<1>9. ResetFlight'
    BY DEF ResetFlight, HostInv, WireInv, Empty
<1>10. SessionInv'
    BY DEF SessionInv, HostInv, WireInv, Due, Ok, Empty, NoAnswer, Waiting
<1>11. PagesInv'
    BY DEF PagesInv, HostInv, WireInv, Written, Whole, Ok, Empty, Idle, NoAnswer, Waiting
<1>12. ReachInv'
    BY DEF TypeOK, LoaderType, HostType, ReachInv, HostInv, WireInv, Reach, WriteDue,
        Idle, Empty, Cmd
<1>13. PsmInv'
    BY DEF PsmInv, PsmSpared
<1> QED BY <1>1, <1>2, <1>3, <1>4, <1>5, <1>6, <1>7,
           <1>8, <1>9, <1>10, <1>11, <1>12, <1>13 DEF TypeOK

LEMMA PreJumpStep ==
    ASSUME IInv, PreJump
    PROVE  IInv'
PROOF
<1> USE LoaderAssumption, BleAssumption
    DEF IInv, transport, host, loader, PreJump, Jump, RestartTransport, Disconnect
<1>1. LoaderType'
    BY DEF TypeOK, LoaderType, LoopInv, Busy
<1>2. TransportType'
    BY RestartType DEF TypeOK
<1>3. HostType'
    BY DEF TypeOK, HostType, HostInv
<1>4. LoopInv'
    BY DEF TypeOK, LoaderType, LoopInv, Idle, Busy, Cmd
<1>5. HostInv'
    BY DEF TypeOK, HostType, HostInv, WireInv, Waiting, Cmd
<1>6. WireInv'
    BY DEF WireInv, HostInv, Waiting, Idle, Empty, NoAnswer, OneAnswer, Asked, Cmd
<1>7. EraseFlight'
    BY DEF EraseFlight, HostInv, WireInv, Asked
<1>8. PageFlight'
    BY DEF PageFlight, HostInv, WireInv, Empty, Page1, Page2
<1>9. ResetFlight'
    BY DEF ResetFlight, HostInv, WireInv, Empty
<1>10. SessionInv'
    BY DEF SessionInv, HostInv, WireInv, Due, Ok, Empty, NoAnswer, Waiting
<1>11. PagesInv'
    BY DEF PagesInv, HostInv, WireInv, Written, Whole, Ok, Empty, Idle, NoAnswer, Waiting
<1>12. ReachInv'
    BY DEF TypeOK, LoaderType, HostType, ReachInv, HostInv, WireInv, Reach, WriteDue,
        Idle, Empty, Cmd
<1>13. PsmInv'
    BY DEF PsmInv, PsmSpared
<1> QED BY <1>1, <1>2, <1>3, <1>4, <1>5, <1>6, <1>7,
           <1>8, <1>9, <1>10, <1>11, <1>12, <1>13 DEF TypeOK

LEMMA ScanStep ==
    ASSUME IInv, Scan
    PROVE  IInv'
PROOF
<1> USE LoaderAssumption, BleAssumption DEF IInv, transport, host, loader, Scan
<1>1. LoaderType'
    BY DEF TypeOK, LoaderType
<1>2. TransportType'
    BY DEF TypeOK, TransportType
<1>3. HostType'
    BY DEF TypeOK, HostType
<1>4. LoopInv'
    BY DEF LoopInv, Idle, Busy
<1>5. HostInv'
    BY DEF HostInv
<1>6. WireInv'
    BY DEF WireInv, Waiting, Idle, Empty, NoAnswer, OneAnswer, Asked
<1>7. EraseFlight' /\ PageFlight' /\ ResetFlight'
    BY DEF EraseFlight, PageFlight, ResetFlight
<1>8. SessionInv'
    BY DEF SessionInv, Due, HostInv
<1>9. PagesInv'
    BY DEF PagesInv
<1>10. ReachInv' /\ PsmInv'
    BY DEF ReachInv, Reach, WriteDue, PsmInv, PsmSpared
<1> QED BY <1>1, <1>2, <1>3, <1>4, <1>5, <1>6, <1>7, <1>8, <1>9, <1>10 DEF TypeOK

LEMMA ConnectStep ==
    ASSUME IInv, Connect
    PROVE  IInv'
PROOF
<1> USE LoaderAssumption, BleAssumption DEF IInv, transport, host, loader, Connect, Advertises
<1>a. /\ rx' \in Seq(Parts) /\ \A i \in DOMAIN rx' : Zero(rx'[i])
      /\ rx' = <<>> => rx = <<>>
    BY ZeroedFacts DEF TypeOK, TransportType
<1>b. ~ Busy /\ Idle /\ to_device = <<>> /\ to_host = <<>>
    BY DEF Busy, Idle, LoopInv, HostInv
<1>1. LoaderType'
    BY DEF TypeOK, LoaderType, LoopInv, Busy
<1>2. TransportType'
    BY <1>a, Zenon DEF TypeOK, TransportType
<1>3. HostType'
    BY DEF TypeOK, HostType, HostInv
<1>4. LoopInv'
    BY DEF TypeOK, LoaderType, LoopInv, Idle, Busy, Cmd
<1>5. HostInv'
    BY DEF TypeOK, HostType, HostInv, WireInv, Waiting, Cmd
<1>6. WireInv'
    BY <1>a, <1>b, Empties DEF WireInv, Waiting, Idle, OneAnswer
<1>7. EraseFlight'
    BY DEF EraseFlight, HostInv, WireInv, Asked
<1>8. PageFlight'
    BY DEF PageFlight, HostInv, WireInv, Empty, Page1, Page2
<1>9. ResetFlight'
    BY DEF ResetFlight, HostInv, WireInv, Empty
<1>10. SessionInv'
    BY DEF SessionInv, HostInv, WireInv, Due, Ok, Empty, NoAnswer, Waiting
<1>11. PagesInv'
    BY DEF PagesInv, HostInv, WireInv, Written, Whole, Ok, Empty, Idle, NoAnswer, Waiting
<1>12. ReachInv'
  <2>1. ~ WriteDue'
    BY <1>a, <1>b, Empties DEF WriteDue, Idle, Zero
  <2> QED BY <2>1 DEF ReachInv, Reach
<1>13. PsmInv'
    BY DEF PsmInv, PsmSpared
<1> QED BY <1>1, <1>2, <1>3, <1>4, <1>5, <1>6, <1>7,
           <1>8, <1>9, <1>10, <1>11, <1>12, <1>13 DEF TypeOK

LEMMA ConnectFailsStep ==
    ASSUME IInv, ConnectFails
    PROVE  IInv'
PROOF
<1> USE LoaderAssumption, BleAssumption
    DEF IInv, transport, host, loader, ConnectFails, NextTry
<1>1. LoaderType'
    BY DEF TypeOK, LoaderType, LoopInv, Busy
<1>2. TransportType'
    BY Empties DEF TypeOK, TransportType
<1>3. HostType'
    BY DEF TypeOK, HostType, HostInv
<1>4. LoopInv'
    BY DEF TypeOK, LoaderType, LoopInv, Idle, Busy, Cmd
<1>5. HostInv'
    BY DEF TypeOK, HostType, HostInv, WireInv, Waiting, Cmd
<1>6. WireInv'
    BY DEF WireInv, HostInv, Waiting, Idle, Empty, NoAnswer, OneAnswer, Asked, Cmd
<1>7. EraseFlight'
    BY DEF EraseFlight, HostInv, WireInv, Asked
<1>8. PageFlight'
    BY DEF PageFlight, HostInv, WireInv, Empty, Page1, Page2
<1>9. ResetFlight'
    BY DEF ResetFlight, HostInv, WireInv, Empty
<1>10. SessionInv'
    BY DEF SessionInv, HostInv, WireInv, Due, Ok, Empty, NoAnswer, Waiting
<1>11. PagesInv'
    BY DEF PagesInv, HostInv, WireInv, Written, Whole, Ok, Empty, Idle, NoAnswer, Waiting
<1>12. ReachInv'
    BY DEF TypeOK, LoaderType, HostType, ReachInv, HostInv, WireInv, Reach, WriteDue,
        Idle, Empty, Cmd
<1>13. PsmInv'
    BY DEF PsmInv, PsmSpared, TypeOK, HostType
<1> QED BY <1>1, <1>2, <1>3, <1>4, <1>5, <1>6, <1>7,
           <1>8, <1>9, <1>10, <1>11, <1>12, <1>13 DEF TypeOK

LEMMA SendEraseStep ==
    ASSUME IInv, SendErase
    PROVE  IInv'
PROOF
<1> USE LoaderAssumption, BleAssumption DEF IInv, transport, host, loader, SendErase
<1> DEFINE c == Cmd("erase", Pages - fw_data + 1)
<1>a. /\ hpc = "settle" /\ link /\ to_device = <<>> /\ to_host = <<>> /\ Idle
      /\ \A i \in DOMAIN rx : Zero(rx[i])
    BY DEF WireInv
<1>b. c \in Commands /\ c.cmd = "erase"
    BY DEF Commands, Cmd, TypeOK, HostType
<1>c. /\ to_device' = Frame(c) /\ to_device' \in Seq(Parts) /\ to_device' # <<>>
      /\ UNCHANGED <<loader, link, if_type, reading, rx, rx_len, is_rcv_msg, rx_index,
                     held, torn, to_host>>
      /\ sent' = "erase" /\ hpc' = "answer" /\ rx_queue' = <<>>
      /\ UNCHANGED <<fw_data, retry>>
    BY <1>a, <1>b, Sending
<1>d. c = Asked'
    BY <1>c DEF Asked
<1>1. LoaderType'
    BY <1>c DEF TypeOK, LoaderType
<1>2. TransportType'
    BY <1>c DEF TypeOK, TransportType
<1>3. HostType'
  <2>1. fresh' \in BOOLEAN
    OBVIOUS
  <2> QED BY <2>1, <1>c DEF TypeOK, HostType
<1>4. LoopInv'
    BY <1>c DEF LoopInv, Idle, Busy
<1>5. HostInv'
    BY <1>a, <1>c DEF HostInv, Idle
<1>6. WireInv'
    BY <1>a, <1>c, Empties DEF WireInv, Waiting, Idle, NoAnswer, OneAnswer
<1>7. EraseFlight'
    BY <1>a, <1>c, <1>d DEF EraseFlight, Zero
<1>8. PageFlight'
    BY <1>c DEF PageFlight
<1>9. ResetFlight'
    BY <1>c DEF ResetFlight
<1>10. SessionInv'
    BY <1>a, <1>c DEF SessionInv, Due, Ok
<1>11. PagesInv'
  <2>1. ~ Ok' /\ ~ Busy
    BY <1>a, <1>c DEF Ok, LoopInv, Busy, Idle
  <2>2. fresh' => fw_data = 1 /\ (pc = "read" => iap_write_addr = 0)
    BY DEF Unwritten
  <2> QED BY <1>c, <2>1, <2>2 DEF PagesInv, Busy
<1>12. ReachInv'
  <2>1. ~ WriteDue'
    BY <1>a, <1>b, <1>c, FrameFacts DEF WriteDue, Idle, Zero
  <2> QED BY <1>a, <1>c, <2>1 DEF ReachInv, Reach
<1>13. PsmInv'
    BY <1>c DEF PsmInv, PsmSpared
<1> QED BY <1>1, <1>2, <1>3, <1>4, <1>5, <1>6, <1>7,
           <1>8, <1>9, <1>10, <1>11, <1>12, <1>13 DEF TypeOK

LEMMA SendPageStep ==
    ASSUME IInv, SendPage
    PROVE  IInv'
PROOF
<1> USE LoaderAssumption, BleAssumption DEF IInv, transport, host, loader, SendPage
<1> DEFINE c == Cmd("write", fw_data)
<1>a. hpc = "send" /\ link /\ Empty /\ Idle /\ NoAnswer /\ fw_data \in 1 .. Pages
    BY DEF WireInv, TypeOK, HostType
<1>b. c \in Commands /\ c.cmd = "write" /\ Frame(c) = <<Page1, Page2>>
    BY <1>a, FrameOf DEF Commands, Cmd, Page1, Page2
<1>c. /\ to_device' = <<Page1, Page2>> /\ to_device' \in Seq(Parts) /\ to_device' # <<>>
      /\ UNCHANGED <<loader, link, if_type, reading, rx, rx_len, is_rcv_msg, rx_index,
                     held, torn, to_host>>
      /\ sent' = "write" /\ hpc' = "answer" /\ rx_queue' = <<>>
      /\ UNCHANGED <<fw_data, retry, fresh>>
    BY <1>a, <1>b, Sending DEF Empty
<1>1. LoaderType'
    BY <1>c DEF TypeOK, LoaderType
<1>2. TransportType'
    BY <1>c DEF TypeOK, TransportType
<1>3. HostType'
    BY <1>c DEF TypeOK, HostType
<1>4. LoopInv'
    BY <1>c DEF LoopInv, Idle, Busy
<1>5. HostInv'
    BY <1>a, <1>c DEF HostInv, Idle
<1>6. WireInv'
    BY <1>a, <1>c, Empties DEF WireInv, Waiting, Idle, NoAnswer, OneAnswer
<1>7. EraseFlight'
    BY <1>c DEF EraseFlight
<1>8. PageFlight'
    BY <1>a, <1>c DEF PageFlight, Empty, Page1, Page2
<1>9. ResetFlight'
    BY <1>c DEF ResetFlight
<1>10. SessionInv'
    BY <1>a, <1>c DEF SessionInv, Due
<1>11. PagesInv'
    BY <1>a, <1>c DEF PagesInv, Written, Ok, NoAnswer
<1>12. ReachInv'
    BY <1>a, <1>c DEF ReachInv, Reach, TypeOK, HostType, LoaderType
<1>13. PsmInv'
    BY <1>c DEF PsmInv, PsmSpared
<1> QED BY <1>1, <1>2, <1>3, <1>4, <1>5, <1>6, <1>7,
           <1>8, <1>9, <1>10, <1>11, <1>12, <1>13 DEF TypeOK

LEMMA SendResetStep ==
    ASSUME IInv, SendReset
    PROVE  IInv'
PROOF
<1> USE LoaderAssumption, BleAssumption DEF IInv, transport, host, loader, SendReset
<1> DEFINE c == Cmd("reset", 0)
<1>a. hpc = "send" /\ link /\ Empty /\ Idle /\ NoAnswer /\ fw_data = Pages + 1
    BY DEF WireInv, TypeOK, HostType
<1>b. c \in Commands /\ c.cmd = "reset"
    BY DEF Commands, Cmd
<1>c. /\ to_device' = Frame(c) /\ to_device' \in Seq(Parts) /\ to_device' # <<>>
      /\ UNCHANGED <<loader, link, if_type, reading, rx, rx_len, is_rcv_msg, rx_index,
                     held, torn, to_host>>
      /\ sent' = "reset" /\ hpc' = "closing"
      /\ UNCHANGED <<fw_data, retry, rx_queue, fresh>>
    BY <1>a, <1>b, Sending DEF Empty
<1>1. LoaderType'
    BY <1>c DEF TypeOK, LoaderType
<1>2. TransportType'
    BY <1>c DEF TypeOK, TransportType
<1>3. HostType'
    BY <1>c DEF TypeOK, HostType
<1>4. LoopInv'
    BY <1>c DEF LoopInv, Idle, Busy
<1>5. HostInv'
    BY <1>a, <1>c DEF HostInv, Idle
<1>6. WireInv'
    BY <1>a, <1>c, Empties DEF WireInv, Waiting, Idle, NoAnswer, OneAnswer
<1>7. EraseFlight'
    BY <1>c DEF EraseFlight
<1>8. PageFlight'
    BY <1>c DEF PageFlight
<1>9. ResetFlight'
    BY <1>a, <1>c DEF ResetFlight, Empty
<1>10. SessionInv'
    BY <1>c DEF SessionInv, Due
<1>11. PagesInv'
    BY <1>a, <1>c DEF PagesInv, Written, Whole, Ok, NoAnswer
<1>12. ReachInv'
  <2>1. ~ WriteDue'
    BY <1>a, <1>b, <1>c, FrameFacts DEF WriteDue, Idle, Empty
  <2> QED BY <1>a, <1>c, <2>1 DEF ReachInv, Reach
<1>13. PsmInv'
    BY <1>c DEF PsmInv, PsmSpared
<1> QED BY <1>1, <1>2, <1>3, <1>4, <1>5, <1>6, <1>7,
           <1>8, <1>9, <1>10, <1>11, <1>12, <1>13 DEF TypeOK

LEMMA SendFailsStep ==
    ASSUME IInv, SendFails
    PROVE  IInv'
PROOF
<1> USE LoaderAssumption, BleAssumption
    DEF IInv, transport, host, loader, SendFails, Failed, NextTry, Disconnect
<1>1. LoaderType'
    BY DEF TypeOK, LoaderType, LoopInv, Busy
<1>2. TransportType'
    BY DisconnectType DEF TypeOK
<1>3. HostType'
    BY DEF TypeOK, HostType, HostInv
<1>4. LoopInv'
    BY DEF TypeOK, LoaderType, LoopInv, Idle, Busy, Cmd
<1>5. HostInv'
    BY DEF TypeOK, HostType, HostInv, WireInv, Waiting, Cmd
<1>6. WireInv'
  <2>1. hpc' \in {"scan", "connect", "gaveup"} /\ rx_queue' = rx_queue /\ to_host' = <<>>
    OBVIOUS
  <2>2. \A i \in DOMAIN rx : rx[i].cmd # "reset"
    BY DEF WireInv, Zero, Empty
  <2>3. Len(rx_queue) \in 0 .. 1
    BY DEF TypeOK, HostType
  <2>4. OneAnswer'
    BY <2>1, <2>3, NoneSent, Zenon
  <2>5. Idle' /\ rx' = rx /\ rx_len' = rx_len /\ (rx = <<>> => rx_len = 0)
    BY DEF WireInv, Idle
  <2> QED BY <2>1, <2>2, <2>4, <2>5 DEF WireInv, Waiting
<1>7. EraseFlight'
    BY DEF EraseFlight, HostInv, WireInv, Asked
<1>8. PageFlight'
    BY DEF PageFlight, HostInv, WireInv, Empty, Page1, Page2
<1>9. ResetFlight'
    BY DEF ResetFlight, HostInv, WireInv, Empty
<1>10. SessionInv'
    BY DEF SessionInv, HostInv, WireInv, Due, Ok, Empty, NoAnswer, Waiting
<1>11. PagesInv'
    BY DEF PagesInv, HostInv, WireInv, Written, Whole, Ok, Empty, Idle, NoAnswer, Waiting
<1>12. ReachInv'
    BY DEF TypeOK, LoaderType, HostType, ReachInv, HostInv, WireInv, Reach, WriteDue,
        Idle, Empty, Cmd
<1>13. PsmInv'
    BY DEF PsmInv, PsmSpared, TypeOK, HostType
<1> QED BY <1>1, <1>2, <1>3, <1>4, <1>5, <1>6, <1>7,
           <1>8, <1>9, <1>10, <1>11, <1>12, <1>13 DEF TypeOK

LEMMA GetResponseStep ==
    ASSUME IInv, GetResponse
    PROVE  IInv'
PROOF
<1> USE LoaderAssumption, BleAssumption DEF IInv, transport, host, loader, GetResponse
<1>1. LoaderType'
    BY DEF TypeOK, LoaderType, LoopInv, Busy
<1>2. TransportType'
    BY Empties DEF TypeOK, TransportType
<1>3. HostType'
    BY DEF TypeOK, HostType, HostInv
<1>4. LoopInv'
    BY DEF TypeOK, LoaderType, LoopInv, Idle, Busy, Cmd
<1>5. HostInv'
    BY DEF TypeOK, HostType, HostInv, WireInv, Waiting, Cmd
<1>6. WireInv'
    BY DEF WireInv, HostInv, Waiting, Idle, Empty, NoAnswer, OneAnswer, Asked, Cmd
<1>7. EraseFlight'
    BY DEF EraseFlight, HostInv, WireInv, Asked
<1>8. PageFlight'
    BY DEF PageFlight, HostInv, WireInv, Empty, Page1, Page2
<1>9. ResetFlight'
    BY DEF ResetFlight, HostInv, WireInv, Empty
<1>10. SessionInv'
    BY DEF SessionInv, HostInv, WireInv, Due, Ok, Empty, NoAnswer, Waiting
<1>11. PagesInv'
  <2>1. Ok /\ hpc' = "send" /\ fresh' = fresh /\ UNCHANGED <<loader, transport>>
    BY DEF Ok
  <2>2. fresh => Written(IF sent = "write" THEN fw_data ELSE fw_data - 1)
    BY <2>1 DEF PagesInv
  <2>3. fw_data' - 1 = IF sent = "write" THEN fw_data ELSE fw_data - 1
    BY DEF TypeOK, HostType
  <2>4. fresh => Written(fw_data' - 1)
    BY <2>2, <2>3
  <2> QED BY <2>1, <2>4 DEF PagesInv, Written
<1>12. ReachInv'
    BY DEF TypeOK, LoaderType, HostType, ReachInv, HostInv, WireInv, Reach, WriteDue,
        Idle, Empty, Cmd
<1>13. PsmInv'
    BY DEF PsmInv, PsmSpared
<1> QED BY <1>1, <1>2, <1>3, <1>4, <1>5, <1>6, <1>7,
           <1>8, <1>9, <1>10, <1>11, <1>12, <1>13 DEF TypeOK

LEMMA NackOrTimeoutStep ==
    ASSUME IInv, NackOrTimeout
    PROVE  IInv'
PROOF
<1> USE LoaderAssumption, BleAssumption
    DEF IInv, transport, host, loader, NackOrTimeout, NextTry, Disconnect
<1>1. LoaderType'
    BY DEF TypeOK, LoaderType, LoopInv, Busy
<1>2. TransportType'
    BY DisconnectType DEF TypeOK
<1>3. HostType'
    BY DEF TypeOK, HostType, HostInv
<1>4. LoopInv'
    BY DEF TypeOK, LoaderType, LoopInv, Idle, Busy, Cmd
<1>5. HostInv'
    BY DEF TypeOK, HostType, HostInv, WireInv, Waiting, Cmd
<1>6. WireInv'
  <2>1. hpc' \in {"scan", "connect", "gaveup"} /\ rx_queue' = <<>> /\ to_host' = <<>> /\ to_device' = <<>>
    OBVIOUS
  <2>2. \A i \in DOMAIN rx : rx[i].cmd # "reset"
    BY DEF EraseFlight, PageFlight, HostInv, Asked, Page1, Page2, Zero, Empty, Part, Cmd,
        Frame
  <2>4. OneAnswer'
    BY <2>1, Empties DEF OneAnswer
  <2> QED BY <2>1, <2>2, <2>4 DEF WireInv, Waiting, Idle, Empty
<1>7. EraseFlight'
    BY DEF EraseFlight, HostInv, WireInv, Asked
<1>8. PageFlight'
    BY DEF PageFlight, HostInv, WireInv, Empty, Page1, Page2
<1>9. ResetFlight'
    BY DEF ResetFlight, HostInv, WireInv, Empty
<1>10. SessionInv'
    BY DEF SessionInv, HostInv, WireInv, Due, Ok, Empty, NoAnswer, Waiting
<1>11. PagesInv'
    BY DEF PagesInv, HostInv, WireInv, Written, Whole, Ok, Empty, Idle, NoAnswer, Waiting
<1>12. ReachInv'
    BY DEF TypeOK, LoaderType, HostType, ReachInv, HostInv, WireInv, Reach, WriteDue,
        Idle, Empty, Cmd
<1>13. PsmInv'
    BY DEF PsmInv, PsmSpared, TypeOK, HostType
<1> QED BY <1>1, <1>2, <1>3, <1>4, <1>5, <1>6, <1>7,
           <1>8, <1>9, <1>10, <1>11, <1>12, <1>13 DEF TypeOK

LEMMA FinishStep ==
    ASSUME IInv, Finish
    PROVE  IInv'
PROOF
<1> USE LoaderAssumption, BleAssumption
    DEF IInv, transport, host, loader, Finish, Disconnect
<1>1. LoaderType'
    BY DEF TypeOK, LoaderType, LoopInv, Busy
<1>2. TransportType'
    BY DisconnectType DEF TypeOK
<1>3. HostType'
    BY DEF TypeOK, HostType, HostInv
<1>4. LoopInv'
    BY DEF TypeOK, LoaderType, LoopInv, Idle, Busy, Cmd
<1>5. HostInv'
    BY DEF TypeOK, HostType, HostInv, WireInv, Waiting, Cmd
<1>6. WireInv'
    BY DEF WireInv, HostInv, Waiting, Idle, Empty, NoAnswer, OneAnswer, Asked, Cmd
<1>7. EraseFlight'
    BY DEF EraseFlight, HostInv, WireInv, Asked
<1>8. PageFlight'
    BY DEF PageFlight, HostInv, WireInv, Empty, Page1, Page2
<1>9. ResetFlight'
    BY DEF ResetFlight, HostInv, WireInv, Empty
<1>10. SessionInv'
    BY DEF SessionInv, HostInv, WireInv, Due, Ok, Empty, NoAnswer, Waiting
<1>11. PagesInv'
    BY DEF PagesInv, HostInv, WireInv, Written, Whole, Ok, Empty, Idle, NoAnswer, Waiting
<1>12. ReachInv'
    BY DEF TypeOK, LoaderType, HostType, ReachInv, HostInv, WireInv, Reach, WriteDue,
        Idle, Empty, Cmd
<1>13. PsmInv'
    BY DEF PsmInv, PsmSpared
<1> QED BY <1>1, <1>2, <1>3, <1>4, <1>5, <1>6, <1>7,
           <1>8, <1>9, <1>10, <1>11, <1>12, <1>13 DEF TypeOK

LEMMA NotifiedStep ==
    ASSUME IInv, Notified
    PROVE  IInv'
PROOF
<1> USE LoaderAssumption, BleAssumption DEF IInv, transport, host, loader, Notified
<1>a. hpc = "answer" /\ rx_queue = <<>> /\ Empty /\ Idle /\ Len(to_host) = 1
    BY DEF WireInv, HostInv, NoAnswer, Waiting, OneAnswer, TypeOK, TransportType, HostType
<1>b. /\ to_host' = <<>> /\ Head(to_host) \in {"ok", "nack"} /\ to_host = <<Head(to_host)>>
    BY <1>a, Only DEF TypeOK, TransportType
<1>c. /\ rx_queue' = to_host /\ hpc' = hpc
      /\ rx_queue' \in {<<"ok">>, <<"nack">>}
    BY <1>a, <1>b
<1>d. UNCHANGED <<loader, link, if_type, reading, rx, rx_len, is_rcv_msg, rx_index,
                  held, torn, to_device, fw_data, sent, retry, fresh>>
    OBVIOUS
<1>e. Ok' <=> Ok
    BY <1>a, <1>b, <1>c DEF Ok
<1>1. LoaderType'
    BY <1>d DEF TypeOK, LoaderType
<1>2. TransportType'
    BY <1>b, <1>d, Empties DEF TypeOK, TransportType
<1>3. HostType'
    BY <1>c, <1>d DEF TypeOK, HostType
<1>4. LoopInv'
    BY <1>d DEF LoopInv, Idle, Busy
<1>5. HostInv'
    BY <1>b, <1>c, <1>d DEF HostInv
<1>6. WireInv'
  <2>1. Len(rx_queue') = 1 /\ Len(to_host') = 0
    BY <1>a, <1>b, <1>c, Empties
  <2>2. OneAnswer'
    BY <2>1 DEF OneAnswer
  <2> QED BY <1>a, <1>b, <1>c, <1>d, <2>2 DEF WireInv, Waiting, Idle, Empty
<1>7. EraseFlight'
    BY <1>c, <1>d DEF EraseFlight, Asked
<1>8. PageFlight'
    BY <1>c, <1>d DEF PageFlight, Empty, Page1, Page2
<1>9. ResetFlight'
    BY <1>c, <1>d DEF ResetFlight, Empty
<1>10. SessionInv'
    BY <1>c, <1>d, <1>e DEF SessionInv, Due, Empty
<1>11. PagesInv'
    BY <1>a, <1>c, <1>d, <1>e DEF PagesInv, Written, Empty, Idle
<1>12. ReachInv'
    BY <1>c, <1>d DEF ReachInv, Reach, WriteDue
<1>13. PsmInv'
    BY <1>d DEF PsmInv, PsmSpared
<1> QED BY <1>1, <1>2, <1>3, <1>4, <1>5, <1>6, <1>7,
           <1>8, <1>9, <1>10, <1>11, <1>12, <1>13 DEF TypeOK

LEMMA LinkLostStep ==
    ASSUME IInv, LinkLost
    PROVE  IInv'
PROOF
<1> USE LoaderAssumption, BleAssumption
    DEF IInv, transport, host, loader, LinkLost, Disconnect
<1>1. LoaderType'
    BY DEF TypeOK, LoaderType, LoopInv, Busy
<1>2. TransportType'
    BY DisconnectType DEF TypeOK
<1>3. HostType'
    BY DEF TypeOK, HostType, HostInv
<1>4. LoopInv'
    BY DEF TypeOK, LoaderType, LoopInv, Idle, Busy, Cmd
<1>5. HostInv'
    BY DEF TypeOK, HostType, HostInv, WireInv, Waiting, Cmd
<1>6. WireInv'
    BY DEF WireInv, HostInv, Waiting, Idle, Empty, NoAnswer, OneAnswer, Asked, Cmd
<1>7. EraseFlight'
    BY DEF EraseFlight, HostInv, WireInv, Asked
<1>8. PageFlight'
    BY DEF PageFlight, HostInv, WireInv, Empty, Page1, Page2
<1>9. ResetFlight'
    BY DEF ResetFlight, HostInv, WireInv, Empty
<1>10. SessionInv'
    BY DEF SessionInv, HostInv, WireInv, Due, Ok, Empty, NoAnswer, Waiting
<1>11. PagesInv'
    BY DEF PagesInv, HostInv, WireInv, Written, Whole, Ok, Empty, Idle, NoAnswer, Waiting
<1>12. ReachInv'
    BY DEF TypeOK, LoaderType, HostType, ReachInv, HostInv, WireInv, Reach, WriteDue,
        Idle, Empty, Cmd
<1>13. PsmInv'
    BY DEF PsmInv, PsmSpared
<1> QED BY <1>1, <1>2, <1>3, <1>4, <1>5, <1>6, <1>7,
           <1>8, <1>9, <1>10, <1>11, <1>12, <1>13 DEF TypeOK

-----------------------------------------------------------------------------
(***************************************************************************)
(* The theorems.                                                           *)
(***************************************************************************)

LEMMA InitHolds ==
    ASSUME Init
    PROVE  IInv
PROOF
<1> USE LoaderAssumption, BleAssumption
<1>1. /\ pc = "window" /\ back = "window" /\ iap_write_addr = 0 /\ err_cnt = 0 /\ to_cnt = 0
      /\ active_index = 0 /\ hpc \in {"scan", "connect"} /\ fw_data = 1 /\ sent = "none" /\ retry = 0
      /\ rx_queue = <<>> /\ fresh = FALSE
      /\ rx = <<>> /\ rx_len = 0 /\ to_device = <<>> /\ to_host = <<>>
      /\ held = Cmd("none", 0)
    BY DEF Init, LoaderInit
<1>2. ~ link /\ ~ torn /\ if_type = "uart" /\ reading = "uart" /\ rx_index = 0
      /\ is_rcv_msg = FALSE /\ link = FALSE /\ torn = FALSE
    BY DEF Init
<1>3. PICK old \in {Old, Mixed} : slot = [i \in Sectors |-> IF i = SlotSectors THEN Old ELSE old]
    BY DEF Init, LoaderInit
<1>4. slot \in [Sectors -> Content] /\ slot[SlotSectors] = Old
    BY <1>3 DEF Sectors, Content, Old, Mixed
<1>5. LoaderType /\ HostType
  <2>1. LoaderType
    BY <1>1, <1>4 DEF LoaderType
  <2>2. fresh \in BOOLEAN
    BY <1>1, Zenon
  <2>3. fw_data \in 1 .. Pages + 1 /\ retry \in 0 .. MaxTry
    BY <1>1
  <2> QED BY <1>1, <2>1, <2>2, <2>3 DEF HostType
<1>6. TransportType
  <2>1. link \in BOOLEAN /\ is_rcv_msg \in BOOLEAN /\ torn \in BOOLEAN
    BY Zenon DEF Init
  <2>2. rx \in Seq(Parts) /\ to_device \in Seq(Parts) /\ to_host \in Seq({"ok", "nack"})
    BY <1>1, Empties
  <2> QED BY <1>1, <1>2, <2>1, <2>2 DEF TransportType
<1>7. Idle /\ Empty /\ ~ Busy /\ NoAnswer /\ OneAnswer /\ ~ WriteDue
    BY <1>1, Empties DEF Idle, Empty, Busy, NoAnswer, OneAnswer, WriteDue, Cmd
<1>8. LoopInv /\ HostInv /\ WireInv
    BY <1>1, <1>2, <1>7, Empties DEF LoopInv, HostInv, WireInv, Waiting, Idle
<1>9. EraseFlight /\ PageFlight /\ ResetFlight /\ SessionInv /\ PagesInv
    BY <1>1, <1>2 DEF EraseFlight, PageFlight, ResetFlight, SessionInv, PagesInv
<1>10. ReachInv
    BY <1>1, <1>7 DEF ReachInv, Reach
<1>11. PsmInv
    BY <1>4 DEF PsmInv, PsmSpared
<1> QED BY <1>5, <1>6, <1>8, <1>9, <1>10, <1>11 DEF IInv, TypeOK

LEMMA Stuttering ==
    ASSUME IInv, UNCHANGED vars
    PROVE  IInv'
PROOF
<1> USE DEF IInv, vars, loader, transport, host
<1>1. TypeOK' /\ LoopInv' /\ HostInv' /\ WireInv'
    BY DEF TypeOK, LoaderType, TransportType, HostType, LoopInv, HostInv, WireInv, Idle,
        Busy,
        Empty, NoAnswer, Waiting, Asked, OneAnswer
<1>2. EraseFlight' /\ PageFlight' /\ ResetFlight'
    BY DEF EraseFlight, PageFlight, ResetFlight, Asked, Empty, Page1, Page2
<1>3. SessionInv' /\ PagesInv'
    BY DEF SessionInv, PagesInv, Due, Ok, Empty, Idle, NoAnswer, Written
<1>4. ReachInv' /\ PsmInv'
    BY DEF ReachInv, Reach, WriteDue, PsmInv, PsmSpared
<1> QED BY <1>1, <1>2, <1>3, <1>4

LEMMA NextHolds ==
    ASSUME IInv, [Next]_vars
    PROVE  IInv'
PROOF
<1>1. CASE Device
    BY <1>1, HandshakeStep, ReadStep, ReadTimesOutStep, ExecuteStep, SystemResetStep,
       CloseWindowStep, NoHandshakeStep, PreJumpStep DEF Device
<1>2. CASE HostStep
    BY <1>2, ScanStep, ConnectStep, ConnectFailsStep, SendEraseStep, SendPageStep, SendResetStep,
       SendFailsStep, GetResponseStep, NackOrTimeoutStep, FinishStep DEF HostStep
<1>3. CASE Receive \/ Notified \/ LinkLost
    BY <1>3, ReceiveStep, NotifiedStep, LinkLostStep
<1>4. CASE PowerFails
    BY <1>4, PowerFailsStep
<1>5. CASE UNCHANGED vars
    BY <1>5, Stuttering
<1> QED BY <1>1, <1>2, <1>3, <1>4, <1>5 DEF Next, Step

(* The inductive invariant holds in every reachable state: whatever order  *)
(* the host, the connection, the BLE task and main_task run in.            *)
THEOREM IInvCorrect == Spec => []IInv
PROOF
<1>1. Init => IInv
    BY InitHolds
<1>2. IInv /\ [Next]_vars => IInv'
    BY NextHolds
<1> QED BY <1>1, <1>2, PTL DEF Spec

(* The host never gets a second answer while the first is in its queue, in *)
(* which notification_handler would block for good.                        *)
THEOREM OneAnswerCorrect == Spec => []OneAnswer
PROOF
<1>1. IInv => OneAnswer
    BY DEF IInv, WireInv
<1> QED BY <1>1, IInvCorrect, PTL

(* What the host has removed from fw_data, in a transaction that began with *)
(* the whole firmware in an unused session, is in the slot, and what it     *)
(* reports as a success is one.                                             *)
THEOREM AckedIsWrittenCorrect == Spec => []AckedIsWritten
PROOF
<1>1. ASSUME IInv
      PROVE  AckedIsWritten
  <2>1. CASE hpc = "send"
    <3>1. fresh => Written(fw_data - 1)
        BY <1>1, <2>1 DEF IInv, PagesInv
    <3>2. link => pc = "read"
        BY <1>1, <2>1 DEF IInv, SessionInv, Due
    <3> QED BY <2>1, <3>1, <3>2 DEF AckedIsWritten, Written
  <2>2. CASE hpc \in {"closing", "done"}
    <3>1. fw_data = Pages + 1 /\ (fresh => Whole(slot))
        BY <1>1, <2>2 DEF IInv, HostInv, PagesInv
    <3>2. fw_data - 1 = Pages
        BY <3>1, LoaderAssumption
    <3> QED BY <2>2, <3>1, <3>2 DEF AckedIsWritten, Whole
  <2> QED BY <2>1, <2>2 DEF AckedIsWritten
<1> QED BY <1>1, IInvCorrect, PTL

(* The application is started unchecked only after a session that was      *)
(* opened by the last poll.                                                *)
THEOREM CheckedBeforeJumpCorrect == Spec => []CheckedBeforeJump
PROOF
<1>1. IInv => CheckedBeforeJump
    BY DEF IInv, LoopInv, CheckedBeforeJump
<1> QED BY <1>1, IInvCorrect, PTL

(* With a spare sector in the slot, the partition behind it is overwritten *)
(* only after more failed transactions than there are spare sectors.       *)
THEOREM PsmSparedCorrect ==
    ASSUME Pages < SlotSectors
    PROVE  Spec => []PsmSpared
PROOF
<1>1. IInv => PsmSpared
    BY DEF IInv, PsmInv
<1> QED BY <1>1, IInvCorrect, PTL

(* The reset command flips the active index, in a transaction that began   *)
(* with the whole firmware, only when the firmware is whole in the slot.   *)
THEOREM FreshIsWholeCorrect == Spec => FreshIsWhole
PROOF
<1>1. ASSUME IInv, [Next]_vars
      PROVE  [active_index' # active_index /\ fresh => Whole(slot)]_vars
  <2> SUFFICES ASSUME active_index' # active_index, fresh
               PROVE  Whole(slot)
    OBVIOUS
  <2>1. pc = "reset"
    BY <1>1 DEF Next, Step, Device, HostStep, vars, loader,
        Handshake, OpenSession, ReadBle, ReadUart, Handle, Dispatch, DropFrame, NoMessage,
        ReadTimesOut, Execute, EraseFlash, EraseFlashFails, WriteFlash, WriteFlashFails,
        CommandFails, SystemReset, Reset, CloseWindow, CheckImage, NoHandshake, LastPoll,
        PreJump, Jump, Scan, Connect, ConnectFails, SendErase, SendPage, SendReset, SendCommand,
        SendFails, Failed, GetResponse, NackOrTimeout, Finish, Receive, Notified, LinkLost,
        PowerFails, PowerCycle
  <2>2. hpc \in {"closing", "done"}
    BY <1>1, <2>1 DEF IInv, LoopInv, HostInv, Busy
  <2> QED BY <1>1, <2>2 DEF IInv, PagesInv
<1> QED BY <1>1, IInvCorrect, PTL DEF Spec, FreshIsWhole

(* What can be in the buffer: a page, and 12 bytes of an erase command for *)
(* every transaction that failed.                                          *)
Received == hpc = "answer" /\ sent = "erase" /\ to_device = <<>>

RoomInv == rx_len <= 4104 + 12 * (IF Received THEN retry + 1 ELSE retry)

LEMMA RoomStep ==
    ASSUME IInv, RoomInv, [Next]_vars
    PROVE  RoomInv'
PROOF
<1> USE LoaderAssumption, BleAssumption
<1>1. rx_len \in Nat /\ retry \in Nat
    BY DEF IInv, TypeOK, TransportType, HostType
<1>2. CASE rx_len' = 0 /\ retry' = retry
    BY <1>1, <1>2 DEF RoomInv
<1>3. CASE rx_len' = rx_len /\ retry' = retry + 1
    BY <1>1, <1>3 DEF RoomInv
<1>4. CASE rx_len' = rx_len /\ retry' = retry /\ (Received => Received')
    BY <1>1, <1>4 DEF RoomInv
<1>5. CASE Receive
  <2>1. Waiting /\ to_device # <<>>
    BY <1>5, ReceiveFacts DEF Receive
  <2>2. ~ Received /\ retry' = retry /\ hpc' = hpc /\ sent' = sent
    BY <1>5, <2>1 DEF Received, Receive, host
  <2>3. CASE hpc = "answer" /\ sent = "erase"
    <3>1. to_device = <<Part(Asked, 1, 12)>> /\ Part(Asked, 1, 12) \in Parts
        BY <2>1, <2>3, Asks, PartFacts DEF IInv, EraseFlight
    <3>2. Head(to_device).bytes = 12 /\ to_device' = <<>>
        BY <1>5, <2>1, <2>3, <3>1, Ones, Asks, PartFacts DEF IInv, Receive
    <3>3. Received' /\ rx_len' <= rx_len + 12
        BY <1>1, <1>5, <2>2, <2>3, <3>2 DEF Received, Receive
    <3>4. rx_len' \in Nat
        BY <1>5, ReceiveFacts
    <3> QED BY <1>1, <2>2, <3>3, <3>4 DEF RoomInv
  <2>4. CASE ~ (hpc = "answer" /\ sent = "erase")
    <3>1. rx_len' \in Nat /\ rx_len' <= 4104
      <4>1. CASE hpc = "answer"
        <5>1. sent = "write" /\ Page1.bytes = 4080 /\ Page2.bytes = 24
            BY <2>4, <4>1 DEF IInv, HostInv, Page1, Page2, Part, Cmd
        <5>2. Page1 \in Parts /\ Page2 \in Parts
            BY <2>1, <5>1, Asks, PartFacts DEF IInv, Page1, Page2
        <5>3. \/ to_device = <<Page1, Page2>> /\ rx = <<>>
              \/ to_device = <<Page2>> /\ rx_len = 4080
            BY <2>1, <4>1, <5>1 DEF IInv, PageFlight, Empty
        <5>4. CASE to_device = <<Page1, Page2>> /\ rx = <<>>
          <6>1. rx_len = 0 /\ Head(to_device).bytes = 4080
            BY <5>1, <5>2, <5>4, Twos DEF IInv, WireInv
          <6> QED BY <1>5, <6>1 DEF Receive, BLE_READBUF_SIZE
        <5>5. CASE to_device = <<Page2>> /\ rx_len = 4080
          <6>1. Head(to_device).bytes = 24
            BY <5>1, <5>2, <5>5, Ones
          <6> QED BY <1>5, <5>5, <6>1 DEF Receive, BLE_READBUF_SIZE
        <5> QED BY <5>3, <5>4, <5>5
      <4>2. CASE hpc \in {"closing", "done"}
        <5> DEFINE r == Part(Cmd("reset", 0), 1, 5)
        <5>1. Frame(Cmd("reset", 0)) = <<r>> /\ r \in Parts /\ r.bytes = 5
            BY <2>1, <4>2, Asks, PartFacts DEF IInv, HostInv
        <5>2. to_device = <<r>> /\ rx = <<>> /\ rx_len = 0
            BY <2>1, <4>2, <5>1 DEF IInv, ResetFlight, WireInv, Empty
        <5>3. Head(to_device).bytes = 5
            BY <5>1, <5>2, Ones
        <5> QED BY <1>5, <5>2, <5>3 DEF Receive, BLE_READBUF_SIZE
      <4> QED BY <2>1, <4>1, <4>2 DEF Waiting
    <3>2. ~ Received'
        BY <2>2, <2>4 DEF Received
    <3> QED BY <1>1, <2>2, <3>1, <3>2 DEF RoomInv
  <2> QED BY <2>3, <2>4
<1>6. CASE GetResponse
  <2>1. rx_len = 0
    BY <1>6, Answers DEF GetResponse, IInv, WireInv, Waiting, NoAnswer, Empty
  <2> QED BY <1>1, <1>6, <2>1 DEF RoomInv, GetResponse, transport
<1>7. CASE Device \/ PowerFails
    BY <1>2, <1>4, <1>7 DEF Device, host, transport, Received, Handshake, ReadBle,
        ReadUart,
        ReadTimesOut, Execute, SystemReset, CloseWindow, NoHandshake, PreJump, PowerFails,
        RestartTransport
<1>8. CASE Scan \/ Connect \/ SendErase \/ SendPage \/ SendReset \/ Finish
    BY <1>4, <1>8 DEF Scan, Connect, SendErase, SendPage, SendReset, SendCommand, Finish,
        Received, transport
<1>9. CASE ConnectFails \/ SendFails \/ NackOrTimeout
    BY <1>3, <1>9 DEF ConnectFails, SendFails, NackOrTimeout, Failed, NextTry, transport
<1>10. CASE LinkLost \/ UNCHANGED vars
    BY <1>4, <1>10 DEF LinkLost, Disconnect, vars, transport, host, Received
<1>11. CASE Notified
    BY <1>4, <1>11, NotifiedFacts DEF Received, Notified
<1> QED BY <1>5, <1>6, <1>7, <1>8, <1>9, <1>10, <1>11 DEF Next, Step, HostStep

(* Nothing is copied over a command that is being executed, and for up to  *)
(* 85 transactions (the script tries 10) what several connections leave in *)
(* the receive buffer fits.                                                *)
THEOREM BufferCorrect ==
    ASSUME MaxTry <= 85
    PROVE  Spec => []BufferInv
PROOF
<1>1. Init => RoomInv
    BY BleAssumption DEF Init, RoomInv
<1>2. IInv /\ RoomInv /\ [Next]_vars => RoomInv'
    BY RoomStep
<1>3. ASSUME IInv, RoomInv
      PROVE  BufferInv
  <2>1. rx_len \in Nat /\ retry \in 0 .. MaxTry /\ MaxTry \in Nat
        /\ (Received => retry < MaxTry)
    BY <1>3, BleAssumption DEF IInv, TypeOK, TransportType, HostType, HostInv, Received
  <2>2. rx_len <= 4104 + 12 * MaxTry
    BY <1>3, <2>1 DEF RoomInv
  <2>3. RxInBounds
    BY <2>1, <2>2 DEF RxInBounds, BLE_READBUF_SIZE
  <2> QED BY <1>3, <2>3 DEF IInv, LoopInv, BufferInv, CommandIntact
<1> QED BY <1>1, <1>2, <1>3, IInvCorrect, PTL DEF Spec

-----------------------------------------------------------------------------
(***************************************************************************)
(* The script ends: what it has left to do shrinks with each of its steps, *)
(* and nothing but its steps changes it.                                   *)
(***************************************************************************)

(* Steps left of this transaction, if nothing fails.                       *)
PagesLeft == Pages + 1 - fw_data
ToSend ==
    CASE hpc \in {"done", "gaveup", "hung"}  -> 0
      [] hpc = "closing"                     -> 1
      [] hpc = "answer" /\ sent = "write"    -> 2 * PagesLeft + 1
      [] hpc = "send"                        -> 2 * PagesLeft + 2
      [] hpc = "answer" /\ sent # "write"    -> 2 * PagesLeft + 3
      [] hpc = "settle"                      -> 2 * PagesLeft + 4
      [] hpc = "connect"                     -> 2 * PagesLeft + 5
      [] hpc = "scan"                        -> 2 * PagesLeft + 6

(* With those of the transactions that may follow it.                      *)
HostLeft == (MaxTry - retry) * (2 * Pages + 7) + ToSend

LEMMA HostNumbers ==
    ASSUME IInv
    PROVE  /\ MaxTry \in Nat /\ Pages \in Nat
           /\ retry \in 0 .. MaxTry /\ fw_data \in 1 .. Pages + 1
           /\ hpc \in {"scan", "connect", "settle", "answer", "send", "closing", "done", "gaveup"}
           /\ hpc = "answer" => sent \in {"erase", "write"}
           /\ hpc = "answer" /\ sent = "write" => fw_data <= Pages
BY BleAssumption, LoaderAssumption DEF IInv, TypeOK, HostType, HostInv

LEMMA ToSendBounds ==
    ASSUME IInv
    PROVE  ToSend \in 0 .. 2 * Pages + 6
BY HostNumbers DEF ToSend, PagesLeft

(* A transaction that fails leaves one less, each of whose steps count.     *)
LEMMA OneLess ==
    ASSUME NEW m \in Nat, NEW c \in Nat, NEW r \in 0 .. m, NEW s \in Nat,
           NEW t \in 0 .. c - 1, r + 1 <= m
    PROVE  (m - (r + 1)) * c + t \in 0 .. ((m - r) * c + s) - 1
<1> DEFINE k == m - (r + 1)
<1>1. k \in Nat /\ m - r = k + 1
  OBVIOUS
<1>2. (k + 1) * c = k * c + c /\ k * c \in Nat
  BY <1>1
<1> HIDE DEF k
<1>3. k * c + t \in 0 .. ((k * c + c) + s) - 1
  <2> DEFINE n == k * c
  <2>1. n \in Nat
    BY <1>2
  <2> HIDE DEF n
  <2>2. n + t \in 0 .. ((n + c) + s) - 1
    BY <2>1
  <2> QED BY <2>2 DEF n
<1> QED BY <1>1, <1>2, <1>3 DEF k

LEMMA LessSum ==
    ASSUME NEW n \in Nat, NEW s \in Nat, NEW t \in 0 .. s - 1
    PROVE  n + t \in 0 .. (n + s) - 1
OBVIOUS

LEMMA TriesLess ==
    ASSUME IInv, IInv', retry' = retry + 1
    PROVE  HostLeft' \in 0 .. HostLeft - 1
<1> DEFINE c == 2 * Pages + 7
<1>1. /\ MaxTry \in Nat /\ c \in Nat /\ retry \in 0 .. MaxTry /\ retry + 1 <= MaxTry
      /\ ToSend \in Nat
  <2>1. retry' \in 0 .. MaxTry
    BY BleAssumption DEF IInv, TypeOK, HostType
  <2> QED BY <2>1, HostNumbers, ToSendBounds
<1>2. ToSend' \in 0 .. c - 1
  <2>1. /\ fw_data' \in 1 .. Pages + 1
        /\ hpc' \in {"scan", "connect", "settle", "answer", "send", "closing", "done", "gaveup"}
        /\ hpc' = "answer" /\ sent' = "write" => fw_data' <= Pages
    BY DEF IInv, TypeOK, HostType, HostInv
  <2> QED BY <2>1, LoaderAssumption DEF ToSend, PagesLeft
<1>3. HostLeft = (MaxTry - retry) * c + ToSend
      /\ HostLeft' = (MaxTry - (retry + 1)) * c + ToSend'
  BY DEF HostLeft
<1> HIDE DEF c
<1> QED BY <1>1, <1>2, <1>3, OneLess

LEMMA StepsLess ==
    ASSUME IInv, retry' = retry, ToSend' \in 0 .. ToSend - 1
    PROVE  HostLeft' \in 0 .. HostLeft - 1
<1> DEFINE n == (MaxTry - retry) * (2 * Pages + 7)
<1>1. n \in Nat /\ ToSend \in Nat
  <2> DEFINE k == MaxTry - retry
             c == 2 * Pages + 7
  <2>1. k \in Nat /\ c \in Nat
    BY HostNumbers
  <2> HIDE DEF k, c
  <2>2. k * c \in Nat
    BY <2>1
  <2> QED BY <2>2, ToSendBounds, HostNumbers DEF k, c
<1>2. n' = n
  OBVIOUS
<1>3. HostLeft = n + ToSend /\ HostLeft' = n + ToSend'
  BY <1>2 DEF HostLeft
<1> HIDE DEF n
<1>4. ToSend' \in 0 .. ToSend - 1
  OBVIOUS
<1>5. n + ToSend' \in 0 .. (n + ToSend) - 1
  BY <1>1, <1>4, LessSum, Zenon
<1> QED BY <1>3, <1>5, Zenon

LEMMA HostLess ==
    ASSUME IInv, IInv', HostStep, ~ UNCHANGED vars
    PROVE  HostLeft' \in 0 .. HostLeft - 1
<1>1. CASE ConnectFails \/ SendFails \/ NackOrTimeout
  <2>1. retry' = retry + 1
    BY <1>1 DEF ConnectFails, SendFails, NackOrTimeout, Failed, NextTry
  <2> QED BY <2>1, TriesLess
<1>2. CASE Scan \/ Connect \/ SendErase \/ SendPage \/ SendReset \/ GetResponse \/ Finish
  <2>1. retry' = retry
    BY <1>2 DEF Scan, Connect, SendErase, SendPage, SendReset, GetResponse, Finish
  <2>2. \/ hpc = "scan" /\ hpc' = "connect" /\ fw_data' = fw_data
        \/ hpc = "connect" /\ hpc' = "settle" /\ fw_data' = fw_data
        \/ hpc = "settle" /\ hpc' = "answer" /\ sent' = "erase" /\ fw_data' = fw_data
        \/ hpc = "send" /\ hpc' = "answer" /\ sent' = "write" /\ fw_data' = fw_data
        \/ hpc = "send" /\ hpc' = "closing"
        \/ /\ hpc = "answer" /\ hpc' = "send"
           /\ fw_data' = IF sent = "write" THEN fw_data + 1 ELSE fw_data
        \/ hpc = "closing" /\ hpc' = "done"
    BY <1>2 DEF Scan, Connect, SendErase, SendPage, SendReset, SendCommand, Cmd,
        GetResponse, Finish, vars, host
  <2>3. ToSend' \in 0 .. ToSend - 1
    BY <2>2, HostNumbers DEF ToSend, PagesLeft
  <2> QED BY <2>1, <2>3, StepsLess
<1> QED BY <1>1, <1>2 DEF HostStep

LEMMA HostSame ==
    ASSUME IInv, [Next]_vars, ~ HostStep
    PROVE  HostLeft' = HostLeft
<1>1. UNCHANGED <<hpc, sent, fw_data, retry>>
  <2>1. CASE Device \/ PowerFails
    BY <2>1, Zenon DEF Device, host, Handshake, ReadBle, ReadUart, ReadTimesOut, Execute,
        SystemReset, CloseWindow, NoHandshake, PreJump, PowerFails
  <2>2. CASE Receive \/ LinkLost
    BY <2>2 DEF Receive, LinkLost, host
  <2>3. CASE Notified
    BY <2>3, NotifiedFacts DEF Notified
  <2>4. CASE UNCHANGED vars
    BY <2>4 DEF vars, host
  <2> QED BY <2>1, <2>2, <2>3, <2>4 DEF Next, Step
<1> QED BY <1>1, Zenon DEF HostLeft, ToSend, PagesLeft

(* upgrade_firmware.py takes at most HostLeft more steps, whatever the      *)
(* device answers, however often the connection or the power fails: a       *)
(* retry never starts the count again, nor does it scan again.  A round of  *)
(* the scan that does not see the device changes nothing and is not         *)
(* counted; there may be any number of them before the first transaction.   *)
(* This is what HostEnds rests on; that the script has a step to take,      *)
(* unless it scans, is left to the model checker.                           *)
THEOREM HostGetsOn ==
    Spec => [][IF HostStep THEN HostLeft' \in 0 .. HostLeft - 1
                           ELSE HostLeft' = HostLeft]_vars
<1>1. ASSUME IInv, IInv', [Next]_vars
      PROVE  [IF HostStep THEN HostLeft' \in 0 .. HostLeft - 1
                          ELSE HostLeft' = HostLeft]_vars
  <2>1. CASE UNCHANGED vars
    BY <2>1
  <2>2. CASE ~ UNCHANGED vars
    BY <1>1, <2>2, HostLess, HostSame
  <2> QED BY <2>1, <2>2
<1> QED BY <1>1, IInvCorrect, PTL DEF Spec
================================================================================
