------------------------- MODULE SerialUpgrade_proofs -------------------------
(***************************************************************************)
(* Proofs about SerialUpgrade, for every number of pages, size of the      *)
(* slot, number of runs of the script and of handshakes on the line: one   *)
(* inductive invariant, which says for each place the host can be in what  *)
(* is on the line, what main_task is doing and what the slot holds, and    *)
(* the safety properties it implies.                                       *)
(***************************************************************************)
EXTENDS SerialUpgradeProps, SequenceTheorems, TLAPS

-----------------------------------------------------------------------------
(***************************************************************************)
(* Sequences of one and two elements, and what the line carries.           *)
(***************************************************************************)

LEMMA Ones ==
    ASSUME NEW S, NEW a \in S
    PROVE  /\ <<a>> \in Seq(S) /\ <<a>> # <<>> /\ Len(<<a>>) = 1 /\ <<a>>[1] = a
           /\ Head(<<a>>) = a /\ Tail(<<a>>) = <<>>
           /\ Append(<<>>, a) = <<a>>
PROOF
<1>1. <<a>> \in Seq(S) /\ <<a>> # <<>> /\ Len(<<a>>) = 1 /\ <<a>>[1] = a
      /\ <<>> \in Seq(S) /\ Len(<<>>) = 0
    OBVIOUS
<1>2. Head(<<a>>) = a /\ Tail(<<a>>) = <<>>
    OBVIOUS
<1>3. <<>> \o <<a>> = <<a>>
    BY <1>1, ConcatEmptySeq
<1>4. Append(<<>>, a) = <<a>>
    BY <1>1, <1>3, AppendIsConcat
<1> QED BY <1>1, <1>2, <1>4

LEMMA AppendOne ==
    ASSUME NEW S, NEW t \in Seq(S), Len(t) = 1, NEW b \in S
    PROVE  Append(t, b) = <<t[1], b>>
PROOF
<1>1. Append(t, b) \in Seq(S) /\ Len(Append(t, b)) = Len(t) + 1
    BY AppendProperties, Zenon
<1>2. Append(t, b)[1] = t[1] /\ Append(t, b)[2] = b
    BY AppendProperties
<1>3. /\ <<t[1], b>> \in Seq(S) /\ Len(<<t[1], b>>) = 2
      /\ <<t[1], b>>[1] = t[1] /\ <<t[1], b>>[2] = b
    OBVIOUS
<1>4. Len(Append(t, b)) = 2
    BY <1>1
<1>5. \A i \in 1 .. Len(Append(t, b)) : Append(t, b)[i] = <<t[1], b>>[i]
    BY <1>2, <1>3, <1>4
<1> QED BY <1>1, <1>3, <1>4, <1>5, SeqEqual, Zenon

LEMMA TailOne ==
    ASSUME NEW S, NEW s \in Seq(S), Len(s) = 2
    PROVE  Tail(s) = <<s[2]>>
PROOF
<1>1. s # <<>>
    OBVIOUS
<1>2. Tail(s) \in Seq(S) /\ Len(Tail(s)) = Len(s) - 1
    BY <1>1, HeadTailProperties, Zenon
<1>3. Len(Tail(s)) = 1 /\ Tail(s)[1] = s[2]
    BY <1>1, HeadTailProperties
<1>4. <<s[2]>> \in Seq(S) /\ Len(<<s[2]>>) = 1 /\ <<s[2]>>[1] = s[2]
    OBVIOUS
<1>5. \A i \in 1 .. Len(Tail(s)) : Tail(s)[i] = <<s[2]>>[i]
  <2> DEFINE u == Tail(s)
             v == <<s[2]>>
  <2>1. Len(u) = 1 /\ u[1] = v[1]
    BY <1>3, <1>4
  <2> HIDE DEF u, v
  <2>2. \A i \in 1 .. Len(u) : u[i] = v[i]
    BY <2>1
  <2> QED BY <2>2 DEF u, v
<1>6. Len(Tail(s)) = Len(<<s[2]>>)
    BY <1>3, <1>4
<1> QED BY <1>2, <1>4, <1>5, <1>6, SeqEqual, Zenon

LEMMA Twos ==
    ASSUME NEW S, NEW a \in S, NEW b \in S
    PROVE  /\ <<a, b>> \in Seq(S) /\ <<a, b>> # <<>> /\ Len(<<a, b>>) = 2
           /\ <<a, b>>[1] = a /\ <<a, b>>[2] = b
           /\ Head(<<a, b>>) = a /\ Tail(<<a, b>>) = <<b>>
           /\ Append(<<a>>, b) = <<a, b>>
PROOF
<1>1. /\ <<a, b>> \in Seq(S) /\ Len(<<a, b>>) = 2
      /\ <<a, b>>[1] = a /\ <<a, b>>[2] = b
    OBVIOUS
<1>7. <<a, b>> # <<>>
    OBVIOUS
<1>6. Head(<<a, b>>) = a
    OBVIOUS
<1>2. <<a>> \in Seq(S) /\ Len(<<a>>) = 1 /\ <<a>>[1] = a
    OBVIOUS
<1>3. Tail(<<a, b>>) = <<<<a, b>>[2]>>
    BY <1>1, TailOne, Zenon
<1>4. Append(<<a>>, b) = <<<<a>>[1], b>>
    BY <1>2, AppendOne, Zenon
<1> QED BY <1>1, <1>2, <1>3, <1>4, <1>6, <1>7, Zenon

LEMMA Empties == /\ <<>> \in Seq(Chunks) /\ <<>> \in Seq({"ok", "nack"})
                 /\ <<>> \in Seq(Commands \cup {Train}) /\ Len(<<>>) = 0
    BY EmptySeq

LEMMA Answers == /\ <<"ok">> # <<>> /\ <<"nack">> # <<>> /\ <<"nack">> # <<"ok">>
                 /\ <<"ok">> \in Seq({"ok", "nack"}) /\ <<"nack">> \in Seq({"ok", "nack"})
                 /\ Append(<<>>, "ok") = <<"ok">> /\ Append(<<>>, "nack") = <<"nack">>
                 /\ Tail(<<"ok">>) = <<>> /\ Tail(<<"nack">>) = <<>>
                 /\ Head(<<"ok">>) = "ok" /\ Head(<<"nack">>) = "nack"
PROOF
<1>1. <<"ok">> # <<>> /\ <<"nack">> # <<>> /\ <<"nack">> # <<"ok">>
    OBVIOUS
<1> QED BY <1>1, Ones

LEMMA CommandFacts ==
    ASSUME NEW c \in Commands
    PROVE  /\ c = Cmd(c.cmd, c.arg)
           /\ c.cmd \in {"erase", "write", "reset"} /\ c.arg \in 0 .. Pages
           /\ c.cmd = "reset" => c.arg = 0
           /\ c.cmd = "write" => c.arg \in 1 .. Pages
    BY LoaderAssumption DEF Commands, Cmd

(* A frame that lost bytes.                                                *)
Cut(c) == Cmd("cut", FrameLength(c) - 1)

(* Lengths for which g_rx_buf has room.                                    *)
Room == 0 .. BFLB_EFLASH_LOADER_READBUF_SIZE

LEMMA RoomFacts == 0 \in Room /\ \A n \in Room : n \in Nat /\ 0 + n = n
    BY DEF Room, BFLB_EFLASH_LOADER_READBUF_SIZE

LEMMA CutLength ==
    ASSUME NEW c, FrameLength(c) \in 5 .. 4104
    PROVE  FrameLength(Cut(c)) \in Room
PROOF
<1> DEFINE m == FrameLength(c)
           d == Cmd("cut", m - 1)
<1>1. m \in 5 .. 4104
    OBVIOUS
<1>2. d.cmd = "cut" /\ d.arg = m - 1
    BY DEF Cmd
<1>3. Cut(c) = d
    BY DEF Cut
<1> HIDE DEF m, d
<1>4. FrameLength(d) = m - 1
    BY <1>2 DEF FrameLength
<1> QED BY <1>1, <1>3, <1>4 DEF Room, BFLB_EFLASH_LOADER_READBUF_SIZE

(* What arrives is a frame, a cut one or a handshake, and no two of them   *)
(* are alike.                                                              *)
LEMMA ChunkFacts ==
    /\ Train \in Chunks /\ Train \notin Commands /\ FrameLength(Train) \in Room
    /\ \A c \in Commands :
        /\ c \in Chunks /\ c # Train
        /\ Cut(c) \in Chunks /\ Cut(c) \notin Commands /\ Cut(c) # Train
        /\ FrameLength(c) \in Room /\ FrameLength(Cut(c)) \in Room
PROOF
<1>1. Train.cmd = "train" /\ \A c \in Commands : Cut(c).cmd = "cut"
    BY DEF Train, Cmd, Cut
<1>2. \A c \in Commands : FrameLength(c) \in 5 .. 4104
    BY CommandFacts DEF FrameLength
<1>3. \A c \in Commands : FrameLength(Cut(c)) \in Room
    BY <1>2, CutLength
<1>8. \A c \in Commands : FrameLength(c) \in Room
    BY CommandFacts DEF FrameLength, Room, BFLB_EFLASH_LOADER_READBUF_SIZE
<1>4. FrameLength(Train) \in Room
    BY <1>1 DEF FrameLength, Room, BFLB_EFLASH_LOADER_READBUF_SIZE
<1>5. \A c \in Commands : Cut(c) \in Chunks /\ c \in Chunks
    BY DEF Cut, Chunks
<1>6. Train \in Chunks
    BY DEF Chunks
<1>7. \A c \in Commands : c.cmd # "train" /\ c.cmd # "cut"
    BY CommandFacts
<1> QED BY <1>6, <1>7, <1>1, <1>3, <1>4, <1>5, <1>8

LEMMA LineForms ==
    ASSUME NEW c \in Commands
    PROVE  /\ <<c>> # <<>> /\ <<c>> # <<Train>> /\ <<Train>> # <<>>
           /\ <<Train, c>> # <<>> /\ <<Train, c>> # <<Train>>
           /\ \A d \in Commands : <<Train, c>> # <<d>> /\ (<<c>> = <<d>> => c = d)
           /\ Head(<<c>>) = c /\ Tail(<<c>>) = <<>>
           /\ Head(<<Train>>) = Train /\ Tail(<<Train>>) = <<>>
           /\ Head(<<Train, c>>) = Train /\ Tail(<<Train, c>>) = <<c>>
           /\ Append(<<>>, c) = <<c>> /\ Append(<<Train>>, c) = <<Train, c>>
           /\ <<c>>[1] = c /\ <<Train>>[1] = Train
PROOF
<1>1. c \in Chunks /\ Train \in Chunks /\ c # Train
    BY ChunkFacts
<1>2. \A d \in Commands : d \in Chunks
    BY ChunkFacts
<1>3. /\ <<c>>[1] = c /\ <<Train>>[1] = Train /\ <<c>> # <<>> /\ <<Train>> # <<>>
      /\ Len(<<Train>>) = 1 /\ Len(<<Train, c>>) = 2 /\ <<Train, c>> # <<>>
    BY <1>1, Ones, Twos
<1>4. \A d \in Commands : Len(<<d>>) = 1 /\ <<d>>[1] = d
    BY <1>2, Ones
<1>5. /\ Head(<<c>>) = c /\ Tail(<<c>>) = <<>>
      /\ Head(<<Train>>) = Train /\ Tail(<<Train>>) = <<>>
      /\ Append(<<>>, c) = <<c>>
    BY <1>1, Ones
<1>6. /\ Head(<<Train, c>>) = Train /\ Tail(<<Train, c>>) = <<c>>
      /\ Append(<<Train>>, c) = <<Train, c>>
    BY <1>1, Twos
<1>7. <<c>> # <<Train>> /\ <<Train, c>> # <<Train>>
    BY <1>1, <1>3
<1>8. \A d \in Commands : <<Train, c>> # <<d>> /\ (<<c>> = <<d>> => c = d)
    BY <1>3, <1>4
<1> QED BY <1>3, <1>5, <1>6, <1>7, <1>8

-----------------------------------------------------------------------------
(***************************************************************************)
(* The inductive invariant.                                                *)
(***************************************************************************)
(* main_task executes a command, or waits for a handshake.                 *)
Busy == pc \in {"erase", "write", "reset"}
Polls == pc \in {"window", "checked", "forever"}

(* The command the host waits to be acknowledged.                          *)
Asked ==
    CASE fw_data = 1         -> Cmd("erase", Pages)
      [] fw_data = Pages + 2 -> Cmd("reset", 0)
      [] OTHER               -> Cmd("write", fw_data - 1)

(* What is in the buffer is no frame and never becomes one; or a handshake *)
(* is about to get there.                                                  *)
Jam == rx # <<>> /\ rx[1] \notin Commands
FrontTrain ==
    /\ rx = <<>>
    /\ to_device = <<Train>> \/ \E c \in Commands : to_device = <<Train, c>>

(* The session can only time out.                                          *)
Stuck == pc = "read" /\ (Jam \/ FrontTrain)

(* No session, and none opens without another handshake.                   *)
Off ==
    /\ ~ int_rx /\ ~ shaking /\ fifo # "hs"
    /\ (to_device = <<>> \/ \E c \in Commands : to_device = <<c>>)

(* No command is on its way.                                               *)
Trained == to_device \in {<<>>, <<Train>>}

(* The session waits for a command; and none of its commands has failed.   *)
Waits == pc = "read" /\ rx = <<>> /\ to_device = <<>>
Lives == Waits /\ err_cnt = 0

(* The first n pages are in the slot, the rest of it is erased.            *)
Written(n) ==
    /\ \A p \in 1 .. n : slot[p - 1] = p
    /\ \A i \in n .. Pages - 1 : slot[i] = Blank

(* The device.                                                             *)
DeviceInv ==
    /\ Busy => held.cmd = pc /\ held_index # rx_index /\ to_cnt = 0
    /\ ~ Busy => held.cmd = "none"
    /\ ~ torn
    /\ pc = "read" => to_cnt <= 1
    /\ pc = "read" \/ Busy => int_rx /\ ~ shaking
    /\ shaking => Polls
    /\ pc = "app" => ~ int_rx
    /\ int_rx => fifo = ""
    /\ ~ int_rx => rx = <<>>

(* The line: at most a handshake with one command behind it, what the      *)
(* buffer holds is nothing, the command, or what jams it, and one answer   *)
(* at most.                                                                *)
LineInv ==
    /\ \/ Trained
       \/ \E c \in Commands : to_device = <<c>> \/ to_device = <<Train, c>>
    /\ rx = <<>> \/ Jam \/ (Complete /\ pc = "read" /\ to_device = <<>>)
    /\ Busy => Trained /\ ~ Complete
    /\ int_rx /\ rx = <<>> /\ (\E c \in Commands : to_device = <<c>>) => pc = "read"
    /\ to_host \in {<<>>, <<"ok">>, <<"nack">>}

(* A command that is or will be executed goes where it belongs.            *)
Due(c) ==
    \/ held = c
    \/ pc = "read" /\ rx = <<c>>
    \/ pc = "read" /\ rx = <<>> /\ to_device = <<c>>

DueInv == \A c \in Commands : Due(c) =>
    /\ err_cnt = 0
    /\ c.cmd = "erase" => iap_write_addr = 0
    /\ c.cmd = "write" => iap_write_addr = c.arg - 1

(* The host before its handshake, shaking hands, after it, and with a page *)
(* to send.                                                                *)
StartInv == hpc = "start" =>
    /\ to_device = <<>> /\ ~ Complete /\ pc # "reset" /\ fw_data = 1
    /\ to_host # <<>> => pc = "read" \/ shaking

ShakeInv == hpc = "handshake" =>
    /\ Trained /\ ~ Complete /\ pc # "reset" /\ fw_data = 1
    /\ Busy => to_host = <<>> /\ (Jam \/ to_device = <<Train>>)
    /\ to_host # <<>> => shaking \/ Stuck \/ (Off /\ to_device = <<>>)

SettleInv == hpc = "settle" =>
    /\ to_host = <<>> /\ fw_data = 1
    /\ \/ shaking /\ Trained
       \/ Lives /\ iap_write_addr = 0
       \/ Stuck /\ Trained
       \/ Off /\ to_device = <<>>

SendInv == hpc = "send" =>
    /\ to_host = <<>> /\ fw_data <= Pages + 1 /\ Written(fw_data - 1)
    /\ \/ Lives /\ iap_write_addr = fw_data - 1
       \/ Off /\ to_device = <<>>

(* The host waits: its command is on the line, in the buffer or being      *)
(* executed, ...                                                           *)
Asking ==
    /\ \/ pc = "read" /\ rx = <<>> /\ to_device = <<Asked>>
       \/ pc = "read" /\ rx = <<Asked>> /\ to_device = <<>>
       \/ Busy /\ held = Asked /\ rx = <<>> /\ to_device = <<>>
    /\ fw_data > 1 => Written(fw_data - 2)

(* ... or it was executed and the answer is on the line ...                *)
Acked ==
    /\ to_device = <<>>
    /\ Written(IF fw_data = Pages + 2 THEN Pages ELSE fw_data - 1)
    /\ \/ Off
       \/ Lives /\ iap_write_addr = fw_data - 1 /\ fw_data # Pages + 2

(* ... or nothing is coming.                                               *)
AnswerInv == hpc = "answer" =>
    /\ to_host = <<>> => Asking \/ Stuck \/ Off
    /\ to_host = <<"ok">> => Acked
    /\ to_host = <<"nack">> => to_device = <<>> /\ (Waits \/ Off)

(* The script has ended well.                                              *)
DoneInv == hpc = "done" => Written(Pages) /\ Off /\ to_device = <<>>

(* The first run meets no session that it did not open, so nothing piles   *)
(* up in the buffer.                                                       *)
FirstInv == runs = 1 =>
    /\ hpc = "start" => fifo = ""
    /\ hpc \in {"start", "handshake"} =>
        ~ int_rx /\ (shaking => hpc = "handshake" /\ to_host = <<"ok">>)
    /\ hpc = "settle" => (shaking /\ ~ int_rx) \/ Waits \/ Off
    /\ int_rx => to_device = <<>> \/ \E c \in Commands : to_device = <<c>>
    /\ int_rx /\ to_device # <<>> => rx = <<>>

RoomInv == runs = 1 => rx_len \in Room /\ (rx = <<>> => rx_len = 0)

(* In the first run, while nothing went wrong, the session is the host's.  *)
FaultInv == runs = 1 /\ ~ fault =>
    /\ hpc # "exited"
    /\ hpc = "start" => to_host = <<>>
    /\ hpc = "handshake" /\ to_host # <<>> => shaking
    /\ hpc = "settle" => shaking \/ Lives
    /\ hpc = "send" => Lives
    /\ hpc = "answer" /\ to_host = <<>> => Asking
    /\ hpc = "answer" /\ to_host # <<>> =>
        to_host = <<"ok">> /\ (fw_data = Pages + 2 \/ Lives)

IInv == /\ TypeOK /\ DeviceInv /\ LineInv /\ DueInv
        /\ StartInv /\ ShakeInv /\ SettleInv /\ SendInv /\ AnswerInv /\ DoneInv
        /\ FirstInv /\ RoomInv /\ FaultInv


-----------------------------------------------------------------------------
(***************************************************************************)
(* What it says of the line, of a session and of a command.                *)
(***************************************************************************)

LEMMA TrainForms ==
    /\ <<Train>> \in Seq(Commands \cup {Train}) /\ Len(<<Train>>) = 1 /\ <<Train>> # <<>>
    /\ \A c \in Commands : <<Train>> # <<c>> /\ <<Train>> # <<Train, c>> /\ <<c>> # <<>>
                           /\ <<Train, c>> # <<>>
    /\ <<>> \in Seq(Commands \cup {Train}) /\ Len(<<>>) = 0
    /\ Head(<<Train>>) = Train /\ Tail(<<Train>>) = <<>>
PROOF
<1>1. Train \in Commands \cup {Train}
    OBVIOUS
<1>2. \A c \in Commands : <<Train>> # <<c>> /\ <<Train>> # <<Train, c>> /\ <<c>> # <<>>
                           /\ <<Train, c>> # <<>>
    BY LineForms
<1> QED BY <1>1, <1>2, Ones, Empties

LEMMA Sending ==
    ASSUME NEW c \in Commands, to_device \in {<<>>, <<Train>>},
           to_device' = Append(to_device, c)
    PROVE  /\ to_device = <<>> => to_device' = <<c>>
           /\ to_device = <<Train>> => to_device' = <<Train, c>>
           /\ to_device' \in Seq(Commands \cup {Train}) /\ Len(to_device') <= 2
           /\ to_device' # <<>>
           /\ \A d \in Commands : to_device' = <<d>> => d = c /\ to_device = <<>>
PROOF
<1>1. CASE to_device = <<>>
  <2>1. to_device' = <<c>>
    BY <1>1, LineForms
  <2>2. c \in Commands \cup {Train}
    OBVIOUS
  <2>3. to_device' \in Seq(Commands \cup {Train}) /\ Len(to_device') = 1 /\ to_device' # <<>>
    BY <2>1, <2>2, Ones
  <2>4. \A d \in Commands : to_device' = <<d>> => d = c
    BY <2>1, LineForms
  <2> QED BY <1>1, <2>1, <2>3, <2>4, TrainForms
<1>2. CASE to_device = <<Train>>
  <2>1. to_device' = <<Train, c>>
    BY <1>2, LineForms
  <2>2. c \in Commands \cup {Train} /\ Train \in Commands \cup {Train}
    OBVIOUS
  <2>3. to_device' \in Seq(Commands \cup {Train}) /\ Len(to_device') = 2 /\ to_device' # <<>>
    BY <2>1, <2>2, Twos
  <2>4. \A d \in Commands : to_device' # <<d>>
    BY <2>1, LineForms
  <2>5. to_device # <<>> /\ Len(to_device') <= 2
    BY <1>2, <2>3, TrainForms
  <2> QED BY <1>2, <2>1, <2>3, <2>4, <2>5, Zenon
<1> QED BY <1>1, <1>2

LEMMA NotComplete ==
    /\ Jam => ~ Complete /\ rx # <<>>
    /\ rx = <<>> => ~ Complete
    /\ Complete => rx[1] \in Commands /\ rx = <<rx[1]>> /\ ~ Jam
PROOF
<1>1. \A c \in Commands : <<c>> # <<>> /\ <<c>>[1] = c
    BY LineForms
<1> QED BY <1>1 DEF Jam, Complete

LEMMA AskedForms ==
    ASSUME TypeOK
    PROVE  /\ Asked \in Commands
           /\ Asked = Cmd(Asked.cmd, Asked.arg)
           /\ Asked.cmd \in {"erase", "write", "reset"} /\ Asked.arg \in 0 .. Pages
           /\ fw_data = 1 => Asked.cmd = "erase"
           /\ fw_data \in 2 .. Pages + 1 => Asked.cmd = "write" /\ Asked.arg = fw_data - 1
           /\ fw_data = Pages + 2 => Asked.cmd = "reset"
PROOF
<1>1. fw_data \in 1 .. Pages + 2
    BY DEF TypeOK, HostType
<1>2. CASE fw_data = 1
  <2>1. Asked = Cmd("erase", Pages)
    BY <1>2, LoaderAssumption DEF Asked
  <2>2. Cmd("erase", Pages) \in Commands
    BY LoaderAssumption DEF Commands
  <2>3. Asked.cmd = "erase" /\ Asked.arg = Pages
    BY <2>1 DEF Cmd
  <2>4. Asked = Cmd(Asked.cmd, Asked.arg)
    BY <2>1, <2>3, Zenon
  <2> QED BY <1>2, <2>1, <2>2, <2>3, <2>4, LoaderAssumption
<1>3. CASE fw_data \in 2 .. Pages + 1
  <2>1. Asked = Cmd("write", fw_data - 1) /\ fw_data - 1 \in 1 .. Pages
    BY <1>3, LoaderAssumption DEF Asked
  <2>2. Cmd("write", fw_data - 1) \in Commands
    BY <2>1 DEF Commands
  <2>3. Asked.cmd = "write" /\ Asked.arg = fw_data - 1
    BY <2>1 DEF Cmd
  <2>4. Asked = Cmd(Asked.cmd, Asked.arg)
    BY <2>1, <2>3, Zenon
  <2> QED BY <1>3, <2>1, <2>2, <2>3, <2>4, LoaderAssumption
<1>4. CASE fw_data = Pages + 2
  <2>1. Asked = Cmd("reset", 0)
    BY <1>4, LoaderAssumption DEF Asked
  <2>2. Cmd("reset", 0) \in Commands
    BY DEF Commands
  <2>3. Asked.cmd = "reset" /\ Asked.arg = 0
    BY <2>1 DEF Cmd
  <2>4. Asked = Cmd(Asked.cmd, Asked.arg)
    BY <2>1, <2>3, Zenon
  <2> QED BY <1>4, <2>1, <2>2, <2>3, <2>4, LoaderAssumption
<1> QED BY <1>1, <1>2, <1>3, <1>4, LoaderAssumption

LEMMA AskedFacts ==
    ASSUME TypeOK
    PROVE  <<Asked>> # <<>> /\ (rx = <<Asked>> => Complete)
    BY AskedForms, LineForms DEF Complete

LEMMA NoneFacts == Cmd("none", 0).cmd = "none" /\ Cmd("none", 0) \notin Commands
PROOF
<1>1. Cmd("none", 0).cmd = "none"
    BY DEF Cmd
<1> QED BY <1>1, CommandFacts

(* Outside of a session whatever the host waits for is not coming.         *)
LEMMA Outside ==
    ASSUME IInv, ~ Busy, pc # "read", ~ shaking
    PROVE  /\ hpc = "start" => to_host = <<>>
           /\ hpc = "handshake" /\ to_host # <<>> => Off
           /\ hpc = "settle" => Off
           /\ hpc = "send" => Off
           /\ hpc = "done" => Off
           /\ hpc = "answer" => Off
           /\ runs = 1 /\ ~ fault =>
                /\ hpc \in {"start", "handshake", "answer", "done"}
                /\ hpc = "handshake" => to_host = <<>>
                /\ hpc = "answer" => to_host = <<"ok">> /\ fw_data = Pages + 2
PROOF
<1> USE DEF IInv
<1>1. ~ Lives /\ ~ Waits /\ ~ Stuck /\ ~ Asking
    BY DEF Lives, Waits, Stuck, Asking
<1>2. /\ hpc = "start" => to_host = <<>>
      /\ hpc = "handshake" /\ to_host # <<>> => Off
      /\ hpc = "settle" => Off
      /\ hpc = "send" => Off
      /\ hpc = "done" => Off
    BY <1>1 DEF StartInv, ShakeInv, SettleInv, SendInv, DoneInv
<1>3. hpc = "answer" => Off
    BY <1>1, Zenon DEF AnswerInv, Acked, LineInv
<1>4. runs = 1 /\ ~ fault =>
        /\ hpc \notin {"exited", "settle", "send"}
        /\ hpc = "handshake" => to_host = <<>>
        /\ hpc = "answer" => to_host = <<"ok">> /\ fw_data = Pages + 2
    BY <1>1 DEF FaultInv
<1> QED BY <1>2, <1>3, <1>4 DEF TypeOK, HostType, Ended

(* While a command is being executed nobody waits for another answer.      *)
LEMMA Executing ==
    ASSUME IInv, Busy
    PROVE  /\ held \in Commands /\ held.cmd = pc /\ err_cnt = 0 /\ int_rx /\ ~ shaking
           /\ held.cmd = "erase" => iap_write_addr = 0
           /\ held.cmd = "write" => iap_write_addr = held.arg - 1
           /\ Trained /\ (rx = <<>> \/ Jam) /\ ~ Complete
           /\ hpc \in {"start", "handshake", "answer", "exited"}
           /\ hpc # "exited" => to_host = <<>>
           /\ hpc = "answer" =>
                /\ held = Asked /\ rx = <<>> /\ to_device = <<>>
                /\ fw_data > 1 => Written(fw_data - 2)
           /\ hpc = "handshake" => Jam \/ to_device = <<Train>>
           /\ runs = 1 /\ ~ fault => hpc = "answer"
PROOF
<1> USE DEF IInv
<1>1. pc # "read" /\ int_rx /\ ~ shaking /\ held.cmd = pc
    BY DEF Busy, DeviceInv
<1>2. ~ Lives /\ ~ Waits /\ ~ Stuck /\ ~ Off
    BY <1>1 DEF Lives, Waits, Stuck, Off
<1>3. held \in Commands
    BY <1>1, NoneFacts DEF Busy, TypeOK, LineType
<1>4. /\ err_cnt = 0
      /\ held.cmd = "erase" => iap_write_addr = 0
      /\ held.cmd = "write" => iap_write_addr = held.arg - 1
    BY <1>3 DEF DueInv, Due
<1>5. Trained /\ ~ Complete /\ (rx = <<>> \/ Jam)
    BY <1>1 DEF LineInv
<1>6. hpc # "settle" /\ hpc # "send" /\ hpc # "done"
    BY <1>1, <1>2 DEF SettleInv, SendInv, DoneInv
<1>7. hpc = "answer" => to_host = <<>> /\ Asking
    BY <1>2, Zenon DEF AnswerInv, LineInv, Acked
<1>8. hpc \in {"start", "handshake"} => to_host = <<>>
    BY <1>1 DEF StartInv, ShakeInv
<1>9. hpc = "answer" =>
        /\ held = Asked /\ rx = <<>> /\ to_device = <<>>
        /\ fw_data > 1 => Written(fw_data - 2)
    BY <1>1, <1>7 DEF Asking
<1>10. hpc = "handshake" => Jam \/ to_device = <<Train>>
    BY DEF ShakeInv
<1>11. runs = 1 /\ ~ fault => hpc \notin {"start", "handshake", "exited"}
    BY <1>1 DEF FirstInv, FaultInv
<1>12. hpc \in {"start", "handshake", "answer", "exited"}
    BY <1>6 DEF TypeOK, HostType, Ended
<1> QED BY <1>1, <1>3, <1>4, <1>5, <1>7, <1>8, <1>9, <1>10, <1>11, <1>12

(* A frame that is complete is the command the host waits for, or one of a *)
(* run that has ended.                                                     *)
LEMMA Completed ==
    ASSUME IInv, pc = "read", Complete
    PROVE  /\ rx[1] \in Commands /\ rx = <<rx[1]>> /\ to_device = <<>>
           /\ rx[1].cmd \in {"erase", "write", "reset"}
           /\ err_cnt = 0 /\ int_rx /\ ~ shaking
           /\ rx[1].cmd = "erase" => iap_write_addr = 0
           /\ rx[1].cmd = "write" => iap_write_addr = rx[1].arg - 1
           /\ hpc \in {"answer", "exited"}
           /\ hpc = "answer" =>
                /\ rx[1] = Asked /\ to_host = <<>>
                /\ fw_data > 1 => Written(fw_data - 2)
           /\ runs = 1 /\ ~ fault => hpc = "answer"
PROOF
<1> USE DEF IInv
<1>1. rx[1] \in Commands /\ rx = <<rx[1]>> /\ ~ Jam /\ rx # <<>>
    BY NotComplete
<1>2. int_rx /\ ~ shaking
    BY DEF DeviceInv
<1>3. ~ Lives /\ ~ Waits /\ ~ Stuck /\ ~ Off
    BY <1>1, <1>2 DEF Lives, Waits, Stuck, Off, FrontTrain
<1>4. to_device = <<>>
    BY <1>1 DEF LineInv
<1>5. Due(rx[1])
    BY <1>1 DEF Due
<1>6. /\ err_cnt = 0
      /\ rx[1].cmd = "erase" => iap_write_addr = 0
      /\ rx[1].cmd = "write" => iap_write_addr = rx[1].arg - 1
    BY <1>1, <1>5 DEF DueInv
<1>7. hpc # "start" /\ hpc # "handshake" /\ hpc # "settle" /\ hpc # "send" /\ hpc # "done"
    BY <1>2, <1>3 DEF StartInv, ShakeInv, SettleInv, SendInv, DoneInv
<1>8. hpc = "answer" => to_host = <<>> /\ Asking
    BY <1>3, Zenon DEF AnswerInv, LineInv, Acked
<1>9. Asking => rx = <<Asked>> /\ (fw_data > 1 => Written(fw_data - 2))
    BY <1>1 DEF Asking, Busy
<1>10. rx = <<Asked>> => rx[1] = Asked
    BY AskedForms, LineForms
<1>11. hpc \in {"answer", "exited"}
    BY <1>7 DEF TypeOK, HostType, Ended
<1>12. runs = 1 /\ ~ fault => hpc # "exited"
    BY DEF FaultInv
<1>13. rx[1].cmd \in {"erase", "write", "reset"}
    BY <1>1, CommandFacts
<1> QED BY <1>1, <1>2, <1>4, <1>6, <1>8, <1>9, <1>10, <1>11, <1>12, <1>13

(* After a restart the line is as at the start.                            *)
LEMMA Restarted ==
    ASSUME IInv, RestartLine, pc' \in {"window", "app"},
           to_host' \in {<<>>, <<"ok">>, <<"nack">>}
    PROVE  /\ LineType' /\ DeviceInv' /\ LineInv' /\ DueInv' /\ RoomInv'
           /\ Off' /\ to_device' = <<>> /\ ~ Complete'
           /\ rx' = <<>> /\ ~ int_rx' /\ ~ shaking' /\ fifo' = ""
           /\ held' = Cmd("none", 0) /\ held' \notin Commands
PROOF
<1>1. /\ to_device' = <<>> /\ rx' = <<>> /\ rx_len' = 0 /\ held' = Cmd("none", 0)
      /\ fifo' = "" /\ rx_index' = 0 /\ held_index' = 0
      /\ int_rx' = FALSE /\ shaking' = FALSE /\ torn' = FALSE
    BY DEF RestartLine
<1>2. ~ int_rx' /\ ~ shaking' /\ ~ torn'
    BY <1>1
<1>3. held'.cmd = "none" /\ held' \notin Commands
    BY <1>1, NoneFacts
<1>4. ~ Complete'
    BY <1>1, LineForms DEF Complete
<1>5. to_host' \in Seq({"ok", "nack"})
    BY Answers, Empties
<1>6. LineType'
  <2>1. to_device' \in Seq(Commands \cup {Train}) /\ Len(to_device') = 0 /\ rx' \in Seq(Chunks)
    BY <1>1, Empties, Zenon
  <2>2. int_rx' \in BOOLEAN /\ shaking' \in BOOLEAN /\ torn' \in BOOLEAN
    BY <1>1, Zenon
  <2>3. Len(to_device') <= 2
    BY <2>1
  <2>4. rx_len' = 0 /\ rx_index' = 0 /\ held_index' = 0
    BY <1>1
  <2>5. rx_len' \in Nat /\ rx_index' \in 0 .. 1 /\ held_index' \in 0 .. 1
    BY <2>4
  <2>6. fifo' \in {"", "hs", "other"} /\ held' \in Commands \cup {Cmd("none", 0)}
    BY <1>1
  <2> QED BY <1>5, <2>1, <2>2, <2>3, <2>5, <2>6, Zenon DEF LineType
<1>7. DeviceInv'
    BY <1>1, <1>2, <1>3 DEF DeviceInv, Busy, Polls
<1>8. LineInv'
    BY <1>1, <1>2, <1>4 DEF LineInv, Trained, Busy
<1>9. DueInv'
    BY <1>1, <1>3 DEF DueInv, Due
<1>10. Off'
    BY <1>1, <1>2 DEF Off
<1>11. RoomInv'
  <2>1. rx_len' = 0
    BY <1>1
  <2> QED BY <2>1, RoomFacts DEF RoomInv
<1> QED BY <1>1, <1>2, <1>3, <1>4, <1>6, <1>7, <1>8, <1>9, <1>10, <1>11

LEMMA AckedFacts ==
    ASSUME Acked
    PROVE  /\ to_device = <<>>
           /\ fw_data = Pages + 2 => Written(Pages) /\ Off
           /\ fw_data # Pages + 2 => Written(fw_data - 1)
PROOF
<1>1. fw_data = Pages + 2 => (IF fw_data = Pages + 2 THEN Pages ELSE fw_data - 1) = Pages
    OBVIOUS
<1>2. fw_data # Pages + 2 =>
        (IF fw_data = Pages + 2 THEN Pages ELSE fw_data - 1) = fw_data - 1
    OBVIOUS
<1> QED BY <1>1, <1>2 DEF Acked

LEMMA RoomKept ==
    ASSUME RoomInv, rx' = rx, rx_len' = rx_len, runs' = runs
    PROVE  RoomInv'
    BY DEF RoomInv

LEMMA LineKept ==
    ASSUME LineInv, rx' = rx, to_device' = to_device, pc' = pc, int_rx' = int_rx,
           to_host' \in {<<>>, <<"ok">>, <<"nack">>}
    PROVE  LineInv'
    BY DEF LineInv, Trained, Jam, Complete, Busy

LEMMA FaultKept ==
    ASSUME runs' = 1 /\ ~ fault' =>
             /\ hpc' \in {"start", "handshake", "answer", "done"}
             /\ hpc' \in {"start", "handshake"} => to_host' = <<>>
             /\ hpc' = "answer" => to_host' = <<"ok">> /\ fw_data' = Pages + 2
    PROVE  FaultInv'
    BY Answers DEF FaultInv

LEMMA SlotTypes ==
    ASSUME slot \in [Sectors -> Content]
    PROVE  /\ \A k \in Int : ErasedBelow(slot, k) \in [Sectors -> Content]
           /\ \A u \in Content : \A i : Programmed(slot, i, u) \in [Sectors -> Content]
           /\ Mixed \in Content
PROOF
<1>1. Blank \in Content /\ Mixed \in Content
    BY LoaderAssumption DEF Content, Old, Blank, Mixed
<1>2. \A k \in Int : ErasedBelow(slot, k) \in [Sectors -> Content]
    BY <1>1 DEF ErasedBelow, Sectors
<1>3. \A u \in Content : \A i : Programmed(slot, i, u) \in [Sectors -> Content]
    BY <1>1 DEF Programmed
<1> QED BY <1>1, <1>2, <1>3

(* What an operation on the flash does, finished or not.                   *)
FlashTouched ==
    \/ slot' = slot
    \/ pc = "erase" /\ \E k \in 0 .. EraseLast(held.arg) : slot' = ErasedBelow(slot, k)
    \/ pc = "write" /\ \E u \in {PageHeld, Mixed} : slot' = Programmed(slot, iap_write_addr, u)

LEMMA Flashed ==
    ASSUME IInv, FlashTouched
    PROVE  slot' \in [Sectors -> Content] /\ (slot' # slot => pc \in {"erase", "write"})
PROOF
<1>1. slot \in [Sectors -> Content]
    BY DEF IInv, TypeOK, LoaderType
<1>2. pc \in {"erase", "write"} => held \in Commands /\ held.arg \in 0 .. Pages
    BY Executing, CommandFacts DEF Busy
<1>3. PageHeld = held.arg
    BY DEF IInv, DeviceInv, PageHeld
<1>4. 0 .. Pages \subseteq Content /\ Pages \in Nat
    BY LoaderAssumption DEF Content, Old
<1>5. CASE slot' = slot
    BY <1>1, <1>5
<1>6. ASSUME pc = "erase", NEW k \in 0 .. EraseLast(held.arg), slot' = ErasedBelow(slot, k)
      PROVE  slot' \in [Sectors -> Content]
    BY <1>1, <1>6, SlotTypes
<1>7. ASSUME pc = "write", NEW u \in {PageHeld, Mixed},
             slot' = Programmed(slot, iap_write_addr, u)
      PROVE  slot' \in [Sectors -> Content]
  <2>1. u \in Content
    BY <1>1, <1>2, <1>3, <1>4, <1>7, SlotTypes
  <2> QED BY <1>1, <1>7, <2>1, SlotTypes
<1> QED BY <1>5, <1>6, <1>7 DEF FlashTouched

(* The two outcomes of a command.                                          *)
Succeeds ==
    /\ err_cnt' = err_cnt /\ fault' = fault
    /\ hpc # "exited" => to_host' = <<"ok">>
    /\ \/ pc = "erase" /\ slot' = ErasedBelow(slot, held.arg + 1)
          /\ iap_write_addr' = iap_write_addr
       \/ pc = "write" /\ slot' = Programmed(slot, iap_write_addr, held.arg)
          /\ iap_write_addr' = iap_write_addr + 1

Fails ==
    /\ err_cnt' = 1 /\ fault' = TRUE /\ iap_write_addr' = iap_write_addr
    /\ hpc # "exited" => to_host' = <<"nack">>

LEMMA Executed ==
    ASSUME IInv, Execute
    PROVE  /\ pc \in {"erase", "write"} /\ Busy /\ pc' = "read"
           /\ UNCHANGED <<active_index, back, to_cnt>>
           /\ Succeeds \/ Fails
           /\ hpc = "exited" => to_host' = to_host
           /\ slot' \in [Sectors -> Content]
           /\ held' = Cmd("none", 0) /\ ~ torn'
           /\ UNCHANGED <<int_rx, fifo, shaking, rx, rx_len, rx_index, held_index, to_device>>
           /\ UNCHANGED <<hpc, fw_data, runs>>
PROOF
<1>1. pc \in {"erase", "write"}
    BY DEF Execute, EraseFlash, WriteFlash, EraseFlashFails, WriteFlashFails
<1>2. Busy
    BY <1>1 DEF Busy
<1>3. /\ err_cnt = 0 /\ held \in Commands /\ held.arg \in 0 .. Pages
      /\ hpc \in {"start", "handshake", "answer", "exited"}
      /\ hpc # "exited" => to_host = <<>>
    BY <1>2, Executing, CommandFacts
<1>4. PageHeld = held.arg
    BY DEF IInv, DeviceInv, PageHeld
<1>5. /\ held' = Cmd("none", 0) /\ torn' = FALSE
      /\ UNCHANGED <<int_rx, fifo, shaking, rx, rx_len, rx_index, held_index, to_device>>
      /\ UNCHANGED <<hpc, fw_data, runs>>
    BY Zenon DEF Execute, host
<1>6. ASSUME EraseFlash(held.arg) \/ WriteFlash(PageHeld), Answer("ok"), UNCHANGED fault
      PROVE  /\ Succeeds /\ pc' = "read" /\ UNCHANGED <<active_index, back, to_cnt>>
             /\ hpc = "exited" => to_host' = to_host
             /\ slot' \in [Sectors -> Content]
  <2>1. to_host' = IF hpc = "exited" THEN to_host ELSE <<"ok">>
    BY <1>3, <1>6, Answers DEF Answer, Ended
  <2>2. /\ \/ pc = "erase" /\ slot' = ErasedBelow(slot, held.arg + 1)
              /\ iap_write_addr' = iap_write_addr
           \/ pc = "write" /\ slot' = Programmed(slot, iap_write_addr, held.arg)
              /\ iap_write_addr' = iap_write_addr + 1
        /\ pc' = "read" /\ err_cnt' = err_cnt
        /\ UNCHANGED <<active_index, back, to_cnt>>
    BY <1>4, <1>6 DEF EraseFlash, WriteFlash, EraseLast
  <2>3. slot \in [Sectors -> Content] /\ held.arg + 1 \in Int /\ held.arg \in Content
    BY <1>3, LoaderAssumption DEF IInv, TypeOK, LoaderType, Content, Old
  <2>4. slot' \in [Sectors -> Content]
    BY <2>2, <2>3, SlotTypes
  <2> QED BY <1>6, <2>1, <2>2, <2>4 DEF Succeeds
<1>7. ASSUME EraseFlashFails(held.arg) \/ WriteFlashFails(PageHeld), Answer("nack"),
             fault' = TRUE
      PROVE  /\ Fails /\ pc' = "read" /\ UNCHANGED <<active_index, back, to_cnt>>
             /\ hpc = "exited" => to_host' = to_host
             /\ slot' \in [Sectors -> Content]
  <2>1. to_host' = IF hpc = "exited" THEN to_host ELSE <<"nack">>
    BY <1>3, <1>7, Answers DEF Answer, Ended
  <2>2. iap_write_addr' = iap_write_addr /\ CommandFails
    BY <1>7 DEF EraseFlashFails, WriteFlashFails
  <2>3. err_cnt' = 1 /\ pc' = "read" /\ UNCHANGED <<active_index, back, to_cnt>>
    BY <1>3, <2>2 DEF CommandFails
  <2>4. FlashTouched
    BY <1>7, Zenon DEF EraseFlashFails, WriteFlashFails, FlashTouched
  <2>5. slot' \in [Sectors -> Content]
    BY <2>4, Flashed
  <2> QED BY <1>7, <2>1, <2>2, <2>3, <2>5, Zenon DEF Fails
<1>8. ~ torn'
    BY <1>5
<1> QED BY <1>1, <1>2, <1>5, <1>6, <1>7, <1>8, Zenon DEF Execute

(* What is acknowledged is in the slot.                                    *)
LEMMA SucceededWrites ==
    ASSUME IInv, Busy, pc \in {"erase", "write"}, Succeeds, hpc = "answer", fw_data' = fw_data
    PROVE  fw_data \in 1 .. Pages + 1 /\ Written(fw_data - 1)' /\ iap_write_addr' = fw_data - 1
PROOF
<1> USE LoaderAssumption
<1>1. /\ held = Asked /\ held.cmd = pc
      /\ fw_data > 1 => Written(fw_data - 2)
      /\ held.cmd = "erase" => iap_write_addr = 0
      /\ held.cmd = "write" => iap_write_addr = held.arg - 1
    BY Executing
<1>2. slot \in [Sectors -> Content] /\ Sectors = 0 .. SlotSectors
    BY DEF IInv, TypeOK, LoaderType, Sectors
<1>3. fw_data \in 1 .. Pages + 2
    BY DEF IInv, TypeOK, HostType
<1>4. CASE fw_data = 1
  <2>1. pc = "erase" /\ held = Cmd("erase", Pages)
    BY <1>1, <1>4, AskedForms DEF IInv, Asked
  <2>2. held.arg = Pages
    BY <2>1 DEF Cmd
  <2>3. slot' = ErasedBelow(slot, Pages + 1) /\ iap_write_addr' = iap_write_addr
    BY <2>1, <2>2 DEF Succeeds
  <2>4. \A i \in 0 .. Pages - 1 : slot'[i] = Blank
    BY <1>2, <2>3 DEF ErasedBelow
  <2>5. fw_data' - 1 = 0
    BY <1>4
  <2> QED BY <1>1, <1>4, <2>1, <2>3, <2>4, <2>5 DEF Written
<1>5. CASE fw_data \in 2 .. Pages + 1
  <2>1. pc = "write" /\ held.arg = fw_data - 1
    BY <1>1, <1>5, AskedForms DEF IInv
  <2>2. iap_write_addr = fw_data - 2 /\ fw_data - 2 \in Sectors
    BY <1>1, <1>2, <1>5, <2>1
  <2>3. /\ \A p \in 1 .. fw_data - 2 : slot[p - 1] = p
        /\ \A i \in fw_data - 2 .. Pages - 1 : slot[i] = Blank
    BY <1>1, <1>5 DEF Written
  <2>4. slot[fw_data - 2] = Blank
    BY <1>5, <2>3
  <2>5. slot' = [slot EXCEPT ![fw_data - 2] = fw_data - 1]
    BY <1>2, <2>1, <2>2, <2>4 DEF Succeeds, Programmed
  <2>6. \A p \in 1 .. fw_data - 1 : slot'[p - 1] = p
    BY <1>2, <1>5, <2>2, <2>3, <2>5
  <2>7. \A i \in fw_data - 1 .. Pages - 1 : slot'[i] = Blank
    BY <1>2, <1>5, <2>2, <2>3, <2>5
  <2>8. iap_write_addr' = fw_data - 1
    BY <1>5, <2>1, <2>2 DEF Succeeds
  <2>9. fw_data' - 1 = fw_data - 1
    BY <1>5
  <2> QED BY <1>5, <2>6, <2>7, <2>8, <2>9 DEF Written
<1>6. fw_data # Pages + 2
    BY <1>1, AskedForms DEF IInv
<1> QED BY <1>3, <1>4, <1>5, <1>6

(* What was on the line, what of it arrives, and what remains.             *)
Arrives(c) == c = Head(to_device) \/ (Head(to_device) # Train /\ c = Cut(Head(to_device)))

LEMMA Arriving ==
    ASSUME IInv, to_device # <<>>, NEW c, Arrives(c), to_device' = Tail(to_device)
    PROVE  /\ to_device = <<Train>> => to_device' = <<>> /\ c = Train
           /\ \A d \in Commands :
                /\ to_device = <<d>> => to_device' = <<>> /\ c \in {d, Cut(d)}
                /\ to_device = <<Train, d>> => to_device' = <<d>> /\ c = Train
           /\ \/ to_device = <<Train>>
              \/ \E d \in Commands : to_device = <<d>> \/ to_device = <<Train, d>>
           /\ c \in Chunks /\ FrameLength(c) \in Room
           /\ \A d \in Commands : c = d => to_device = <<d>> /\ to_device' = <<>>
           /\ to_device' \in Seq(Commands \cup {Train}) /\ Len(to_device') <= 2
PROOF
<1>1. to_device = <<Train>> => to_device' = <<>> /\ c = Train
    BY TrainForms DEF Arrives
<1>2. ASSUME NEW d \in Commands
      PROVE  /\ to_device = <<d>> => to_device' = <<>> /\ c \in {d, Cut(d)}
             /\ to_device = <<Train, d>> => to_device' = <<d>> /\ c = Train
    BY LineForms DEF Arrives
<1>3. \/ to_device = <<Train>>
      \/ \E d \in Commands : to_device = <<d>> \/ to_device = <<Train, d>>
    BY DEF IInv, LineInv, Trained
<1>4. FrameLength(Train) \in Room
    BY ChunkFacts
<1>5. ASSUME NEW d \in Commands
      PROVE  FrameLength(d) \in Room /\ FrameLength(Cut(d)) \in Room
    BY ChunkFacts
<1>6. c \in Chunks /\ FrameLength(c) \in Room
  <2>1. c = Train \/ \E d \in Commands : c \in {d, Cut(d)}
    BY <1>1, <1>2, <1>3
  <2>2. Train \in Chunks /\ \A d \in Commands : d \in Chunks /\ Cut(d) \in Chunks
    BY ChunkFacts
  <2> QED BY <1>4, <1>5, <2>1, <2>2, Zenon
<1>7. \A d \in Commands : c = d => to_device = <<d>> /\ to_device' = <<>>
    BY <1>1, <1>2, <1>3, ChunkFacts
<1>8. to_device' = <<>> \/ \E d \in Commands : to_device' = <<d>>
    BY <1>1, <1>2, <1>3
<1>9. ASSUME NEW d \in Commands
      PROVE  <<d>> \in Seq(Commands \cup {Train}) /\ Len(<<d>>) = 1
  <2>1. d \in Commands \cup {Train}
    OBVIOUS
  <2> QED BY <2>1, Ones
<1>10. to_device' \in Seq(Commands \cup {Train}) /\ Len(to_device') <= 2
  <2>1. /\ to_device' \in Seq(Commands \cup {Train})
        /\ Len(to_device') = 0 \/ Len(to_device') = 1
    BY <1>8, <1>9, TrainForms, Zenon
  <2> QED BY <2>1
<1> QED BY <1>1, <1>2, <1>3, <1>6, <1>7, <1>10

(* With the interrupt it goes behind what is in the buffer.                *)
LEMMA Buffered ==
    ASSUME rx \in Seq(Chunks), rx_len \in Nat, NEW c \in Chunks, FrameLength(c) \in Room,
           Interrupt(c)
    PROVE  /\ rx' \in Seq(Chunks) /\ rx_len' \in Nat /\ rx' # <<>>
           /\ rx # <<>> => rx'[1] = rx[1]
           /\ rx = <<>> => rx' = <<c>> /\ rx_len' = rx_len + FrameLength(c)
PROOF
<1>1. CASE c = Train /\ Len(rx) >= MaxTrains
  <2>1. rx' = rx /\ rx_len' = rx_len
    BY <1>1 DEF Interrupt
  <2>2. rx # <<>>
    BY <1>1, SerialAssumption, Empties
  <2> QED BY <2>1, <2>2
<1>2. CASE ~ (c = Train /\ Len(rx) >= MaxTrains)
  <2>1. rx' = Append(rx, c) /\ rx_len' = rx_len + FrameLength(c)
    BY <1>2 DEF Interrupt
  <2>2. Append(rx, c) \in Seq(Chunks) /\ Append(rx, c) # <<>>
    <3>1. Append(rx, c) \in Seq(Chunks) /\ Append(rx, c) # <<>> /\ Len(rx) \in Nat
        BY AppendProperties
    <3> QED BY <3>1
  <2>3. rx # <<>> => Append(rx, c)[1] = rx[1]
    <3>1. rx # <<>> => Len(rx) >= 1
        BY EmptySeq
    <3> QED BY <3>1, AppendProperties
  <2>4. rx = <<>> => Append(rx, c) = <<c>>
    BY Ones
  <2>5. rx_len' \in Nat
    <3>1. FrameLength(c) \in Nat
        BY RoomFacts
    <3> QED BY <2>1, <3>1
  <2>6. rx = <<>> => rx' = <<c>>
    BY <2>1, <2>4, Zenon
  <2>7. rx' \in Seq(Chunks) /\ rx' # <<>> /\ (rx # <<>> => rx'[1] = rx[1])
    BY <2>1, <2>2, <2>3, Zenon
  <2> QED BY <2>1, <2>5, <2>6, <2>7, Zenon
<1> QED BY <1>1, <1>2

LEMMA Delivered ==
    ASSUME IInv, to_device # <<>>, ~ Complete, NEW c, Arrives(c), Deliver(c)
    PROVE  /\ UNCHANGED <<slot, active_index, pc, back, iap_write_addr, err_cnt, to_cnt>>
           /\ UNCHANGED <<int_rx, shaking, rx_index, held, held_index, to_host>>
           /\ UNCHANGED <<hpc, fw_data, runs>>
           /\ ~ torn' /\ (rx = <<>> \/ Jam)
           /\ rx' \in Seq(Chunks) /\ rx_len' \in Nat /\ fifo' \in {"", "hs", "other"}
           /\ int_rx =>
                /\ fifo' = fifo /\ rx' # <<>>
                /\ rx # <<>> => Jam'
                /\ rx = <<>> => rx' = <<c>> /\ rx_len' = rx_len + FrameLength(c)
                /\ c \notin Commands => Jam'
           /\ ~ int_rx =>
                /\ rx = <<>> /\ rx' = <<>> /\ rx_len' = rx_len
                /\ fifo # "hs" /\ c # Train => fifo' # "hs"
PROOF
<1> USE DEF IInv
<1>1. /\ UNCHANGED <<slot, active_index, pc, back, iap_write_addr, err_cnt, to_cnt>>
      /\ UNCHANGED <<int_rx, shaking, rx_index, held, held_index, to_host>>
      /\ UNCHANGED <<hpc, fw_data, runs>>
      /\ to_device' = Tail(to_device)
    BY DEF Deliver, loader, host
<1>2. c \in Chunks /\ FrameLength(c) \in Room
    BY <1>1, Arriving
<1>3. rx = <<>> \/ Jam
    BY DEF LineInv
<1>4. /\ rx \in Seq(Chunks) /\ rx_len \in Nat /\ fifo \in {"", "hs", "other"}
      /\ ~ torn /\ (int_rx => pc # "app") /\ (~ int_rx => rx = <<>>)
      /\ held.cmd # "none" => held_index # rx_index
    BY DEF TypeOK, LineType, DeviceInv
<1>5. CASE int_rx
  <2>1. Interrupt(c)
    BY <1>4, <1>5 DEF Deliver
  <2>2. /\ rx' \in Seq(Chunks) /\ rx_len' \in Nat /\ rx' # <<>>
        /\ rx # <<>> => rx'[1] = rx[1]
        /\ rx = <<>> => rx' = <<c>> /\ rx_len' = rx_len + FrameLength(c)
    BY <1>2, <1>4, <2>1, Buffered
  <2>3. fifo' = fifo /\ ~ torn'
    BY <1>4, <2>1, Zenon DEF Interrupt
  <2>4. rx # <<>> => Jam'
    BY <1>3, <2>2 DEF Jam
  <2>5. c \notin Commands => Jam'
    <3>1. <<c>>[1] = c
        OBVIOUS
    <3> QED BY <2>2, <2>4, <3>1 DEF Jam
  <2> QED BY <1>1, <1>3, <1>4, <1>5, <2>2, <2>3, <2>4, <2>5
<1>6. CASE ~ int_rx
  <2>1. \/ UNCHANGED <<rx, rx_len, torn, fifo>>
        \/ Enqueue(c)
    BY <1>6 DEF Deliver
  <2>2. UNCHANGED <<rx, rx_len, torn>>
    BY <2>1 DEF Enqueue
  <2>3. fifo' \in {"", "hs", "other"} /\ (fifo # "hs" /\ c # Train => fifo' # "hs")
    BY <1>4, <2>1 DEF Enqueue
  <2> QED BY <1>1, <1>3, <1>4, <1>6, <2>2, <2>3, Zenon
<1> QED BY <1>5, <1>6

LEMMA DeliverStep ==
    ASSUME IInv, to_device # <<>>, ~ Complete, NEW c, Arrives(c), Deliver(c),
           \/ fault' = TRUE
           \/ fault' = fault /\ c = Head(to_device)
    PROVE  IInv'
PROOF
<1> USE LoaderAssumption, SerialAssumption DEF IInv
<1>a. /\ UNCHANGED <<slot, active_index, pc, back, iap_write_addr, err_cnt, to_cnt>>
      /\ UNCHANGED <<int_rx, shaking, rx_index, held, held_index, to_host>>
      /\ UNCHANGED <<hpc, fw_data, runs>>
      /\ ~ torn' /\ (rx = <<>> \/ Jam)
      /\ rx' \in Seq(Chunks) /\ rx_len' \in Nat /\ fifo' \in {"", "hs", "other"}
      /\ int_rx =>
            /\ fifo' = fifo /\ rx' # <<>>
            /\ rx # <<>> => Jam'
            /\ rx = <<>> => rx' = <<c>> /\ rx_len' = rx_len + FrameLength(c)
            /\ c \notin Commands => Jam'
      /\ ~ int_rx =>
            /\ rx = <<>> /\ rx' = <<>> /\ rx_len' = rx_len
            /\ fifo # "hs" /\ c # Train => fifo' # "hs"
    BY Delivered
<1>b. /\ to_device = <<Train>> => to_device' = <<>> /\ c = Train
      /\ \A d \in Commands :
            /\ to_device = <<d>> => to_device' = <<>> /\ c \in {d, Cut(d)}
            /\ to_device = <<Train, d>> => to_device' = <<d>> /\ c = Train
      /\ \/ to_device = <<Train>>
         \/ \E d \in Commands : to_device = <<d>> \/ to_device = <<Train, d>>
      /\ c \in Chunks /\ FrameLength(c) \in Room
      /\ \A d \in Commands : c = d => to_device = <<d>> /\ to_device' = <<>>
      /\ to_device' \in Seq(Commands \cup {Train}) /\ Len(to_device') <= 2
    BY Arriving DEF Deliver
<1>c. Train \notin Commands
    BY ChunkFacts
<1>d. ~ Waits /\ ~ Lives /\ ~ (Off /\ to_device = <<>>) /\ ~ Acked
    BY DEF Waits, Lives, Acked
<1>e. Jam' => ~ Complete'
    BY LineForms DEF Jam, Complete
<1>f. Trained => /\ to_device' = <<>> /\ c = Train
                 /\ int_rx => Jam'
                 /\ ~ Complete'
  <2>1. Trained => to_device' = <<>> /\ c = Train /\ (int_rx => Jam')
    BY <1>a, <1>b, <1>c DEF Trained
  <2>2. ~ int_rx => ~ Complete'
    BY <1>a, LineForms DEF Complete
  <2> QED BY <1>e, <2>1, <2>2
<1>g. Stuck => Stuck'
  <2>1. Stuck => int_rx /\ (rx = <<>> => c = Train)
    BY <1>b DEF Stuck, FrontTrain, DeviceInv, Jam
  <2> QED BY <1>a, <1>c, <2>1 DEF Stuck
<1>h. Off => Off' /\ to_device' = <<>>
  <2>1. Off => /\ ~ int_rx /\ ~ shaking /\ fifo # "hs"
               /\ \E d \in Commands : to_device = <<d>>
    BY DEF Off
  <2>2. (\E d \in Commands : to_device = <<d>>) => to_device' = <<>> /\ c # Train
    BY <1>b, <1>c, ChunkFacts
  <2> QED BY <1>a, <2>1, <2>2 DEF Off
<1>i. Asking => /\ Asked \in Commands /\ pc' = "read" /\ to_device' = <<>>
                /\ c = Asked => rx' = <<Asked>>
                /\ c # Asked => Jam'
                /\ c = Head(to_device) => c = Asked
  <2> SUFFICES ASSUME Asking
               PROVE  /\ Asked \in Commands /\ pc' = "read" /\ to_device' = <<>>
                      /\ c = Asked => rx' = <<Asked>>
                      /\ c # Asked => Jam'
                      /\ c = Head(to_device) => c = Asked
    OBVIOUS
  <2>1. pc = "read" /\ rx = <<>> /\ to_device = <<Asked>> /\ Asked \in Commands
    BY AskedForms DEF Asking
  <2>2. int_rx /\ rx' = <<c>> /\ to_device' = <<>> /\ c \in {Asked, Cut(Asked)}
    BY <1>a, <1>b, <2>1 DEF DeviceInv
  <2>3. Cut(Asked) \notin Commands /\ Head(<<Asked>>) = Asked
    BY <2>1, ChunkFacts, LineForms
  <2>4. pc' = "read" /\ (c = Asked => rx' = <<Asked>>)
    BY <1>a, <2>1, <2>2
  <2>5. c # Asked => Jam'
    BY <1>a, <2>2, <2>3
  <2> QED BY <2>1, <2>2, <2>3, <2>4, <2>5
<1>j. Asked' = Asked /\ (Asking => (fw_data > 1 => Written(fw_data - 2)'))
    BY <1>a DEF Asked, Asking, Written
<1>k. Asking /\ c = Asked => Asking'
  <2>1. Asking /\ c = Asked => pc' = "read" /\ rx' = <<Asked'>> /\ to_device' = <<>>
    BY <1>i, <1>j
  <2>2. Asking => (fw_data' > 1 => Written(fw_data - 2)')
    BY <1>a, <1>j
  <2> QED BY <2>1, <2>2 DEF Asking
<1>1. LoaderType'
    BY <1>a DEF TypeOK, LoaderType
<1>2. LineType'
  <2>1. torn' \in BOOLEAN
    BY Zenon DEF Deliver, Interrupt, Enqueue, TypeOK, LineType
  <2> QED BY <1>a, <1>b, <2>1 DEF TypeOK, LineType
<1>3. HostType'
  <2>1. fault' \in BOOLEAN
    BY Zenon DEF TypeOK, HostType
  <2> QED BY <1>a, <2>1 DEF TypeOK, HostType
<1>4. DeviceInv'
    BY <1>a DEF DeviceInv, Busy, Polls
<1>5. LineInv'
  <2>1. Trained' \/ \E d \in Commands : to_device' = <<d>> \/ to_device' = <<Train, d>>
    BY <1>b DEF Trained
  <2>2. rx' = <<>> \/ Jam' \/ (Complete' /\ pc' = "read" /\ to_device' = <<>>)
    <3>1. CASE ~ int_rx
        BY <1>a, <3>1
    <3>2. CASE int_rx /\ (rx # <<>> \/ c \notin Commands)
        BY <1>a, <3>2
    <3>3. CASE int_rx /\ rx = <<>> /\ c \in Commands
      <4>1. rx' = <<c>> /\ to_device' = <<>> /\ to_device = <<c>>
        BY <1>a, <1>b, <3>3
      <4>2. pc = "read"
        BY <3>3, <4>1 DEF LineInv
      <4> QED BY <1>a, <3>3, <4>1, <4>2 DEF Complete
    <3> QED BY <3>1, <3>2, <3>3
  <2>3. Busy' => Trained' /\ ~ Complete'
    BY <1>a, <1>f DEF Busy, LineInv, Trained
  <2>4. int_rx' => rx' # <<>>
    BY <1>a
  <2>5. to_host' \in {<<>>, <<"ok">>, <<"nack">>}
    BY <1>a DEF LineInv
  <2> QED BY <2>1, <2>2, <2>3, <2>4, <2>5 DEF LineInv
<1>6. DueInv'
  <2> SUFFICES ASSUME NEW e \in Commands, Due(e)' PROVE Due(e)
    BY <1>a DEF DueInv
  <2>1. CASE held' = e
    BY <1>a, <2>1 DEF Due
  <2>2. CASE pc' = "read" /\ rx' = <<e>>
    <3>1. int_rx /\ pc = "read"
        BY <1>a, <2>2 DEF DeviceInv
    <3>2. ~ Jam'
        BY <2>2, LineForms DEF Jam
    <3>3. rx = <<>> /\ rx' = <<c>> /\ c \in Commands
        BY <1>a, <3>1, <3>2
    <3>4. c = e
        BY <2>2, <3>3, LineForms
    <3> QED BY <1>b, <3>1, <3>3, <3>4 DEF Due
  <2>3. CASE pc' = "read" /\ rx' = <<>>
    BY <1>a, <2>3 DEF DeviceInv
  <2> QED BY <2>1, <2>2, <2>3 DEF Due
<1>7. StartInv'
    BY <1>a DEF StartInv
<1>8. ShakeInv'
  <2> SUFFICES ASSUME hpc = "handshake" PROVE ShakeInv'
    BY <1>a DEF ShakeInv
  <2>1. Trained /\ pc # "reset" /\ fw_data = 1 /\ to_device' = <<>> /\ ~ Complete'
    BY <1>f DEF ShakeInv
  <2>2. Busy => to_host = <<>> /\ Jam'
    BY <1>f, <2>1 DEF ShakeInv, DeviceInv
  <2>3. to_host # <<>> => shaking \/ Stuck'
    BY <1>d, <1>g DEF ShakeInv
  <2> QED BY <1>a, <2>1, <2>2, <2>3 DEF ShakeInv, Trained, Busy
<1>9. SettleInv'
  <2> SUFFICES ASSUME hpc = "settle" PROVE SettleInv'
    BY <1>a DEF SettleInv
  <2>1. /\ to_host = <<>> /\ fw_data = 1
        /\ (shaking /\ Trained) \/ (Stuck' /\ Trained)
    BY <1>d, <1>g DEF SettleInv
  <2>2. Trained'
    BY <1>f, <2>1 DEF Trained
  <2> QED BY <1>a, <2>1, <2>2 DEF SettleInv
<1>10. SendInv'
    BY <1>a, <1>d DEF SendInv
<1>11. AnswerInv'
  <2> SUFFICES ASSUME hpc = "answer" PROVE AnswerInv'
    BY <1>a DEF AnswerInv
  <2>1. to_host = <<>>
    BY <1>d, Zenon DEF AnswerInv, LineInv
  <2>2. Asking \/ Stuck \/ Off
    BY <2>1 DEF AnswerInv
  <2>3. Asking' \/ Stuck' \/ Off'
    <3>1. CASE Asking
        BY <1>i, <1>k, <3>1 DEF Stuck
    <3> QED BY <1>g, <1>h, <2>2, <3>1
  <2>4. to_host' = <<>>
    BY <1>a, <2>1
  <2> QED BY <2>3, <2>4, Answers DEF AnswerInv
<1>12. DoneInv'
    BY <1>a, <1>d DEF DoneInv
<1>13. FirstInv'
  <2> SUFFICES ASSUME runs = 1 PROVE FirstInv'
    BY <1>a DEF FirstInv
  <2>1. int_rx => to_device' = <<>>
    BY <1>b DEF FirstInv
  <2>2. hpc = "settle" => (shaking /\ ~ int_rx) \/ Off'
    BY <1>d, <1>h DEF FirstInv
  <2>3. hpc # "start"
    BY DEF StartInv
  <2>4. hpc = "handshake" =>
        ~ int_rx /\ (shaking => to_host = <<"ok">>)
    BY DEF FirstInv
  <2> QED BY <1>a, <2>1, <2>2, <2>3, <2>4 DEF FirstInv
<1>14. RoomInv'
  <2> SUFFICES ASSUME runs = 1 PROVE RoomInv'
    BY <1>a DEF RoomInv
  <2>1. CASE int_rx
    <3>1. rx = <<>> /\ rx_len = 0
        BY <2>1 DEF FirstInv, RoomInv
    <3>2. rx_len' = 0 + FrameLength(c) /\ rx' # <<>>
        BY <1>a, <2>1, <3>1
    <3>3. rx_len' \in Room
        BY <1>b, <3>2, RoomFacts
    <3> QED BY <1>a, <3>2, <3>3 DEF RoomInv
  <2>2. CASE ~ int_rx
    <3>1. rx' = rx /\ rx_len' = rx_len /\ runs' = runs
        BY <1>a, <2>2
    <3> QED BY <3>1, RoomKept
  <2> QED BY <2>1, <2>2
<1>15. FaultInv'
  <2> SUFFICES ASSUME runs = 1, ~ fault' PROVE FaultInv'
    BY <1>a DEF FaultInv
  <2>1. ~ fault /\ c = Head(to_device)
    OBVIOUS
  <2>2. /\ hpc \notin {"exited", "start", "send"}
        /\ hpc = "handshake" /\ to_host # <<>> => shaking
        /\ hpc = "settle" => shaking
    BY <1>d, <2>1 DEF FaultInv, StartInv
  <2>3. hpc = "answer" => to_host = <<>> /\ Asking
    BY <1>d, <2>1, Zenon DEF FaultInv, AnswerInv, LineInv
  <2>4. hpc = "answer" => Asking'
    BY <1>i, <1>k, <2>1, <2>3
  <2> QED BY <1>a, <2>2, <2>3, <2>4 DEF FaultInv
<1> QED BY <1>1, <1>2, <1>3, <1>4, <1>5, <1>6, <1>7,
           <1>8, <1>9, <1>10, <1>11, <1>12, <1>13, <1>14, <1>15 DEF TypeOK

-----------------------------------------------------------------------------
(***************************************************************************)
(* Every action keeps it.                                                  *)
(***************************************************************************)

LEMMA SendTrainStep ==
    ASSUME IInv, SendTrain
    PROVE  IInv'
PROOF
<1> USE LoaderAssumption, SerialAssumption
    DEF IInv, loader, line, host, Ended, SendTrain, HostOnly
<1>1. LoaderType'
    BY Empties DEF TypeOK, LoaderType, DeviceInv, Busy, Polls
<1>2. LineType'
  <2>1. to_device' \in Seq(Commands \cup {Train}) /\ Len(to_device') = 1
    BY TrainForms, Zenon
  <2>2. UNCHANGED <<int_rx, fifo, shaking, rx, rx_len, rx_index, held, held_index,
                    torn, to_host>>
    OBVIOUS
  <2>3. Len(to_device') <= 2
    BY <2>1
  <2> QED BY <2>1, <2>2, <2>3, Zenon DEF TypeOK, LineType
<1>3. HostType'
    BY Empties DEF TypeOK, HostType
<1>4. DeviceInv'
    BY Empties DEF DeviceInv, LineInv, Busy, Polls, Cmd
<1>5. LineInv'
    BY TrainForms DEF LineInv, Trained, Jam, Complete, Busy, StartInv, ShakeInv
<1>6. DueInv'
    BY TrainForms DEF DueInv, Due
<1>7. StartInv'
    BY Empties DEF StartInv, Complete, Busy
<1>8. ShakeInv'
    BY NotComplete DEF StartInv, ShakeInv, LineInv, DeviceInv, Trained, Complete, Busy, Polls,
       Jam, Stuck, FrontTrain
<1>9. SettleInv'
    BY Empties DEF SettleInv, Trained, Lives, Waits, Jam, Stuck, FrontTrain, Off
<1>10. SendInv'
    BY Empties DEF SendInv, Written, Lives, Waits, Off
<1>11. AnswerInv'
    BY Empties DEF AnswerInv, Asking, Asked, Acked, Written, Busy, Lives, Waits, Jam,
        Stuck, FrontTrain, Off
<1>12. DoneInv'
    BY Empties DEF DoneInv, Written, Off
<1>13. FirstInv'
    BY Empties DEF FirstInv, Waits, Off
<1>14. RoomInv'
    BY Empties DEF RoomInv
<1>15. FaultInv'
    BY Empties DEF FaultInv, Asking, Asked, Lives, Waits
<1> QED BY <1>1, <1>2, <1>3, <1>4, <1>5, <1>6, <1>7,
           <1>8, <1>9, <1>10, <1>11, <1>12, <1>13, <1>14, <1>15 DEF TypeOK

LEMMA ReadShakeStep ==
    ASSUME IInv, ReadShake
    PROVE  IInv'
PROOF
<1> USE LoaderAssumption, SerialAssumption
    DEF IInv, loader, line, host, Ended, ReadShake, HostOnly
<1>a. to_host \in {<<"ok">>, <<"nack">>} /\ to_host' = <<>>
    BY Answers DEF LineInv
<1>1. LoaderType'
    BY Empties DEF TypeOK, LoaderType, DeviceInv, Busy, Polls
<1>2. LineType'
    BY <1>a, Empties DEF TypeOK, LineType
<1>3. HostType'
    BY Empties DEF TypeOK, HostType
<1>4. DeviceInv'
    BY Empties DEF DeviceInv, LineInv, Busy, Polls, Cmd
<1>5. LineInv'
    BY <1>a DEF LineInv, Trained, Jam, Complete, Busy
<1>6. DueInv'
    BY Empties DEF DueInv, Due
<1>7. StartInv'
    BY Empties DEF StartInv, Complete, Busy
<1>8. ShakeInv'
    BY Empties DEF ShakeInv, Trained, Complete, Busy, Jam, Stuck, FrontTrain, Off
<1>9. SettleInv'
    BY <1>a DEF ShakeInv, SettleInv, Trained, Jam, Stuck, FrontTrain, Off
<1>10. SendInv'
    BY Empties DEF SendInv, Written, Lives, Waits, Off
<1>11. AnswerInv'
    BY Empties DEF AnswerInv, Asking, Asked, Acked, Written, Busy, Lives, Waits, Jam,
        Stuck, FrontTrain, Off
<1>12. DoneInv'
    BY Empties DEF DoneInv, Written, Off
<1>13. FirstInv'
  <2>1. runs = 1 => ~ int_rx /\ (shaking => to_host = <<"ok">>)
    BY DEF FirstInv
  <2>2. hpc' = "settle" /\ runs = 1 => (shaking /\ ~ int_rx) \/ Off
    BY <1>a, <2>1 DEF ShakeInv, Stuck, DeviceInv
  <2>3. Off => Off'
    BY DEF Off
  <2>4. hpc' = "handshake" /\ runs = 1 => ~ shaking
    BY <2>1, Answers
  <2> QED BY <2>1, <2>2, <2>3, <2>4 DEF FirstInv
<1>14. RoomInv'
    BY Empties DEF RoomInv
<1>15. FaultInv'
    BY Empties DEF FaultInv, Asking, Asked, Lives, Waits
<1> QED BY <1>1, <1>2, <1>3, <1>4, <1>5, <1>6, <1>7,
           <1>8, <1>9, <1>10, <1>11, <1>12, <1>13, <1>14, <1>15 DEF TypeOK

LEMMA SendEraseStep ==
    ASSUME IInv, SendErase
    PROVE  IInv'
PROOF
<1> USE LoaderAssumption, SerialAssumption
    DEF IInv, loader, line, host, Ended, SendErase, SendCommand, HostOnly
<1> DEFINE c == Cmd("erase", Pages)
<1>a. c \in Commands /\ c.cmd = "erase" /\ c = Asked /\ fw_data = 1
    BY DEF Commands, Cmd, SettleInv, Asked
<1>b. /\ to_device \in {<<>>, <<Train>>} /\ to_host = <<>>
      /\ \/ Lives /\ iap_write_addr = 0
         \/ Stuck
         \/ Off /\ to_device = <<>>
    BY DEF SettleInv, Trained, Lives, Waits
<1>c. /\ to_device = <<>> => to_device' = <<c>>
      /\ to_device = <<Train>> => to_device' = <<Train, c>>
      /\ to_device' \in Seq(Commands \cup {Train}) /\ Len(to_device') <= 2
      /\ to_device' # <<>>
      /\ \A d \in Commands : to_device' = <<d>> => d = c /\ to_device = <<>>
    BY <1>a, <1>b, Sending
<1> HIDE DEF c
<1>1. LoaderType'
    BY Empties DEF TypeOK, LoaderType, DeviceInv, Busy, Polls
<1>2. LineType'
    BY <1>c DEF TypeOK, LineType
<1>3. HostType'
    BY Empties DEF TypeOK, HostType
<1>4. DeviceInv'
    BY Empties DEF DeviceInv, LineInv, Busy, Polls, Cmd
<1>5. LineInv'
  <2>1. ~ Busy /\ (rx = <<>> \/ Jam) /\ (int_rx => pc = "read")
    BY <1>b DEF Lives, Waits, Stuck, FrontTrain, Off, DeviceInv, Busy
  <2>2. ~ Busy' /\ (rx' = <<>> \/ Jam')
    BY <2>1 DEF Busy, Jam
  <2>3. \E d \in Commands : to_device' = <<d>> \/ to_device' = <<Train, d>>
    BY <1>a, <1>b, <1>c, Zenon
  <2>4. int_rx' => pc' = "read"
    BY <2>1
  <2>5. to_host' = <<>>
    BY <1>b
  <2> QED BY <2>2, <2>3, <2>4, <2>5 DEF LineInv
<1>6. DueInv'
    BY <1>a, <1>b, <1>c, TrainForms
    DEF DueInv, Due, Lives, Waits, Stuck, FrontTrain, Jam, Off, DeviceInv
<1>7. StartInv'
    BY Empties DEF StartInv, Complete, Busy
<1>8. ShakeInv'
    BY Empties DEF ShakeInv, Trained, Complete, Busy, Jam, Stuck, FrontTrain, Off
<1>9. SettleInv'
    BY Empties DEF SettleInv, Trained, Lives, Waits, Jam, Stuck, FrontTrain, Off
<1>10. SendInv'
    BY Empties DEF SendInv, Written, Lives, Waits, Off
<1>11. AnswerInv'
  <2>1. Asked' = c
    BY <1>a DEF Asked
  <2> QED BY <1>a, <1>b, <1>c, <2>1, TrainForms
    DEF AnswerInv, Asking, Lives, Waits, Stuck, FrontTrain, Jam, Off
<1>12. DoneInv'
    BY Empties DEF DoneInv, Written, Off
<1>13. FirstInv'
    BY <1>a, <1>b, <1>c, TrainForms
    DEF FirstInv, Lives, Waits, Stuck, FrontTrain, Jam, Off, DeviceInv
<1>14. RoomInv'
    BY Empties DEF RoomInv
<1>15. FaultInv'
  <2>1. Asked' = c
    BY <1>a DEF Asked
  <2> QED BY <1>a, <1>b, <1>c, <2>1 DEF FaultInv, Asking, Lives, Waits
<1> QED BY <1>1, <1>2, <1>3, <1>4, <1>5, <1>6, <1>7,
           <1>8, <1>9, <1>10, <1>11, <1>12, <1>13, <1>14, <1>15 DEF TypeOK

LEMMA SendPageStep ==
    ASSUME IInv, SendPage
    PROVE  IInv'
PROOF
<1> USE LoaderAssumption, SerialAssumption
    DEF IInv, loader, line, host, Ended, SendPage, SendCommand, HostOnly
<1> DEFINE c == Cmd("write", fw_data)
<1>a. /\ c \in Commands /\ c.cmd = "write" /\ c.arg = fw_data /\ c = Asked'
      /\ fw_data \in 1 .. Pages
    BY DEF Commands, Cmd, Asked, TypeOK, HostType
<1>b. /\ to_device = <<>> /\ to_host = <<>> /\ Written(fw_data - 1)
      /\ (Lives /\ iap_write_addr = fw_data - 1) \/ Off
    BY DEF SendInv, Lives, Waits
<1>c. /\ to_device' = <<c>>
      /\ to_device' \in Seq(Commands \cup {Train}) /\ Len(to_device') <= 2
      /\ to_device' # <<>>
      /\ \A d \in Commands : to_device' = <<d>> => d = c
    BY <1>a, <1>b, Sending
<1> HIDE DEF c
<1>1. LoaderType'
    BY Empties DEF TypeOK, LoaderType, DeviceInv, Busy, Polls
<1>2. LineType'
    BY <1>c DEF TypeOK, LineType
<1>3. HostType'
    BY Empties DEF TypeOK, HostType
<1>4. DeviceInv'
    BY Empties DEF DeviceInv, LineInv, Busy, Polls, Cmd
<1>5. LineInv'
    BY <1>a, <1>b, <1>c, NotComplete
    DEF LineInv, Trained, Jam, Complete, Busy, Lives, Waits, Off, DeviceInv
<1>6. DueInv'
    BY <1>a, <1>b, <1>c
    DEF DueInv, Due, Lives, Waits, Off, DeviceInv
<1>7. StartInv'
    BY Empties DEF StartInv, Complete, Busy
<1>8. ShakeInv'
    BY Empties DEF ShakeInv, Trained, Complete, Busy, Jam, Stuck, FrontTrain, Off
<1>9. SettleInv'
    BY Empties DEF SettleInv, Trained, Lives, Waits, Jam, Stuck, FrontTrain, Off
<1>10. SendInv'
    BY Empties DEF SendInv, Written, Lives, Waits, Off
<1>11. AnswerInv'
    BY <1>a, <1>b, <1>c
    DEF AnswerInv, Asking, Written, Lives, Waits, Off
<1>12. DoneInv'
    BY Empties DEF DoneInv, Written, Off
<1>13. FirstInv'
    BY <1>a, <1>b, <1>c
    DEF FirstInv, Lives, Waits, Off, DeviceInv
<1>14. RoomInv'
    BY Empties DEF RoomInv
<1>15. FaultInv'
    BY <1>a, <1>b, <1>c DEF FaultInv, Asking, Written, Lives, Waits
<1> QED BY <1>1, <1>2, <1>3, <1>4, <1>5, <1>6, <1>7,
           <1>8, <1>9, <1>10, <1>11, <1>12, <1>13, <1>14, <1>15 DEF TypeOK

LEMMA SendResetStep ==
    ASSUME IInv, SendReset
    PROVE  IInv'
PROOF
<1> USE LoaderAssumption, SerialAssumption
    DEF IInv, loader, line, host, Ended, SendReset, SendCommand, HostOnly
<1> DEFINE c == Cmd("reset", 0)
<1>a. /\ c \in Commands /\ c.cmd = "reset" /\ c = Asked'
      /\ fw_data = Pages + 1
    BY DEF Commands, Cmd, Asked, TypeOK, HostType
<1>b. /\ to_device = <<>> /\ to_host = <<>> /\ Written(fw_data - 1)
      /\ (Lives /\ iap_write_addr = fw_data - 1) \/ Off
    BY DEF SendInv, Lives, Waits
<1>c. /\ to_device' = <<c>>
      /\ to_device' \in Seq(Commands \cup {Train}) /\ Len(to_device') <= 2
      /\ to_device' # <<>>
      /\ \A d \in Commands : to_device' = <<d>> => d = c
    BY <1>a, <1>b, Sending
<1> HIDE DEF c
<1>1. LoaderType'
    BY Empties DEF TypeOK, LoaderType, DeviceInv, Busy, Polls
<1>2. LineType'
    BY <1>c DEF TypeOK, LineType
<1>3. HostType'
    BY Empties DEF TypeOK, HostType
<1>4. DeviceInv'
    BY Empties DEF DeviceInv, LineInv, Busy, Polls, Cmd
<1>5. LineInv'
    BY <1>a, <1>b, <1>c, NotComplete
    DEF LineInv, Trained, Jam, Complete, Busy, Lives, Waits, Off, DeviceInv
<1>6. DueInv'
    BY <1>a, <1>b, <1>c
    DEF DueInv, Due, Lives, Waits, Off, DeviceInv
<1>7. StartInv'
    BY Empties DEF StartInv, Complete, Busy
<1>8. ShakeInv'
    BY Empties DEF ShakeInv, Trained, Complete, Busy, Jam, Stuck, FrontTrain, Off
<1>9. SettleInv'
    BY Empties DEF SettleInv, Trained, Lives, Waits, Jam, Stuck, FrontTrain, Off
<1>10. SendInv'
    BY Empties DEF SendInv, Written, Lives, Waits, Off
<1>11. AnswerInv'
    BY <1>a, <1>b, <1>c
    DEF AnswerInv, Asking, Written, Lives, Waits, Off
<1>12. DoneInv'
    BY Empties DEF DoneInv, Written, Off
<1>13. FirstInv'
    BY <1>a, <1>b, <1>c
    DEF FirstInv, Lives, Waits, Off, DeviceInv
<1>14. RoomInv'
    BY Empties DEF RoomInv
<1>15. FaultInv'
    BY <1>a, <1>b, <1>c DEF FaultInv, Asking, Written, Lives, Waits
<1> QED BY <1>1, <1>2, <1>3, <1>4, <1>5, <1>6, <1>7,
           <1>8, <1>9, <1>10, <1>11, <1>12, <1>13, <1>14, <1>15 DEF TypeOK

LEMMA GetResponseStep ==
    ASSUME IInv, GetResponse
    PROVE  IInv'
PROOF
<1> USE LoaderAssumption, SerialAssumption DEF IInv
<1>a. /\ UNCHANGED <<slot, active_index, pc, back, iap_write_addr, err_cnt, to_cnt>>
      /\ UNCHANGED <<int_rx, fifo, shaking, rx, rx_len, rx_index, held, held_index, torn,
                     to_device, fw_data, runs, fault>>
      /\ hpc = "answer" /\ to_host \in {<<"ok">>, <<"nack">>} /\ to_host' = <<>>
      /\ hpc' \in {"send", "exited", "done"}
    BY Answers DEF LineInv, GetResponse, HostOnly, loader
<1>b. hpc' \in {"send", "done"} => to_host = <<"ok">>
    BY Answers DEF LineInv, GetResponse
<1>c. (hpc' = "done" => fw_data = Pages + 2) /\ (hpc' = "send" => fw_data # Pages + 2)
    BY DEF GetResponse
<1>d. hpc' \in {"send", "done"} => Acked
    BY <1>a, <1>b DEF AnswerInv
<1>1. LoaderType'
    BY <1>a, Empties DEF TypeOK, LoaderType, DeviceInv, Busy, Polls
<1>2. LineType'
    BY <1>a, Empties DEF TypeOK, LineType, DeviceInv, LineInv
<1>3. HostType'
    BY <1>a DEF TypeOK, HostType, Ended
<1>4. DeviceInv'
    BY <1>a, Empties DEF DeviceInv, LineInv, Busy, Polls, Cmd
<1>5. LineInv'
    BY <1>a, Empties DEF LineInv, Trained, Jam, Complete, Busy
<1>6. DueInv'
    BY <1>a, Empties DEF DueInv, Due
<1>7. StartInv'
    BY <1>a, Empties DEF StartInv, Complete, Busy
<1>8. ShakeInv'
    BY <1>a, Empties DEF ShakeInv, Trained, Complete, Busy, Jam, Stuck, FrontTrain, Off
<1>9. SettleInv'
    BY <1>a, Empties DEF SettleInv, Trained, Lives, Waits, Jam, Stuck, FrontTrain, Off
<1>10. SendInv'
  <2> SUFFICES ASSUME hpc' = "send" PROVE SendInv'
    BY DEF SendInv
  <2>1. Acked /\ fw_data # Pages + 2 /\ fw_data <= Pages + 1
    BY <1>c, <1>d DEF TypeOK, HostType
  <2>2. Written(fw_data - 1)
    BY <2>1, AckedFacts, Zenon
  <2>3. Written(fw_data - 1)'
    BY <1>a, <2>2 DEF Written
  <2> QED BY <1>a, <2>1, <2>3 DEF SendInv, Acked, Off, Lives, Waits
<1>11. AnswerInv'
    BY <1>a, Empties DEF AnswerInv, Asking, Asked, Acked, Written, Busy, Lives, Waits,
        Jam, Stuck, FrontTrain, Off
<1>12. DoneInv'
  <2> SUFFICES ASSUME hpc' = "done" PROVE DoneInv'
    BY DEF DoneInv
  <2>2. Written(Pages) /\ Off /\ to_device = <<>>
    BY <1>c, <1>d, AckedFacts, Zenon
  <2>3. Written(Pages)'
    BY <1>a, <2>2 DEF Written
  <2> QED BY <1>a, <2>2, <2>3 DEF DoneInv, Off
<1>13. FirstInv'
    BY <1>a, Empties DEF FirstInv, Waits, Off
<1>14. RoomInv'
    BY <1>a, Empties DEF RoomInv
<1>15. FaultInv'
  <2>1. hpc' = "exited" => to_host # <<"ok">>
    BY Answers DEF GetResponse
  <2>2. runs = 1 /\ ~ fault => to_host = <<"ok">> /\ (fw_data = Pages + 2 \/ Lives)
    BY <1>a, Answers DEF FaultInv
  <2>3. Lives => Lives'
    BY <1>a DEF Lives, Waits
  <2> QED BY <1>a, <1>c, <2>1, <2>2, <2>3 DEF FaultInv
<1> QED BY <1>1, <1>2, <1>3, <1>4, <1>5, <1>6, <1>7,
           <1>8, <1>9, <1>10, <1>11, <1>12, <1>13, <1>14, <1>15 DEF TypeOK

LEMMA ResponseTimesOutStep ==
    ASSUME IInv, ResponseTimesOut
    PROVE  IInv'
PROOF
<1> USE LoaderAssumption, SerialAssumption
    DEF IInv, loader, line, host, Ended, ResponseTimesOut, HostOnly
<1>1. LoaderType'
    BY Empties DEF TypeOK, LoaderType, DeviceInv, Busy, Polls
<1>2. LineType'
    BY Empties DEF TypeOK, LineType, DeviceInv, LineInv
<1>3. HostType'
    BY Empties DEF TypeOK, HostType
<1>4. DeviceInv'
    BY Empties DEF DeviceInv, LineInv, Busy, Polls, Cmd
<1>5. LineInv'
    BY Empties DEF LineInv, Trained, Jam, Complete, Busy
<1>6. DueInv'
    BY Empties DEF DueInv, Due
<1>7. StartInv'
    BY Empties DEF StartInv, Complete, Busy
<1>8. ShakeInv'
    BY Empties DEF ShakeInv, Trained, Complete, Busy, Jam, Stuck, FrontTrain, Off
<1>9. SettleInv'
    BY Empties DEF SettleInv, Trained, Lives, Waits, Jam, Stuck, FrontTrain, Off
<1>10. SendInv'
    BY Empties DEF SendInv, Written, Lives, Waits, Off
<1>11. AnswerInv'
    BY Empties DEF AnswerInv, Asking, Asked, Acked, Written, Busy, Lives, Waits, Jam,
        Stuck, FrontTrain, Off
<1>12. DoneInv'
    BY Empties DEF DoneInv, Written, Off
<1>13. FirstInv'
    BY Empties DEF FirstInv, Waits, Off
<1>14. RoomInv'
    BY Empties DEF RoomInv
<1>15. FaultInv'
    BY AskedForms, AskedFacts DEF FaultInv, Asking, Busy
<1> QED BY <1>1, <1>2, <1>3, <1>4, <1>5, <1>6, <1>7,
           <1>8, <1>9, <1>10, <1>11, <1>12, <1>13, <1>14, <1>15 DEF TypeOK

LEMMA KilledStep ==
    ASSUME IInv, Killed
    PROVE  IInv'
PROOF
<1> USE LoaderAssumption, SerialAssumption
    DEF IInv, loader, line, host, Ended, Killed, HostOnly
<1>1. LoaderType'
    BY Empties DEF TypeOK, LoaderType, DeviceInv, Busy, Polls
<1>2. LineType'
    BY Empties DEF TypeOK, LineType, DeviceInv, LineInv
<1>3. HostType'
    BY Empties DEF TypeOK, HostType
<1>4. DeviceInv'
    BY Empties DEF DeviceInv, LineInv, Busy, Polls, Cmd
<1>5. LineInv'
    BY Empties DEF LineInv, Trained, Jam, Complete, Busy
<1>6. DueInv'
    BY Empties DEF DueInv, Due
<1>7. StartInv'
    BY Empties DEF StartInv, Complete, Busy
<1>8. ShakeInv'
    BY Empties DEF ShakeInv, Trained, Complete, Busy, Jam, Stuck, FrontTrain, Off
<1>9. SettleInv'
    BY Empties DEF SettleInv, Trained, Lives, Waits, Jam, Stuck, FrontTrain, Off
<1>10. SendInv'
    BY Empties DEF SendInv, Written, Lives, Waits, Off
<1>11. AnswerInv'
    BY Empties DEF AnswerInv, Asking, Asked, Acked, Written, Busy, Lives, Waits, Jam,
        Stuck, FrontTrain, Off
<1>12. DoneInv'
    BY Empties DEF DoneInv, Written, Off
<1>13. FirstInv'
    BY Empties DEF FirstInv, Waits, Off
<1>14. RoomInv'
    BY Empties DEF RoomInv
<1>15. FaultInv'
    BY Empties DEF FaultInv, Asking, Asked, Lives, Waits
<1> QED BY <1>1, <1>2, <1>3, <1>4, <1>5, <1>6, <1>7,
           <1>8, <1>9, <1>10, <1>11, <1>12, <1>13, <1>14, <1>15 DEF TypeOK

LEMMA RunAgainStep ==
    ASSUME IInv, RunAgain
    PROVE  IInv'
PROOF
<1> USE LoaderAssumption, SerialAssumption
    DEF IInv, loader, line, host, Ended, RunAgain, HostOnly
<1>1. LoaderType'
    BY Empties DEF TypeOK, LoaderType, DeviceInv, Busy, Polls
<1>2. LineType'
    BY Empties DEF TypeOK, LineType, DeviceInv, LineInv
<1>3. HostType'
    BY Empties DEF TypeOK, HostType
<1>4. DeviceInv'
    BY Empties DEF DeviceInv, LineInv, Busy, Polls, Cmd
<1>5. LineInv'
    BY Empties DEF LineInv, Trained, Jam, Complete, Busy
<1>6. DueInv'
    BY Empties DEF DueInv, Due
<1>7. StartInv'
  <2>1. ~ Complete
    BY NotComplete DEF LineInv
  <2> QED BY <2>1 DEF StartInv, Complete
<1>8. ShakeInv'
    BY Empties DEF ShakeInv, Trained, Complete, Busy, Jam, Stuck, FrontTrain, Off
<1>9. SettleInv'
    BY Empties DEF SettleInv, Trained, Lives, Waits, Jam, Stuck, FrontTrain, Off
<1>10. SendInv'
    BY Empties DEF SendInv, Written, Lives, Waits, Off
<1>11. AnswerInv'
    BY Empties DEF AnswerInv, Asking, Asked, Acked, Written, Busy, Lives, Waits, Jam,
        Stuck, FrontTrain, Off
<1>12. DoneInv'
    BY Empties DEF DoneInv, Written, Off
<1>13. FirstInv'
  <2>1. runs' # 1
    BY DEF TypeOK, HostType
  <2> QED BY <2>1 DEF FirstInv
<1>14. RoomInv'
    BY DEF RoomInv, TypeOK, HostType
<1>15. FaultInv'
    BY Empties DEF FaultInv, Asking, Asked, Lives, Waits
<1> QED BY <1>1, <1>2, <1>3, <1>4, <1>5, <1>6, <1>7,
           <1>8, <1>9, <1>10, <1>11, <1>12, <1>13, <1>14, <1>15 DEF TypeOK

LEMMA HandshakeStep ==
    ASSUME IInv, Handshake
    PROVE  IInv'
PROOF
<1> USE LoaderAssumption, SerialAssumption DEF IInv
<1>z. pc \in {"window", "checked", "forever"} /\ ~ shaking /\ ~ Busy /\ pc # "read"
      /\ (int_rx \/ fifo = "hs")
    BY DEF Handshake, Polling, MaySee, Busy
<1>b. ~ Off
    BY <1>z DEF Off
<1>c. hpc \in {"start", "handshake", "exited"} /\ (hpc # "exited" => to_host = <<>>)
    BY <1>z, <1>b, Outside DEF TypeOK, HostType, Ended
<1>d. to_host' = IF hpc = "exited" THEN to_host ELSE <<"ok">>
    BY <1>c, Answers DEF Handshake, Answer, Ended
<1>a. /\ UNCHANGED <<slot, active_index, pc, back, iap_write_addr, err_cnt, to_cnt>>
      /\ UNCHANGED <<int_rx, rx, rx_len, rx_index, held, held_index, torn, to_device>>
      /\ UNCHANGED <<hpc, fw_data, runs, fault>>
      /\ fifo' = IF int_rx THEN fifo ELSE ""
    BY DEF Handshake, PollDrains, loader, host
<1>e. shaking' = TRUE
    BY DEF Handshake
<1>f. shaking'
    BY <1>e
<1>g. to_host' \in {<<>>, <<"ok">>, <<"nack">>} /\ to_host' \in Seq({"ok", "nack"})
    BY <1>d, Answers DEF LineInv, TypeOK, LineType
<1>1. LoaderType'
    BY <1>a, Empties DEF TypeOK, LoaderType, DeviceInv, Busy, Polls
<1>2. LineType'
  <2>1. shaking' \in BOOLEAN
    BY <1>e, Zenon
  <2>2. fifo' \in {"", "hs", "other"}
    BY <1>a DEF TypeOK, LineType
  <2> QED BY <2>1, <2>2, <1>a, <1>g DEF TypeOK, LineType
<1>3. HostType'
    BY <1>a, Empties DEF TypeOK, HostType
<1>4. DeviceInv'
    BY <1>a, <1>f, <1>z DEF DeviceInv, Busy, Polls
<1>5. LineInv'
    BY <1>a, <1>g, LineKept
<1>6. DueInv'
    BY <1>a, Empties DEF DueInv, Due
<1>7. StartInv'
    BY <1>a, <1>f, <1>z DEF StartInv, Complete
<1>8. ShakeInv'
    BY <1>a, <1>f, <1>z DEF ShakeInv, Trained, Complete, Busy
<1>9. SettleInv'
    BY <1>a, <1>c DEF SettleInv
<1>10. SendInv'
    BY <1>a, <1>c DEF SendInv
<1>11. AnswerInv'
    BY <1>a, <1>c DEF AnswerInv
<1>12. DoneInv'
    BY <1>a, <1>c DEF DoneInv
<1>13. FirstInv'
  <2>1. runs = 1 => hpc = "exited" \/ (~ int_rx /\ hpc = "handshake" /\ to_host' = <<"ok">>)
    BY <1>c, <1>d, <1>z DEF FirstInv
  <2>2. runs = 1 =>
            /\ int_rx => to_device = <<>> \/ \E c \in Commands : to_device = <<c>>
            /\ int_rx /\ to_device # <<>> => rx = <<>>
    BY DEF FirstInv
  <2> QED BY <1>a, <1>c, <2>1, <2>2 DEF FirstInv
<1>14. RoomInv'
    BY <1>a, RoomKept
<1>15. FaultInv'
  <2>1. runs = 1 /\ ~ fault => hpc = "handshake"
    BY <1>c, <1>z DEF FaultInv, FirstInv
  <2> QED BY <1>a, <1>f, <2>1 DEF FaultInv
<1> QED BY <1>1, <1>2, <1>3, <1>4, <1>5, <1>6, <1>7,
           <1>8, <1>9, <1>10, <1>11, <1>12, <1>13, <1>14, <1>15 DEF TypeOK

LEMMA NoHandshakeStep ==
    ASSUME IInv, NoHandshake
    PROVE  IInv'
PROOF
<1> USE LoaderAssumption, SerialAssumption DEF IInv
<1>z. pc \in {"window", "checked", "forever"} /\ ~ shaking /\ ~ Busy /\ pc # "read"
    BY DEF NoHandshake, Polling, Busy
<1>a. /\ UNCHANGED <<slot, active_index, back, iap_write_addr, err_cnt, to_cnt>>
      /\ UNCHANGED <<int_rx, shaking, rx, rx_len, rx_index, held, held_index, torn,
                     to_device, to_host>>
      /\ UNCHANGED <<hpc, fw_data, runs, fault>>
      /\ pc' \in {"window", "checked", "forever", "jump"}
      /\ fifo' = IF int_rx THEN fifo ELSE ""
    BY <1>z DEF NoHandshake, PollDrains, LastPoll, loader, host
<1>b. Off => Off'
    BY <1>a DEF Off
<1>c. /\ hpc = "start" => to_host = <<>>
      /\ hpc = "handshake" /\ to_host # <<>> => Off
      /\ hpc = "settle" => Off
      /\ hpc = "send" => Off
      /\ hpc = "done" => Off
      /\ hpc = "answer" => Off
    BY <1>z, Outside
<1>1. LoaderType'
    BY <1>a, Empties DEF TypeOK, LoaderType, DeviceInv, Busy, Polls
<1>2. LineType'
    BY <1>a, Empties DEF TypeOK, LineType, DeviceInv, LineInv
<1>3. HostType'
    BY <1>a, Empties DEF TypeOK, HostType
<1>4. DeviceInv'
    BY <1>a, <1>z DEF DeviceInv, Busy, Polls
<1>5. LineInv'
    BY <1>a, <1>z DEF LineInv, Trained, Jam, Complete, Busy
<1>6. DueInv'
    BY <1>a, Empties DEF DueInv, Due
<1>7. StartInv'
    BY <1>a, <1>c DEF StartInv, Complete
<1>8. ShakeInv'
    BY <1>a, <1>b, <1>c, <1>z DEF ShakeInv, Trained, Complete, Busy, Stuck
<1>9. SettleInv'
    BY <1>a, <1>b, <1>c, <1>z DEF SettleInv, Stuck, Lives, Waits
<1>10. SendInv'
    BY <1>a, <1>b, <1>c, <1>z DEF SendInv, Lives, Waits, Written
<1>11. AnswerInv'
  <2>1. Acked /\ Off => Acked'
    BY <1>a, <1>b DEF Acked, Written
  <2> QED BY <1>a, <1>b, <1>c, <2>1 DEF AnswerInv
<1>12. DoneInv'
    BY <1>a, <1>b DEF DoneInv, Written
<1>13. FirstInv'
    BY <1>a, <1>b, <1>c DEF FirstInv
<1>14. RoomInv'
    BY <1>a, RoomKept
<1>15. FaultInv'
  <2>1. runs = 1 /\ ~ fault =>
            /\ hpc \in {"start", "handshake", "answer", "done"}
            /\ hpc \in {"start", "handshake"} => to_host = <<>>
            /\ hpc = "answer" => to_host = <<"ok">> /\ fw_data = Pages + 2
    BY <1>z, Outside
  <2> QED BY <1>a, <2>1, FaultKept
<1> QED BY <1>1, <1>2, <1>3, <1>4, <1>5, <1>6, <1>7,
           <1>8, <1>9, <1>10, <1>11, <1>12, <1>13, <1>14, <1>15 DEF TypeOK

LEMMA EnableIntStep ==
    ASSUME IInv, EnableInt
    PROVE  IInv'
PROOF
<1> USE LoaderAssumption, SerialAssumption DEF IInv
<1>z. /\ shaking /\ to_device = <<>> /\ (hpc = "handshake" => to_host = <<>>)
      /\ pc \in {"window", "checked", "forever"} /\ held.cmd = "none" /\ ~ torn
    BY DEF EnableInt, DeviceInv, Polls, Busy
<1>a. /\ UNCHANGED <<slot, active_index>>
      /\ UNCHANGED <<held, held_index, to_device, to_host>>
      /\ UNCHANGED <<hpc, fw_data, runs>>
      /\ pc' = "read" /\ back' = pc
      /\ iap_write_addr' = 0 /\ err_cnt' = 0 /\ to_cnt' = 0
      /\ fifo' = "" /\ rx' = <<>> /\ rx_len' = 0 /\ rx_index' = 0
    BY DEF EnableInt, OpenSession, host
<1>n. to_cnt' = 0 /\ rx_len' = 0 /\ rx_index' = 0 /\ held_index' = held_index
    BY <1>a
<1>e. int_rx' = TRUE /\ shaking' = FALSE
    BY DEF EnableInt
<1>f. int_rx' /\ ~ shaking'
    BY <1>e
<1>j. torn' = torn /\ fault' = fault
    BY DEF EnableInt
<1>k. ~ torn'
    BY <1>j, <1>z
<1>g. Lives' /\ Waits'
    BY <1>a, <1>z DEF Lives, Waits
<1>h. ~ Complete'
    BY <1>a, LineForms DEF Complete
<1>i. hpc # "send" /\ hpc # "done" /\ (hpc = "answer" => FALSE)
  <2>1. ~ Lives /\ ~ Waits /\ ~ Off /\ ~ Stuck /\ ~ Asking
    BY <1>z DEF Lives, Waits, Off, Stuck, Asking, Busy
  <2> QED BY <2>1 DEF SendInv, DoneInv, AnswerInv, Acked, LineInv
<1>1. LoaderType'
  <2>1. back' \in {"window", "checked", "forever"}
    BY <1>a, <1>z
  <2>2. 0 \in 0 .. Pages /\ 0 \in 0 .. 1 /\ 0 \in 0 .. 2
    OBVIOUS
  <2> QED BY <1>a, <2>1, <2>2 DEF TypeOK, LoaderType
<1>2. LineType'
  <2>1. int_rx' \in BOOLEAN /\ shaking' \in BOOLEAN
    BY <1>e, Zenon
  <2>2. rx' \in Seq(Chunks) /\ fifo' = ""
    BY <1>a, Empties
  <2>5. rx_len' \in Nat /\ rx_index' \in 0 .. 1
    BY <1>n
  <2>3. torn' \in BOOLEAN
    BY <1>j, Zenon DEF TypeOK, LineType
  <2>4. /\ held' \in Commands \cup {Cmd("none", 0)} /\ held_index' \in 0 .. 1
        /\ to_device' \in Seq(Commands \cup {Train}) /\ Len(to_device') <= 2
        /\ to_host' \in Seq({"ok", "nack"})
    BY <1>a, Zenon DEF TypeOK, LineType
  <2> QED BY <2>1, <2>2, <2>3, <2>4, <2>5, Zenon DEF LineType
<1>3. HostType'
    BY <1>a, <1>j DEF TypeOK, HostType
<1>4. DeviceInv'
  <2>1. to_cnt' <= 1
    BY <1>n
  <2>2. ~ Busy' /\ pc' # "app"
    BY <1>a DEF Busy
  <2>3. held'.cmd = "none" /\ fifo' = ""
    BY <1>a, <1>z
  <2> QED BY <1>f, <1>k, <2>1, <2>2, <2>3 DEF DeviceInv
<1>5. LineInv'
    BY <1>a, <1>z, <1>h DEF LineInv, Trained, Busy
<1>6. DueInv'
  <2>1. held' \notin Commands
    BY <1>a, <1>z, CommandFacts
  <2> QED BY <1>a, <1>z, <2>1, TrainForms DEF DueInv, Due
<1>7. StartInv'
    BY <1>a, <1>h DEF StartInv
<1>8. ShakeInv'
    BY <1>a, <1>z, <1>h DEF ShakeInv, Trained, Busy
<1>9. SettleInv'
    BY <1>a, <1>g DEF SettleInv
<1>10. SendInv'
    BY <1>a, <1>i DEF SendInv
<1>11. AnswerInv'
    BY <1>a, <1>i DEF AnswerInv
<1>12. DoneInv'
    BY <1>a, <1>i DEF DoneInv
<1>13. FirstInv'
    BY <1>a, <1>g, <1>z, Answers DEF FirstInv
<1>14. RoomInv'
  <2>1. rx_len' = 0
    BY <1>a
  <2> QED BY <2>1, RoomFacts DEF RoomInv
<1>15. FaultInv'
  <2>1. runs = 1 => hpc # "start" /\ hpc # "handshake"
    BY <1>z, Answers DEF FirstInv
  <2> QED BY <1>a, <1>g, <1>i, <1>j, <2>1 DEF FaultInv
<1> QED BY <1>1, <1>2, <1>3, <1>4, <1>5, <1>6, <1>7,
           <1>8, <1>9, <1>10, <1>11, <1>12, <1>13, <1>14, <1>15 DEF TypeOK

LEMMA ReadStep ==
    ASSUME IInv, Read
    PROVE  IInv'
PROOF
<1> USE LoaderAssumption, SerialAssumption DEF IInv
<1> DEFINE c == rx[1]
<1>z. pc = "read" /\ Complete
    BY DEF Read
<1>b. /\ c \in Commands /\ rx = <<c>> /\ to_device = <<>>
      /\ c.cmd \in {"erase", "write", "reset"}
      /\ err_cnt = 0 /\ int_rx /\ ~ shaking
      /\ c.cmd = "erase" => iap_write_addr = 0
      /\ c.cmd = "write" => iap_write_addr = c.arg - 1
      /\ hpc \in {"answer", "exited"}
      /\ hpc = "answer" =>
            /\ c = Asked /\ to_host = <<>>
            /\ fw_data > 1 => Written(fw_data - 2)
      /\ runs = 1 /\ ~ fault => hpc = "answer"
    BY <1>z, Completed
<1> HIDE DEF c
<1>a. /\ UNCHANGED <<slot, active_index, back, iap_write_addr, err_cnt>>
      /\ UNCHANGED <<int_rx, fifo, shaking, to_device, to_host>>
      /\ UNCHANGED <<hpc, fw_data, runs, fault>>
      /\ pc' = c.cmd /\ to_cnt' = 0
      /\ held' = c /\ held_index' = rx_index /\ rx_index' = 1 - rx_index
      /\ rx' = <<>> /\ rx_len' = 0
    BY DEF Read, Dispatch, host, c
<1>n. held_index' = rx_index /\ rx_index' = 1 - rx_index /\ rx_len' = 0
    BY <1>a
<1>e. torn' = FALSE
    BY DEF Read
<1>f. Busy' /\ ~ torn' /\ pc' # "read"
    BY <1>a, <1>b, <1>e DEF Busy
<1>g. ~ Complete'
    BY <1>a, LineForms DEF Complete
<1>1. LoaderType'
    BY <1>a, <1>b DEF TypeOK, LoaderType
<1>2. LineType'
  <2>1. torn' \in BOOLEAN
    BY <1>e, Zenon
  <2>2. rx' \in Seq(Chunks)
    BY <1>a, Empties
  <2>3. rx_index' \in 0 .. 1 /\ held_index' \in 0 .. 1 /\ rx_len' \in Nat
  <3>1. rx_index \in 0 .. 1
    BY DEF TypeOK, LineType
  <3> QED BY <1>n, <3>1
  <2>4. held' \in Commands \cup {Cmd("none", 0)}
    BY <1>a, <1>b
  <2>5. /\ to_device' \in Seq(Commands \cup {Train}) /\ Len(to_device') <= 2
        /\ to_host' \in Seq({"ok", "nack"})
    BY <1>a DEF TypeOK, LineType
  <2>6. int_rx' \in BOOLEAN /\ fifo' \in {"", "hs", "other"} /\ shaking' \in BOOLEAN
    BY <1>a DEF TypeOK, LineType
  <2> QED BY <2>1, <2>2, <2>3, <2>4, <2>5, <2>6, Zenon DEF LineType
<1>3. HostType'
    BY <1>a, Empties DEF TypeOK, HostType
<1>4. DeviceInv'
  <2>1. held_index' # rx_index'
  <3>1. rx_index \in 0 .. 1 /\ held_index' = rx_index /\ rx_index' = 1 - rx_index
    BY <1>a DEF TypeOK, LineType
  <3> QED BY <3>1
  <2>2. held'.cmd = pc' /\ to_cnt' = 0 /\ pc' # "app"
    BY <1>a, <1>b
  <2>3. int_rx' /\ ~ shaking' /\ (int_rx' => fifo' = "")
    BY <1>a, <1>b DEF DeviceInv
  <2> QED BY <1>f, <2>1, <2>2, <2>3 DEF DeviceInv
<1>5. LineInv'
    BY <1>a, <1>b, <1>f, <1>g, LineForms DEF LineInv, Trained
<1>6. DueInv'
    BY <1>a, <1>b, <1>f DEF DueInv, Due
<1>7. StartInv'
    BY <1>a, <1>b DEF StartInv
<1>8. ShakeInv'
    BY <1>a, <1>b DEF ShakeInv
<1>9. SettleInv'
    BY <1>a, <1>b DEF SettleInv
<1>10. SendInv'
    BY <1>a, <1>b DEF SendInv
<1>11. AnswerInv'
  <2>1. hpc' = "answer" => Asking' /\ to_host' = <<>>
    BY <1>a, <1>b, <1>f DEF Asking, Asked, Written
  <2> QED BY <2>1, Answers DEF AnswerInv
<1>12. DoneInv'
    BY <1>a, <1>b DEF DoneInv
<1>13. FirstInv'
    BY <1>a, <1>b DEF FirstInv
<1>14. RoomInv'
  <2>1. rx_len' = 0
    BY <1>a
  <2> QED BY <2>1, RoomFacts DEF RoomInv
<1>15. FaultInv'
  <2>1. hpc' = "answer" => Asking' /\ to_host' = <<>>
    BY <1>a, <1>b, <1>f DEF Asking, Asked, Written
  <2> QED BY <1>a, <1>b, <2>1 DEF FaultInv
<1> QED BY <1>1, <1>2, <1>3, <1>4, <1>5, <1>6, <1>7,
           <1>8, <1>9, <1>10, <1>11, <1>12, <1>13, <1>14, <1>15 DEF TypeOK

LEMMA ReadTimesOutStep ==
    ASSUME IInv, ReadTimesOut
    PROVE  IInv'
PROOF
<1> USE LoaderAssumption, SerialAssumption DEF IInv
<1>z. /\ pc = "read" /\ ~ Complete /\ to_device = <<>> /\ to_host = <<>>
      /\ hpc \in {"done", "exited", "start", "handshake"}
      /\ int_rx /\ ~ shaking
    BY DEF ReadTimesOut, Ended, DeviceInv
<1>y. to_cnt \in 0 .. 1
  <2>1. to_cnt <= 1 /\ to_cnt \in 0 .. 2
    BY <1>z DEF DeviceInv, TypeOK, LoaderType
  <2> QED BY <2>1
<1>a. /\ UNCHANGED <<slot, active_index, back, iap_write_addr, err_cnt>>
      /\ UNCHANGED <<int_rx, fifo, shaking, rx, rx_len, rx_index, held, held_index, torn,
                     to_device, to_host>>
      /\ UNCHANGED <<hpc, fw_data, runs, fault>>
      /\ to_cnt' = to_cnt + 1
      /\ pc' = IF to_cnt + 1 >= 2 THEN AfterSession ELSE "read"
    BY DEF ReadTimesOut, NoMessage, line, host
<1>b. AfterSession \in {"window", "jump", "forever"} /\ ~ Busy /\ ~ Busy'
    BY <1>a, <1>z DEF AfterSession, TypeOK, LoaderType, Busy
<1>c. hpc \in {"exited", "start", "handshake"} /\ ~ Off
    BY <1>z DEF DoneInv, Off
<1>d. ~ Complete' /\ pc' \in {"window", "jump", "forever", "read"}
    BY <1>a, <1>b, <1>z DEF Complete
<1>1. LoaderType'
  <2>1. to_cnt' \in 0 .. 2
    BY <1>a, <1>y
  <2> QED BY <1>a, <1>d, <2>1 DEF TypeOK, LoaderType
<1>2. LineType'
    BY <1>a, Empties DEF TypeOK, LineType, DeviceInv, LineInv
<1>3. HostType'
    BY <1>a, Empties DEF TypeOK, HostType
<1>4. DeviceInv'
  <2>1. pc' = "read" => to_cnt' <= 1
    BY <1>a, <1>b, <1>y
  <2> QED BY <1>a, <1>b, <1>d, <1>z, <2>1 DEF DeviceInv
<1>5. LineInv'
  <2>1. rx = <<>> \/ Jam
    BY <1>z DEF LineInv
  <2> QED BY <1>a, <1>b, <1>z, <2>1, LineForms DEF LineInv, Trained, Jam
<1>6. DueInv'
    BY <1>a, <1>z DEF DueInv, Due
<1>7. StartInv'
    BY <1>a, <1>b, <1>d, <1>z DEF StartInv
<1>8. ShakeInv'
    BY <1>a, <1>b, <1>d, <1>z DEF ShakeInv, Trained
<1>9. SettleInv'
    BY <1>a, <1>c DEF SettleInv
<1>10. SendInv'
    BY <1>a, <1>c DEF SendInv
<1>11. AnswerInv'
    BY <1>a, <1>c DEF AnswerInv
<1>12. DoneInv'
    BY <1>a, <1>c DEF DoneInv
<1>13. FirstInv'
    BY <1>a, <1>c, <1>z DEF FirstInv
<1>14. RoomInv'
    BY <1>a, RoomKept
<1>15. FaultInv'
    BY <1>a, <1>c, <1>z DEF FaultInv
<1> QED BY <1>1, <1>2, <1>3, <1>4, <1>5, <1>6, <1>7,
           <1>8, <1>9, <1>10, <1>11, <1>12, <1>13, <1>14, <1>15 DEF TypeOK

LEMMA ExecuteStep ==
    ASSUME IInv, Execute
    PROVE  IInv'
PROOF
<1> USE LoaderAssumption, SerialAssumption DEF IInv
<1>a. /\ pc \in {"erase", "write"} /\ Busy /\ pc' = "read"
      /\ UNCHANGED <<active_index, back, to_cnt>>
      /\ Succeeds \/ Fails
      /\ hpc = "exited" => to_host' = to_host
      /\ slot' \in [Sectors -> Content]
      /\ held' = Cmd("none", 0) /\ ~ torn'
      /\ UNCHANGED <<int_rx, fifo, shaking, rx, rx_len, rx_index, held_index, to_device>>
      /\ UNCHANGED <<hpc, fw_data, runs>>
    BY Executed
<1>b. /\ held \in Commands /\ held.cmd = pc /\ err_cnt = 0 /\ int_rx /\ ~ shaking
      /\ held.cmd = "erase" => iap_write_addr = 0
      /\ held.cmd = "write" => iap_write_addr = held.arg - 1
      /\ Trained /\ (rx = <<>> \/ Jam) /\ ~ Complete
      /\ hpc \in {"start", "handshake", "answer", "exited"}
      /\ hpc # "exited" => to_host = <<>>
      /\ hpc = "answer" => rx = <<>> /\ to_device = <<>>
      /\ hpc = "handshake" => Jam \/ to_device = <<Train>>
      /\ runs = 1 /\ ~ fault => hpc = "answer"
    BY <1>a, Executing
<1>c. held'.cmd = "none" /\ held' \notin Commands /\ ~ Busy' /\ ~ Complete'
    BY <1>a, <1>b, NoneFacts DEF Busy, Complete
<1>d. hpc # "exited" => to_host' \in {<<"ok">>, <<"nack">>}
    BY <1>a DEF Succeeds, Fails
<1>e. Trained' /\ (Jam => Jam')
    BY <1>a, <1>b DEF Trained, Jam
<1>1. LoaderType'
  <2>1. held.arg \in 0 .. Pages /\ (held.cmd = "write" => held.arg \in 1 .. Pages)
    BY <1>b, CommandFacts
  <2>2. iap_write_addr' \in 0 .. Pages
    BY <1>a, <1>b, <2>1 DEF Succeeds, Fails, TypeOK, LoaderType
  <2>3. err_cnt' \in 0 .. 1
    BY <1>a, <1>b DEF Succeeds, Fails
  <2>4. /\ active_index' \in 0 .. 1 /\ back' \in {"window", "checked", "forever"}
        /\ to_cnt' \in 0 .. 2
    BY <1>a DEF TypeOK, LoaderType
  <2> QED BY <1>a, <2>2, <2>3, <2>4 DEF LoaderType
<1>2. LineType'
  <2>1. torn' \in BOOLEAN
    BY <1>a DEF Execute
  <2>2. to_host' \in Seq({"ok", "nack"})
    BY <1>a, <1>d, Answers DEF TypeOK, LineType
  <2> QED BY <1>a, <2>1, <2>2 DEF TypeOK, LineType
<1>3. HostType'
  <2>1. fault' \in BOOLEAN
    BY <1>a, Zenon DEF TypeOK, HostType, Succeeds, Fails
  <2> QED BY <1>a, <2>1 DEF TypeOK, HostType
<1>4. DeviceInv'
  <2>1. to_cnt' = 0
    BY <1>a DEF DeviceInv
  <2>2. to_cnt' <= 1
    BY <2>1
  <2>3. int_rx' /\ ~ shaking' /\ fifo' = "" /\ pc' # "app"
    BY <1>a, <1>b DEF DeviceInv
  <2> QED BY <1>a, <1>c, <2>2, <2>3, Zenon DEF DeviceInv
<1>5. LineInv'
  <2>1. to_host' \in {<<>>, <<"ok">>, <<"nack">>}
    BY <1>a, <1>d DEF LineInv
  <2>2. rx' = <<>> \/ Jam'
    BY <1>a, <1>b, <1>e
  <2> QED BY <1>a, <1>c, <1>e, <2>1, <2>2 DEF LineInv
<1>6. DueInv'
  <2>1. \A c \in Commands : <<c>> # <<>> /\ <<c>> # <<Train>>
    BY LineForms
  <2>2. \A c \in Commands : rx' # <<c>> /\ to_device' # <<c>>
    BY <1>c, <1>e, <2>1 DEF Complete, Trained
  <2> QED BY <1>c, <2>2 DEF DueInv, Due
<1>7. StartInv'
    BY <1>a, <1>c DEF StartInv
<1>8. ShakeInv'
  <2>1. hpc = "handshake" => Stuck'
    BY <1>a, <1>b, <1>e DEF Stuck, FrontTrain, Jam
  <2> QED BY <1>a, <1>c, <1>e, <2>1 DEF ShakeInv
<1>9. SettleInv'
    BY <1>a, <1>b DEF SettleInv
<1>10. SendInv'
    BY <1>a, <1>b DEF SendInv
<1>11. AnswerInv'
  <2> SUFFICES ASSUME hpc = "answer" PROVE AnswerInv'
    BY <1>a DEF AnswerInv
  <2>1. Waits' /\ to_device' = <<>>
    BY <1>a, <1>b DEF Waits
  <2>2. to_host' # <<>>
    BY <1>d, Answers
  <2>3. CASE Succeeds
    <3>1. /\ fw_data \in 1 .. Pages + 1 /\ Written(fw_data - 1)'
          /\ iap_write_addr' = fw_data - 1 /\ err_cnt' = 0
        BY <1>a, <1>b, <2>3, SucceededWrites DEF Succeeds
    <3>2. Acked'
      <4>1. fw_data' # Pages + 2 /\ fw_data' = fw_data
        BY <1>a, <3>1
      <4>2. Lives'
        BY <2>1, <3>1 DEF Lives
      <4>3. (IF fw_data' = Pages + 2 THEN Pages ELSE fw_data' - 1) = fw_data' - 1
        BY <4>1
      <4>4. Written(fw_data - 1)'
              = Written(IF fw_data = Pages + 2 THEN Pages ELSE fw_data - 1)'
        BY <4>3 DEF Written
      <4> QED BY <2>1, <3>1, <4>1, <4>2, <4>4 DEF Acked
    <3> QED BY <2>1, <2>2, <3>2 DEF AnswerInv
  <2>4. CASE Fails
    <3>1. to_host' = <<"nack">>
        BY <2>4 DEF Fails
    <3> QED BY <2>1, <2>2, <3>1, Answers DEF AnswerInv
  <2> QED BY <1>a, <2>3, <2>4
<1>12. DoneInv'
    BY <1>a, <1>b DEF DoneInv
<1>13. FirstInv'
    BY <1>a, <1>b DEF FirstInv
<1>14. RoomInv'
    BY <1>a, RoomKept
<1>15. FaultInv'
  <2> SUFFICES ASSUME runs' = 1, ~ fault' PROVE FaultInv'
    BY DEF FaultInv
  <2>1. Succeeds
    BY <1>a DEF Fails
  <2>2. hpc = "answer" /\ to_host' = <<"ok">> /\ err_cnt' = 0
    BY <1>a, <1>b, <2>1 DEF Succeeds
  <2>3. Lives'
    BY <1>a, <1>b, <2>2 DEF Lives, Waits
  <2> QED BY <1>a, <2>2, <2>3, Answers DEF FaultInv
<1> QED BY <1>1, <1>2, <1>3, <1>4, <1>5, <1>6, <1>7,
           <1>8, <1>9, <1>10, <1>11, <1>12, <1>13, <1>14, <1>15 DEF TypeOK

LEMMA SystemResetStep ==
    ASSUME IInv, SystemReset
    PROVE  IInv'
PROOF
<1> USE LoaderAssumption, SerialAssumption DEF IInv
<1>z. pc = "reset" /\ Busy
    BY DEF SystemReset, Reset, Busy
<1>b. /\ held \in Commands /\ held.cmd = pc
      /\ hpc \in {"start", "handshake", "answer", "exited"}
      /\ hpc # "exited" => to_host = <<>>
      /\ hpc = "answer" => held = Asked /\ (fw_data > 1 => Written(fw_data - 2))
      /\ runs = 1 /\ ~ fault => hpc = "answer"
    BY <1>z, Executing
<1>c. hpc \in {"answer", "exited"}
    BY <1>b, <1>z DEF StartInv, ShakeInv
<1>a. /\ UNCHANGED slot /\ UNCHANGED <<hpc, fw_data, runs, fault>>
      /\ pc' = "window" /\ back' = "window"
      /\ iap_write_addr' = 0 /\ err_cnt' = 0 /\ to_cnt' = 0
      /\ active_index' \in {active_index, 1 - active_index}
      /\ to_host' = IF hpc = "answer" THEN <<"ok">> ELSE to_host
    BY <1>b, <1>c, Answers DEF SystemReset, Reset, Restart, Answer, Ended, host
<1>d. RestartLine /\ to_host' \in {<<>>, <<"ok">>, <<"nack">>}
    BY <1>a DEF SystemReset, LineInv
<1>e. /\ LineType' /\ DeviceInv' /\ LineInv' /\ DueInv' /\ RoomInv'
      /\ Off' /\ to_device' = <<>> /\ ~ Complete'
    BY <1>a, <1>d, Restarted
<1>f. hpc = "answer" => fw_data = Pages + 2 /\ Written(Pages)
  <2> SUFFICES ASSUME hpc = "answer" PROVE fw_data = Pages + 2 /\ Written(Pages)
    OBVIOUS
  <2>1. Asked.cmd = "reset"
    BY <1>b, <1>z
  <2>2. fw_data = Pages + 2
    BY <2>1, AskedForms DEF TypeOK, HostType
  <2>3. fw_data - 2 = Pages /\ fw_data > 1
    BY <2>2
  <2> QED BY <1>b, <2>2, <2>3
<1>1. LoaderType'
    BY <1>a DEF TypeOK, LoaderType
<1>2. LineType'
    BY <1>e
<1>3. HostType'
    BY <1>a, Empties DEF TypeOK, HostType
<1>4. DeviceInv'
    BY <1>e
<1>5. LineInv'
    BY <1>e
<1>6. DueInv'
    BY <1>e
<1>7. StartInv'
    BY <1>a, <1>c DEF StartInv
<1>8. ShakeInv'
    BY <1>a, <1>c DEF ShakeInv
<1>9. SettleInv'
    BY <1>a, <1>c DEF SettleInv
<1>10. SendInv'
    BY <1>a, <1>c DEF SendInv
<1>11. AnswerInv'
  <2>1. hpc' = "answer" => fw_data' = Pages + 2 /\ Written(Pages)' /\ to_host' = <<"ok">>
    BY <1>a, <1>f DEF Written
  <2>2. hpc' = "answer" => Acked'
    BY <1>e, <2>1 DEF Acked
  <2> QED BY <2>1, <2>2, Answers DEF AnswerInv
<1>12. DoneInv'
    BY <1>a, <1>c DEF DoneInv
<1>13. FirstInv'
  <2>1. ~ int_rx'
    BY <1>e DEF Off
  <2> QED BY <1>a, <1>c, <2>1 DEF FirstInv
<1>14. RoomInv'
    BY <1>e
<1>15. FaultInv'
    BY <1>a, <1>b, <1>f, Answers DEF FaultInv
<1> QED BY <1>1, <1>2, <1>3, <1>4, <1>5, <1>6, <1>7,
           <1>8, <1>9, <1>10, <1>11, <1>12, <1>13, <1>14, <1>15 DEF TypeOK

LEMMA CloseWindowStep ==
    ASSUME IInv, CloseWindow
    PROVE  IInv'
PROOF
<1> USE LoaderAssumption, SerialAssumption
    DEF IInv, loader, line, host, Ended, CloseWindow, CheckImage
<1>1. LoaderType'
    BY Empties DEF TypeOK, LoaderType, DeviceInv, Busy, Polls
<1>2. LineType'
    BY Empties DEF TypeOK, LineType, DeviceInv, LineInv
<1>3. HostType'
    BY Empties DEF TypeOK, HostType
<1>4. DeviceInv'
    BY Empties DEF DeviceInv, LineInv, Busy, Polls, Cmd
<1>5. LineInv'
    BY Empties DEF LineInv, Trained, Jam, Complete, Busy
<1>6. DueInv'
    BY Empties DEF DueInv, Due
<1>7. StartInv'
    BY Empties DEF StartInv, Complete, Busy
<1>8. ShakeInv'
    BY Empties DEF ShakeInv, Trained, Complete, Busy, Jam, Stuck, FrontTrain, Off
<1>9. SettleInv'
    BY Empties DEF SettleInv, Trained, Lives, Waits, Jam, Stuck, FrontTrain, Off
<1>10. SendInv'
    BY Empties DEF SendInv, Written, Lives, Waits, Off
<1>11. AnswerInv'
    BY Empties DEF AnswerInv, Asking, Asked, Acked, Written, Busy, Lives, Waits, Jam,
        Stuck, FrontTrain, Off
<1>12. DoneInv'
    BY Empties DEF DoneInv, Written, Off
<1>13. FirstInv'
    BY Empties DEF FirstInv, Waits, Off
<1>14. RoomInv'
    BY Empties DEF RoomInv
<1>15. FaultInv'
  <2>1. runs = 1 /\ ~ fault =>
            /\ hpc \in {"start", "handshake", "answer", "done"}
            /\ hpc \in {"start", "handshake"} => to_host = <<>>
            /\ hpc = "answer" => to_host = <<"ok">> /\ fw_data = Pages + 2
    BY Outside DEF Busy
  <2> QED BY <2>1, FaultKept
<1> QED BY <1>1, <1>2, <1>3, <1>4, <1>5, <1>6, <1>7,
           <1>8, <1>9, <1>10, <1>11, <1>12, <1>13, <1>14, <1>15 DEF TypeOK

LEMMA PreJumpStep ==
    ASSUME IInv, PreJump
    PROVE  IInv'
PROOF
<1> USE LoaderAssumption, SerialAssumption
    DEF IInv, loader, line, host, Ended, PreJump, Jump, RestartLine
<1>a. ~ shaking /\ ~ Busy /\ pc # "read"
    BY DEF Busy, DeviceInv, Polls
<1>b. pc' = "app" /\ to_host' \in {<<>>, <<"ok">>, <<"nack">>} /\ to_host' = to_host
    BY DEF LineInv
<1>c. /\ LineType' /\ DeviceInv' /\ LineInv' /\ DueInv' /\ RoomInv'
      /\ Off' /\ to_device' = <<>> /\ ~ Complete'
      /\ rx' = <<>> /\ ~ int_rx' /\ ~ shaking' /\ fifo' = ""
    BY <1>b, Restarted
<1>1. LoaderType'
    BY Empties DEF TypeOK, LoaderType, DeviceInv, Busy, Polls
<1>2. LineType'
    BY <1>c
<1>3. HostType'
    BY Empties DEF TypeOK, HostType
<1>4. DeviceInv'
    BY <1>c
<1>5. LineInv'
    BY <1>c
<1>6. DueInv'
    BY <1>c
<1>7. StartInv'
  <2>1. hpc = "start" => to_host = <<>>
    BY <1>a, Outside
  <2> QED BY <1>b, <1>c, <2>1 DEF StartInv
<1>8. ShakeInv'
    BY Empties DEF ShakeInv, Trained, Complete, Busy, Jam, Stuck, FrontTrain, Off
<1>9. SettleInv'
    BY Empties DEF SettleInv, Trained, Lives, Waits, Jam, Stuck, FrontTrain, Off
<1>10. SendInv'
    BY Empties DEF SendInv, Written, Lives, Waits, Off
<1>11. AnswerInv'
  <2>1. hpc = "answer" /\ to_host = <<"ok">> => Acked
    BY DEF AnswerInv
  <2>2. Acked => Acked'
    BY <1>c DEF Acked, Written
  <2> QED BY <1>b, <1>c, <2>1, <2>2 DEF AnswerInv
<1>12. DoneInv'
    BY Empties DEF DoneInv, Written, Off
<1>13. FirstInv'
    BY Empties DEF FirstInv, Waits, Off
<1>14. RoomInv'
    BY <1>c
<1>15. FaultInv'
  <2>1. runs = 1 /\ ~ fault =>
            /\ hpc \in {"start", "handshake", "answer", "done"}
            /\ hpc \in {"start", "handshake"} => to_host = <<>>
            /\ hpc = "answer" => to_host = <<"ok">> /\ fw_data = Pages + 2
    BY <1>a, Outside
  <2> QED BY <1>b, <2>1, FaultKept
<1> QED BY <1>1, <1>2, <1>3, <1>4, <1>5, <1>6, <1>7,
           <1>8, <1>9, <1>10, <1>11, <1>12, <1>13, <1>14, <1>15 DEF TypeOK

LEMMA PowerFailsStep ==
    ASSUME IInv, PowerFails
    PROVE  IInv'
PROOF
<1> USE LoaderAssumption, SerialAssumption DEF IInv
<1>a. /\ hpc # "start" /\ RestartLine
      /\ active_index' = active_index /\ FlashTouched
      /\ pc' = "window" /\ back' = "window"
      /\ iap_write_addr' = 0 /\ err_cnt' = 0 /\ to_cnt' = 0
      /\ fault' = TRUE
      /\ UNCHANGED <<to_host, hpc, fw_data, runs>>
    BY Zenon DEF PowerFails, PowerCycle, Restart, host, FlashTouched
<1>b. slot' \in [Sectors -> Content] /\ (slot' # slot => pc \in {"erase", "write"})
    BY <1>a, Flashed
<1>c. to_host' \in {<<>>, <<"ok">>, <<"nack">>}
    BY <1>a DEF LineInv
<1>d. slot' # slot => /\ hpc \in {"handshake", "answer", "exited"}
                      /\ hpc = "answer" => to_host = <<>>
    BY <1>a, <1>b, Executing DEF Busy
<1>e. /\ LineType' /\ DeviceInv' /\ LineInv' /\ DueInv' /\ RoomInv'
      /\ Off' /\ to_device' = <<>> /\ ~ Complete'
      /\ ~ int_rx' /\ ~ shaking' /\ rx' = <<>>
    BY <1>a, <1>c, Restarted
<1>f. slot' = slot => \A n \in Int : Written(n) => Written(n)'
    BY DEF Written
<1>1. LoaderType'
    BY <1>a, <1>b DEF TypeOK, LoaderType
<1>2. LineType'
    BY <1>e
<1>3. HostType'
  <2>1. fault' \in BOOLEAN
    BY <1>a, Zenon
  <2> QED BY <1>a, <2>1 DEF TypeOK, HostType
<1>4. DeviceInv'
    BY <1>e
<1>5. LineInv'
    BY <1>e
<1>6. DueInv'
    BY <1>e
<1>7. StartInv'
    BY <1>a DEF StartInv
<1>8. ShakeInv'
  <2>1. Trained' /\ ~ Busy' /\ pc' # "reset"
    BY <1>a, <1>e DEF Trained, Busy
  <2> QED BY <1>a, <1>e, <2>1 DEF ShakeInv
<1>9. SettleInv'
    BY <1>a, <1>e DEF SettleInv
<1>10. SendInv'
  <2> SUFFICES ASSUME hpc = "send" PROVE SendInv'
    BY <1>a DEF SendInv
  <2>1. slot' = slot /\ to_host = <<>> /\ fw_data <= Pages + 1 /\ Written(fw_data - 1)
    BY <1>d DEF SendInv
  <2>2. Written(fw_data - 1)'
    BY <1>a, <2>1 DEF Written
  <2> QED BY <1>a, <1>e, <2>1, <2>2 DEF SendInv
<1>11. AnswerInv'
  <2> SUFFICES ASSUME hpc = "answer" PROVE AnswerInv'
    BY <1>a DEF AnswerInv
  <2>1. to_host = <<"ok">> => Acked'
    <3> SUFFICES ASSUME to_host = <<"ok">> PROVE Acked'
        OBVIOUS
    <3>1. Acked /\ slot' = slot
        BY <1>d, Answers DEF AnswerInv
    <3> QED BY <1>a, <1>e, <3>1 DEF Acked, Written
  <2> QED BY <1>a, <1>e, <2>1 DEF AnswerInv
<1>12. DoneInv'
  <2>1. hpc = "done" => slot' = slot /\ Written(Pages)
    BY <1>d DEF DoneInv
  <2>2. hpc = "done" => Written(Pages)'
    BY <2>1 DEF Written
  <2> QED BY <1>a, <1>e, <2>2 DEF DoneInv
<1>13. FirstInv'
    BY <1>a, <1>e DEF FirstInv
<1>14. RoomInv'
    BY <1>e
<1>15. FaultInv'
    BY <1>a DEF FaultInv
<1> QED BY <1>1, <1>2, <1>3, <1>4, <1>5, <1>6, <1>7,
           <1>8, <1>9, <1>10, <1>11, <1>12, <1>13, <1>14, <1>15 DEF TypeOK

LEMMA ReceiveStep ==
    ASSUME IInv, Receive
    PROVE  IInv'
PROOF
<1>1. to_device # <<>> /\ ~ Complete /\ Deliver(Head(to_device)) /\ fault' = fault
    BY DEF Receive
<1>2. Arrives(Head(to_device))
    BY DEF Arrives
<1> QED BY <1>1, <1>2, DeliverStep, Zenon

LEMMA BytesLostStep ==
    ASSUME IInv, BytesLost
    PROVE  IInv'
PROOF
<1>1. /\ to_device # <<>> /\ ~ Complete /\ Head(to_device) # Train
      /\ Deliver(Cut(Head(to_device))) /\ fault' = TRUE
    BY DEF BytesLost, Cut
<1>2. Arrives(Cut(Head(to_device)))
    BY <1>1 DEF Arrives
<1> QED BY <1>1, <1>2, DeliverStep, Zenon

-----------------------------------------------------------------------------
(***************************************************************************)
(* The theorems.                                                           *)
(***************************************************************************)

LEMMA InitHolds == Init => IInv
PROOF
<1> SUFFICES ASSUME Init PROVE IInv
  OBVIOUS
<1> USE LoaderAssumption, SerialAssumption
<1>a. /\ pc = "window" /\ back = "window" /\ active_index = 0
      /\ iap_write_addr = 0 /\ err_cnt = 0 /\ to_cnt = 0
    BY DEF Init, LoaderInit
<1>b. /\ int_rx = FALSE /\ fifo = "" /\ shaking = FALSE /\ torn = FALSE /\ fault = FALSE
      /\ rx = <<>> /\ rx_len = 0 /\ rx_index = 0
      /\ held = Cmd("none", 0) /\ held_index = 0
      /\ to_device = <<>> /\ to_host = <<>>
      /\ hpc = "start" /\ fw_data = 1 /\ runs = 1
    BY DEF Init
<1>c. ~ int_rx /\ ~ shaking /\ ~ torn
    BY <1>b
<1>d. held.cmd = "none" /\ held \notin Commands
    BY <1>b, NoneFacts
<1>e. ~ Complete
    BY <1>b, NotComplete
<1>1. LoaderType
  <2>1. slot \in [Sectors -> Content]
    <3>1. Old \in Content /\ Mixed \in Content
        BY DEF Content, Old, Mixed
    <3> QED BY <3>1 DEF Init, LoaderInit
  <2> QED BY <1>a, <2>1 DEF LoaderType
<1>2. LineType
  <2>1. int_rx \in BOOLEAN /\ shaking \in BOOLEAN /\ torn \in BOOLEAN
    BY <1>b, Zenon
  <2>2. rx_len \in Nat /\ rx_index \in 0 .. 1 /\ held_index \in 0 .. 1
    <3>1. rx_len = 0 /\ rx_index = 0 /\ held_index = 0
        BY <1>b
    <3> QED BY <3>1
  <2>3. to_device \in Seq(Commands \cup {Train}) /\ Len(to_device) = 0
    BY <1>b, Empties, Zenon
  <2>4. Len(to_device) <= 2
    BY <2>3
  <2>5. rx \in Seq(Chunks) /\ to_host \in Seq({"ok", "nack"})
    BY <1>b, Empties, Zenon
  <2>6. fifo \in {"", "hs", "other"} /\ held \in Commands \cup {Cmd("none", 0)}
    BY <1>b, Zenon
  <2> QED BY <2>1, <2>2, <2>3, <2>4, <2>5, <2>6, Zenon DEF LineType
<1>3. HostType
  <2>1. fault \in BOOLEAN
    BY <1>b, Zenon
  <2>2. fw_data \in 1 .. Pages + 2 /\ runs \in 1 .. MaxRuns
    <3>1. fw_data = 1 /\ runs = 1
        BY <1>b
    <3> QED BY <3>1
  <2>3. hpc = "start"
    BY <1>b
  <2> QED BY <2>1, <2>2, <2>3 DEF HostType
<1>4. DeviceInv
    BY <1>a, <1>b, <1>c, <1>d DEF DeviceInv, Busy, Polls
<1>5. LineInv
    BY <1>a, <1>b, <1>c, <1>e DEF LineInv, Trained, Busy
<1>6. DueInv
    BY <1>a, <1>d DEF DueInv, Due
<1>7. /\ StartInv /\ ShakeInv /\ SettleInv /\ SendInv /\ AnswerInv /\ DoneInv
    BY <1>a, <1>b, <1>e DEF StartInv, ShakeInv, SettleInv, SendInv, AnswerInv, DoneInv
<1>8. FirstInv /\ RoomInv /\ FaultInv
    BY <1>b, <1>c, RoomFacts DEF FirstInv, RoomInv, FaultInv
<1> QED BY <1>1, <1>2, <1>3, <1>4, <1>5, <1>6, <1>7, <1>8 DEF IInv, TypeOK

LEMMA Stuttering ==
    ASSUME IInv, UNCHANGED vars
    PROVE  IInv'
PROOF
<1>1. /\ slot' = slot /\ active_index' = active_index /\ pc' = pc /\ back' = back
      /\ iap_write_addr' = iap_write_addr /\ err_cnt' = err_cnt /\ to_cnt' = to_cnt
    BY DEF vars, loader
<1>2. /\ int_rx' = int_rx /\ fifo' = fifo /\ shaking' = shaking
      /\ rx' = rx /\ rx_len' = rx_len /\ rx_index' = rx_index
      /\ held' = held /\ held_index' = held_index /\ torn' = torn
      /\ to_device' = to_device /\ to_host' = to_host
    BY DEF vars, line
<1>3. hpc' = hpc /\ fw_data' = fw_data /\ runs' = runs /\ fault' = fault
    BY DEF vars, host
<1>4. TypeOK'
  <2>1. LoaderType'
    BY <1>1 DEF IInv, TypeOK, LoaderType
  <2>2. LineType'
    BY <1>2, Zenon DEF IInv, TypeOK, LineType
  <2>3. HostType'
    BY <1>3, Zenon DEF IInv, TypeOK, HostType
  <2> QED BY <2>1, <2>2, <2>3 DEF TypeOK
<1>5. Jam' = Jam /\ Complete' = Complete /\ Busy' = Busy /\ Trained' = Trained
    BY <1>1, <1>2 DEF Jam, Complete, Busy, Trained
<1>6. Stuck' = Stuck /\ Off' = Off /\ Waits' = Waits /\ Lives' = Lives
    BY <1>1, <1>2, <1>5 DEF Stuck, FrontTrain, Off, Waits, Lives
<1>7. Asked' = Asked
    BY <1>3 DEF Asked
<1>8. Asking' = Asking /\ Acked' = Acked
    BY <1>1, <1>2, <1>3, <1>5, <1>6, <1>7 DEF Asking, Acked, Written
<1>9. DeviceInv' /\ LineInv' /\ DueInv'
    BY <1>1, <1>2, <1>5 DEF IInv, DeviceInv, Polls, LineInv, DueInv, Due
<1>10. StartInv' /\ ShakeInv' /\ SettleInv' /\ SendInv'
    BY <1>1, <1>2, <1>3, <1>5, <1>6
    DEF IInv, StartInv, ShakeInv, SettleInv, SendInv, Written
<1>11. AnswerInv' /\ DoneInv'
    BY <1>1, <1>2, <1>3, <1>6, <1>8 DEF IInv, AnswerInv, DoneInv, Written
<1>12. FirstInv' /\ RoomInv' /\ FaultInv'
    BY <1>1, <1>2, <1>3, <1>6, <1>8 DEF IInv, FirstInv, RoomInv, FaultInv
<1> QED BY <1>4, <1>9, <1>10, <1>11, <1>12 DEF IInv

LEMMA NextHolds == IInv /\ [Next]_vars => IInv'
PROOF
<1> SUFFICES ASSUME IInv, [Next]_vars PROVE IInv'
  OBVIOUS
<1>1. CASE Device
    BY <1>1, HandshakeStep, NoHandshakeStep, EnableIntStep, ReadStep, ReadTimesOutStep,
       ExecuteStep, SystemResetStep, CloseWindowStep, PreJumpStep, Zenon DEF Device
<1>2. CASE HostStep
    BY <1>2, SendTrainStep, ReadShakeStep, SendEraseStep, SendPageStep, SendResetStep,
       GetResponseStep, ResponseTimesOutStep, Zenon DEF HostStep
<1>3. CASE Receive \/ BytesLost \/ PowerFails
    BY <1>3, ReceiveStep, BytesLostStep, PowerFailsStep, Zenon
<1>4. CASE Killed \/ RunAgain
    BY <1>4, KilledStep, RunAgainStep, Zenon
<1>5. CASE UNCHANGED vars
    BY <1>5, Stuttering, Zenon
<1> QED BY <1>1, <1>2, <1>3, <1>4, <1>5, Zenon DEF Next

(***************************************************************************)
(* The invariant holds in every state of every behaviour: whatever is lost,*)
(* however often power fails and the script is stopped and run again.      *)
(***************************************************************************)
THEOREM IInvCorrect == Spec => []IInv
PROOF
<1>1. Init => IInv
  BY InitHolds
<1>2. IInv /\ [Next]_vars => IInv'
  BY NextHolds
<1> QED BY <1>1, <1>2, PTL DEF Spec

(***************************************************************************)
(* The variables keep their types, the command being executed is never     *)
(* written over, and in the first run the bytes received fit in the buffer *)
(* of g_rx_buf.                                                            *)
(***************************************************************************)
THEOREM BufferCorrect == Spec => []BufferInv
PROOF
<1>1. IInv => BufferInv
  <2> SUFFICES ASSUME IInv PROVE BufferInv
    OBVIOUS
  <2>1. CommandIntact
    BY DEF IInv, DeviceInv, CommandIntact
  <2>2. RxFits
    <3>1. \A n \in Room : n <= BFLB_EFLASH_LOADER_READBUF_SIZE
        BY DEF Room, BFLB_EFLASH_LOADER_READBUF_SIZE
    <3> QED BY <3>1 DEF IInv, RoomInv, RxFits
  <2> QED BY <2>1, <2>2 DEF IInv, BufferInv
<1> QED BY <1>1, IInvCorrect, PTL

(***************************************************************************)
(* When main of upgrade_firmware.py ends without an error the slot holds   *)
(* the firmware, whatever the runs before it left behind.                  *)
(***************************************************************************)
THEOREM DoneIsWholeCorrect == Spec => []DoneIsWhole
PROOF
<1>1. IInv => DoneIsWhole
  BY DEF IInv, DoneInv, Written, DoneIsWhole, Whole
<1> QED BY <1>1, IInvCorrect, PTL

(***************************************************************************)
(* The first run of the script fails only when the power, the line, the    *)
(* flash or its user failed it.                                            *)
(***************************************************************************)
THEOREM NoFalseFailureCorrect == Spec => []NoFalseFailure
PROOF
<1>1. IInv => NoFalseFailure
  BY DEF IInv, FaultInv, NoFalseFailure
<1> QED BY <1>1, IInvCorrect, PTL
=============================================================================
