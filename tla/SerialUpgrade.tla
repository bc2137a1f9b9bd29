----------------------------- MODULE SerialUpgrade -----------------------------
(***************************************************************************)
(* Upgrading over the serial line: the host (the main part of              *)
(* upgrade_firmware.py, run again when it fails), the UART with its FIFO   *)
(* and interrupt, and main_task running the loader, all interleaved.       *)
(*                                                                         *)
(* Simplifications:                                                        *)
(*  - bytes arrive in order; a frame that lost bytes is never completed by *)
(*    what follows it; a handshake that lost some is still one;            *)
(*  - opening and closing the port discards what has not been read of it;  *)
(*  - time is not modelled, but: bytes take milliseconds to arrive, the    *)
(*    device polls every 20 ms and takes a complete frame within 10 ms,    *)
(*    the host reads every 100 ms while it shakes hands, pauses 0.6 s      *)
(*    after it and waits at most 5 s for an answer, the device pauses      *)
(*    0.4 s and a read of its takes 8 s to time out; what is sent before   *)
(*    a restart is not received after it.                                  *)
(***************************************************************************)
EXTENDS EflashLoader

CONSTANTS MaxRuns,  \* times the script is run
          MaxTrains \* a handshake behind so many others is not counted

ASSUME SerialAssumption == MaxRuns \in Nat \ {0} /\ MaxTrains \in Nat \ {0}

VARIABLES
    int_rx,   \* download_uart is open with DEVICE_OFLAG_INT_RX
    fifo,     \* what the receive FIFO begins with: "", "hs" or "other"
    shaking,  \* "OK" is sent, the session opens in 400 ms
    rx,       \* what the bytes in the current buffer are
    rx_len,   \* how many: g_rx_buf_len
    rx_index, \* g_rx_buf_index
    held, held_index, \* the command main_task is executing, and its buffer
    torn,     \* that buffer was written to meanwhile
    to_device, to_host, \* what is on the line
    hpc,      \* where the host is
    fw_data,  \* first page the host still has to send
    runs,     \* which run of the script this is
    fault     \* something went wrong that is not the program's fault

line == <<int_rx, fifo, shaking, rx, rx_len, rx_index, held, held_index, torn,
          to_device, to_host>>
host == <<hpc, fw_data, runs>>
vars == <<loader, line, host, fault>>

-----------------------------------------------------------------------------
BFLB_EFLASH_LOADER_READBUF_SIZE == 4104

Train == Cmd("train", 0)

(* How long what arrives is: Cmd("cut", n) are n bytes of a frame.         *)
FrameLength(c) ==
    CASE c.cmd = "train" -> 32
      [] c.cmd = "erase" -> 12
      [] c.cmd = "write" -> 4104
      [] c.cmd = "reset" -> 5
      [] c.cmd = "cut"   -> c.arg

(* bflb_eflash_loader_usart_if_receive returns when there are exactly the  *)
(* bytes that the first four announce; a handshake announces 0x5555 more.  *)
Complete == rx \in {<<c>> : c \in Commands}

Ended == {"done", "exited"}

-----------------------------------------------------------------------------
Init ==
    /\ LoaderInit
    /\ int_rx = FALSE /\ fifo = "" /\ shaking = FALSE
    /\ rx = <<>> /\ rx_len = 0 /\ rx_index = 0
    /\ held = Cmd("none", 0) /\ held_index = 0 /\ torn = FALSE
    /\ to_device = <<>> /\ to_host = <<>>
    /\ hpc = "start" /\ fw_data = 1 /\ runs = 1
    /\ fault = FALSE

(* Nobody gets an answer that arrives at a closed port.                    *)
Answer(r) == to_host' = IF hpc \in Ended THEN to_host ELSE Append(to_host, r)

-----------------------------------------------------------------------------
(***************************************************************************)
(* The UART of the device.                                                 *)
(***************************************************************************)

(* uart_isr and uart0_irq_callback, which copies whatever has arrived      *)
(* behind the bytes that are there.                                        *)
Interrupt(c) ==
    /\ IF c = Train /\ Len(rx) >= MaxTrains
       THEN UNCHANGED <<rx, rx_len>>
       ELSE rx' = Append(rx, c) /\ rx_len' = rx_len + FrameLength(c)
    /\ torn' = (torn \/ (held.cmd # "none" /\ held_index = rx_index))
    /\ UNCHANGED fifo

(* Without the interrupt bytes wait in the FIFO.                           *)
Enqueue(c) ==
    /\ fifo' = IF fifo # "" THEN fifo ELSE IF c = Train THEN "hs" ELSE "other"
    /\ UNCHANGED <<rx, rx_len, torn>>

Deliver(c) ==
    /\ \/ pc = "app" /\ UNCHANGED <<rx, rx_len, torn, fifo>>
       \/ pc # "app" /\ int_rx /\ Interrupt(c)
       \/ pc # "app" /\ ~ int_rx /\ Enqueue(c)
    /\ to_device' = Tail(to_device)
    /\ UNCHANGED <<loader, int_rx, shaking, rx_index, held, held_index,
                   to_host, host>>

Receive ==
    /\ to_device # <<>> /\ ~ Complete
    /\ Deliver(Head(to_device))
    /\ UNCHANGED fault

BytesLost ==
    /\ to_device # <<>> /\ Head(to_device) # Train /\ ~ Complete
    /\ Deliver(Cmd("cut", FrameLength(Head(to_device)) - 1))
    /\ fault' = TRUE

-----------------------------------------------------------------------------
(***************************************************************************)
(* main_task of the device.                                                *)
(***************************************************************************)

(* bflb_eflash_loader_uart_handshake_poll.  With INT_RX uart_read returns  *)
(* -2, which counts as enough bytes, and the ones looked at are whatever   *)
(* the stack holds: the poll may succeed, and it may fail.                 *)
Polling   == pc \in {"window", "checked", "forever"} /\ ~ shaking
MaySee    == int_rx \/ fifo = "hs"
MayNotSee == int_rx \/ fifo # "hs"
PollDrains == fifo' = IF int_rx THEN fifo ELSE ""

Handshake ==
    /\ Polling /\ MaySee
    /\ PollDrains
    /\ shaking' = TRUE
    /\ Answer("ok")
    /\ UNCHANGED <<loader, int_rx, rx, rx_len, rx_index, held, held_index, torn,
                   to_device, host, fault>>

NoHandshake_KeepsFifo ==
    /\ Polling /\ MayNotSee
    /\ UNCHANGED fifo
    /\ IF pc = "checked" THEN LastPoll ELSE UNCHANGED loader
    /\ UNCHANGED <<int_rx, shaking, rx, rx_len, rx_index, held, held_index, torn,
                   to_device, to_host, host, fault>>

NoHandshake ==
    /\ Polling /\ MayNotSee
    /\ PollDrains
    /\ IF pc = "checked" THEN LastPoll ELSE UNCHANGED loader
    /\ UNCHANGED <<int_rx, shaking, rx, rx_len, rx_index, held, held_index, torn,
                   to_device, to_host, host, fault>>

(* The rest of the poll, 400 ms later, and bflb_eflash_loader_main.  What  *)
(* was on its way has arrived, and the UART is opened anew.                *)
EnableInt_KeepsBytes ==
    /\ shaking
    /\ to_device = <<>> /\ (hpc = "handshake" => to_host = <<>>)
    /\ OpenSession
    /\ shaking' = FALSE
    /\ int_rx' = TRUE
    /\ fifo' = "" /\ rx' = (IF fifo = "hs" THEN <<Train>> ELSE <<>>)
    /\ rx_len' = (IF fifo = "hs" THEN FrameLength(Train) ELSE 0) /\ rx_index' = 0
    /\ UNCHANGED <<held, held_index, torn, to_device, to_host, host, fault>>

EnableInt ==
    /\ shaking
    /\ to_device = <<>> /\ (hpc = "handshake" => to_host = <<>>)
    /\ OpenSession
    /\ shaking' = FALSE
    /\ int_rx' = TRUE
    /\ fifo' = "" /\ rx' = <<>> /\ rx_len' = 0 /\ rx_index' = 0
    /\ UNCHANGED <<held, held_index, torn, to_device, to_host, host, fault>>

(* A frame is complete: the next bytes go to the other buffer.             *)
Read_OneBuffer ==
    /\ pc = "read" /\ Complete
    /\ UNCHANGED rx_index
    /\ rx' = <<>> /\ rx_len' = 0
    /\ Dispatch(rx[1])
    /\ held' = rx[1] /\ held_index' = rx_index /\ torn' = FALSE
    /\ UNCHANGED <<int_rx, fifo, shaking, to_device, to_host, host, fault>>

Read ==
    /\ pc = "read" /\ Complete
    /\ rx_index' = 1 - rx_index
    /\ rx' = <<>> /\ rx_len' = 0
    /\ Dispatch(rx[1])
    /\ held' = rx[1] /\ held_index' = rx_index /\ torn' = FALSE
    /\ UNCHANGED <<int_rx, fifo, shaking, to_device, to_host, host, fault>>

(* The bytes that did not make a frame stay.                               *)
ReadTimesOut ==
    /\ pc = "read" /\ ~ Complete
    /\ hpc \in Ended \cup {"start", "handshake"} /\ to_device = <<>> /\ to_host = <<>>
    /\ NoMessage
    /\ UNCHANGED <<line, host, fault>>

PageHeld == IF torn THEN Mixed ELSE held.arg

Execute ==
    /\ \/ /\ EraseFlash(held.arg) \/ WriteFlash(PageHeld)
          /\ Answer("ok")
          /\ UNCHANGED fault
       \/ /\ EraseFlashFails(held.arg) \/ WriteFlashFails(PageHeld)
          /\ Answer("nack")
          /\ fault' = TRUE
    /\ held' = Cmd("none", 0) /\ torn' = FALSE
    /\ UNCHANGED <<int_rx, fifo, shaking, rx, rx_len, rx_index, held_index, to_device, host>>

(* RAM and the UART are as at the start.                                   *)
RestartLine ==
    /\ int_rx' = FALSE /\ fifo' = "" /\ shaking' = FALSE
    /\ rx' = <<>> /\ rx_len' = 0 /\ rx_index' = 0
    /\ held' = Cmd("none", 0) /\ held_index' = 0 /\ torn' = FALSE
    /\ to_device' = <<>>

(* The answer is sent before the chip is reset.                            *)
SystemReset ==
    /\ Reset
    /\ Answer("ok")
    /\ RestartLine
    /\ UNCHANGED <<host, fault>>

PowerFails ==
    /\ hpc # "start"
    /\ PowerCycle(held.arg, PageHeld)
    /\ RestartLine
    /\ fault' = TRUE
    /\ UNCHANGED <<to_host, host>>

CloseWindow ==
    /\ ~ shaking
    /\ CheckImage
    /\ UNCHANGED <<line, host, fault>>

PreJump ==
    /\ Jump
    /\ RestartLine
    /\ UNCHANGED <<to_host, host, fault>>

-----------------------------------------------------------------------------
(***************************************************************************)
(* The host.                                                               *)
(***************************************************************************)
HostOnly == UNCHANGED <<loader, int_rx, fifo, shaking, rx, rx_len, rx_index, held,
                        held_index, torn>>

(* handshake: 32 bytes 0x55, again every 100 ms until "OK" is read.        *)
SendTrain ==
    /\ \/ hpc = "start"
       \/ hpc = "handshake" /\ to_host = <<>>
    /\ to_device = <<>>
    /\ to_device' = <<Train>>
    /\ hpc' = "handshake"
    /\ UNCHANGED <<to_host, fw_data, runs, fault>> /\ HostOnly

ReadShake ==
    /\ hpc = "handshake" /\ to_host # <<>>
    /\ hpc' = IF Head(to_host) = "ok" THEN "settle" ELSE "handshake"
    /\ to_host' = Tail(to_host)
    /\ UNCHANGED <<to_device, fw_data, runs, fault>> /\ HostOnly

SendCommand(c) ==
    /\ to_device' = Append(to_device, c)
    /\ hpc' = "answer"
    /\ UNCHANGED <<to_host, runs, fault>> /\ HostOnly

(* erase_flash, 0.6 s after the handshake.                                 *)
SendErase ==
    /\ hpc = "settle" /\ ~ shaking
    /\ SendCommand(Cmd("erase", Pages))
    /\ UNCHANGED fw_data

(* program_one_page; get_response exits unless the page was acknowledged,  *)
(* so it does not matter when it is taken from what is left.               *)
SendPage ==
    /\ hpc = "send" /\ fw_data <= Pages
    /\ SendCommand(Cmd("write", fw_data))
    /\ fw_data' = fw_data + 1

(* system_reset_command.                                                   *)
SendReset ==
    /\ hpc = "send" /\ fw_data = Pages + 1
    /\ SendCommand(Cmd("reset", 0))
    /\ fw_data' = fw_data + 1

(* get_response.                                                           *)
GetResponse ==
    /\ hpc = "answer" /\ to_host # <<>>
    /\ to_host' = Tail(to_host)
    /\ hpc' = IF Head(to_host) # "ok" THEN "exited"
              ELSE IF fw_data = Pages + 2 THEN "done" ELSE "send"
    /\ UNCHANGED <<to_device, fw_data, runs, fault>> /\ HostOnly

(* No answer: the device did not get the frame, or is still busy.          *)
ResponseTimesOut ==
    /\ hpc = "answer" /\ to_host = <<>> /\ to_device = <<>>
    /\ ~ (pc = "read" /\ Complete)
    /\ hpc' = "exited"
    /\ fault' = (fault \/ pc \in {"erase", "write", "reset"})
    /\ UNCHANGED <<to_device, to_host, fw_data, runs>> /\ HostOnly

Killed ==
    /\ hpc \notin Ended
    /\ hpc' = "exited" /\ fault' = TRUE
    /\ UNCHANGED <<to_device, to_host, fw_data, runs>> /\ HostOnly

(* What the run before had sent has arrived; the device may still be busy  *)
(* with the flash.                                                         *)
RunAgain ==
    /\ hpc = "exited" /\ runs < MaxRuns
    /\ to_device = <<>> /\ ~ (pc = "read" /\ Complete) /\ pc # "reset"
    /\ hpc' = "start" /\ fw_data' = 1 /\ runs' = runs + 1
    /\ to_host' = <<>>
    /\ UNCHANGED <<to_device, fault>> /\ HostOnly

-----------------------------------------------------------------------------
Device == Handshake \/ NoHandshake \/ EnableInt \/ Read \/ ReadTimesOut
            \/ Execute \/ SystemReset \/ CloseWindow \/ PreJump

HostStep == SendTrain \/ ReadShake \/ SendErase \/ SendPage \/ SendReset
              \/ GetResponse \/ ResponseTimesOut

Next == Device \/ HostStep \/ Receive \/ BytesLost \/ PowerFails \/ Killed
          \/ RunAgain

Spec == Init /\ [][Next]_vars

(* main_task polls and reads, the host runs, and the line delivers.        *)
(* The pause in the handshake ends, whatever arrives meanwhile.            *)
FairSpec == Spec /\ WF_vars(Device) /\ WF_vars(HostStep) /\ WF_vars(Receive)
                 /\ SF_vars(EnableInt)
=============================================================================
