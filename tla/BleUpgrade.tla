------------------------------ MODULE BleUpgrade ------------------------------
(***************************************************************************)
(* Upgrading over Bluetooth: the host (ble_process, upgrade_firmware.py)   *)
(* with its retries, the connection, the callbacks of the device's BLE     *)
(* task (ble_blf_recv, bl_connected, bl_disconnected) and main_task        *)
(* running the loader, all interleaved.                                    *)
(*                                                                         *)
(* Simplifications:                                                        *)
(*  - within a connection GATT writes and notifications arrive in order;   *)
(*    what is on its way is lost with the connection;                      *)
(*  - a page travels in two parts: its writes of 240 bytes but the last,   *)
(*    and the last one, which is flagged as the end of the command;        *)
(*  - the checksum catches every frame that is not one the host sent;      *)
(*  - the answer to the reset command, which nobody waits for and after    *)
(*    which the script sends nothing more, is left out;                    *)
(*  - time is not modelled, but a read does not time out (8 or 10 s) while *)
(*    something that takes milliseconds is still to happen.                *)
(***************************************************************************)
EXTENDS EflashLoader, SequencesExt

CONSTANTS MaxTry  \* transactions the host tries (10)

ASSUME BleAssumption == MaxTry \in Nat \ {0}

VARIABLES
    link,       \* the connection is up: ble_bl_conn # NULL
    if_type,    \* the interface the next read will use
    reading,    \* the interface of the read main_task is in
    rx,         \* what the bytes in the buffer are, in parts
    rx_len,     \* how many: g_rx_buf_len
    is_rcv_msg,
    rx_index,   \* g_rx_buf_index
    held,       \* the command main_task is executing from the buffer
    torn,       \* the buffer was overwritten meanwhile
    to_device, to_host, \* writes and notifications on their way
    hpc,        \* where the host is
    fw_data,    \* first page the host still has to send
    sent,       \* the command it waits for an answer to
    retry,      \* transactions failed so far
    rx_queue,   \* answers received: a queue of one
    fresh       \* the transaction began with the whole firmware, and with no
                \* session open that has written already

transport == <<link, if_type, reading, rx, rx_len, is_rcv_msg, rx_index, held,
               torn, to_device, to_host>>
host      == <<hpc, fw_data, sent, retry, rx_queue, fresh>>
vars      == <<loader, transport, host>>

-----------------------------------------------------------------------------
(***************************************************************************)
(* Frames.                                                                 *)
(***************************************************************************)
BLE_READBUF_SIZE == 5128

Part(c, nr, bytes) == [cmd |-> c.cmd, arg |-> c.arg, part |-> nr, bytes |-> bytes]

Frame(c) ==
    CASE c.cmd = "erase" -> <<Part(c, 1, 12)>>
      [] c.cmd = "reset" -> <<Part(c, 1, 5)>>
      [] c.cmd = "write" -> <<Part(c, 1, 4080), Part(c, 2, 24)>>

(* The last GATT write of a frame has 0 in its first byte.                 *)
IsLast_Any(part) == part.part \in {1, 2}

IsLast(part) == part.cmd # "write" \/ part.part = 2

(* A buffer that bl_connected allocated anew: bytes counted before read 0. *)
Zeroed(parts) == [i \in DOMAIN parts |-> [parts[i] EXCEPT !.cmd = "zero"]]

(* The command at the front of what was read; bytes behind it are ignored. *)
Carries(parts, c) == IsPrefix(Frame(c), parts)

-----------------------------------------------------------------------------
Init ==
    /\ LoaderInit
    /\ link = FALSE /\ if_type = "uart" /\ reading = "uart"
    /\ rx = <<>> /\ rx_len = 0 /\ is_rcv_msg = FALSE /\ rx_index = 0
    /\ held = Cmd("none", 0) /\ torn = FALSE
    /\ to_device = <<>> /\ to_host = <<>>
    /\ hpc \in {"scan", "connect"} /\ fw_data = 1 /\ sent = "none" /\ retry = 0
    /\ rx_queue = <<>> /\ fresh = FALSE

(* The connection goes down, whoever ends it: bl_disconnected.             *)
Disconnect ==
    /\ link' = FALSE
    /\ if_type' = IF link THEN "uart" ELSE if_type
    /\ to_device' = <<>> /\ to_host' = <<>>

(* bflb_eflash_loader_ble_send, through the interface of the moment.       *)
Answer(r) ==
    to_host' = IF link /\ if_type = "ble" THEN Append(to_host, r) ELSE to_host

-----------------------------------------------------------------------------
(***************************************************************************)
(* The BLE task of the device.                                             *)
(***************************************************************************)

(* A BLE read takes what is flagged within 100 ms, at once if it is flagged *)
(* before the read begins; the host is slower.                             *)
Readable == pc = "read" /\ reading = "ble" /\ is_rcv_msg

(* ble_blf_recv.                                                           *)
Receive ==
    /\ link /\ to_device # <<>> /\ ~ Readable
    /\ LET full == rx_len >= BLE_READBUF_SIZE
       IN  /\ rx' = Append(IF full THEN <<>> ELSE rx, Head(to_device))
           /\ rx_len' = (IF full THEN 0 ELSE rx_len) + Head(to_device).bytes
    /\ is_rcv_msg' = (is_rcv_msg \/ IsLast(Head(to_device)))
    /\ to_device' = Tail(to_device)
    /\ torn' = (held.cmd # "none")
    /\ UNCHANGED <<loader, link, if_type, reading, rx_index, held, to_host, host>>

LinkLost ==
    /\ link
    /\ Disconnect
    /\ UNCHANGED <<loader, reading, rx, rx_len, is_rcv_msg, rx_index, held, torn, host>>

-----------------------------------------------------------------------------
(***************************************************************************)
(* main_task of the device.                                                *)
(***************************************************************************)
Handshake ==
    /\ link /\ if_type = "ble"
    /\ OpenSession
    /\ reading' = if_type
    /\ UNCHANGED <<link, if_type, rx, rx_len, is_rcv_msg, rx_index, held, torn,
                   to_device, to_host, host>>

(* The command at the front is dispatched; anything else is dropped: bytes *)
(* of a new buffer are command 0 without a checksum, which is ignored, and *)
(* parts of commands fail the checksum or are of no known command.         *)
Handle(parts) ==
    /\ reading' = if_type
    /\ \/ \E c \in Commands :
            /\ Carries(parts, c)
            /\ Dispatch(c)
            /\ held' = c /\ torn' = FALSE
            /\ UNCHANGED to_host
       \/ /\ \A c \in Commands : ~ Carries(parts, c)
          /\ DropFrame
          /\ \/ /\ parts[1].cmd # "zero"
                /\ Answer("nack")
             \/ UNCHANGED to_host
          /\ UNCHANGED <<held, torn>>

(* bflb_eflash_loader_ble_recv.                                            *)
ReadBle ==
    /\ Readable
    /\ is_rcv_msg' = FALSE /\ rx' = <<>> /\ rx_len' = 0
    /\ IF rx = <<>>
       THEN /\ NoMessage
            /\ reading' = if_type
            /\ UNCHANGED <<held, torn, to_host>>
       ELSE Handle(rx)
    /\ UNCHANGED <<link, if_type, rx_index, to_device, host>>

(* bflb_eflash_loader_usart_if_receive, still waiting since the connection *)
(* was lost: it takes a whole command from the shared buffer and counter.  *)
(* Its other buffer was never allocated.                                   *)
UartTakes == rx_index = 0 /\ \E c \in Commands : rx = Frame(c)

ReadUart ==
    /\ pc = "read" /\ reading = "uart" /\ UartTakes
    /\ rx_index' = 1 /\ rx' = <<>> /\ rx_len' = 0
    /\ Handle(rx)
    /\ UNCHANGED <<link, if_type, is_rcv_msg, to_device, host>>

Soon ==
    \/ hpc = "send" \/ to_device # <<>> \/ to_host # <<>>
    \/ hpc = "answer" /\ rx_queue # <<>>

ReadTimesOut ==
    /\ pc = "read" /\ ~ Soon
    /\ ~ Readable /\ (reading = "uart" => ~ UartTakes)
    /\ NoMessage
    /\ reading' = if_type
    /\ UNCHANGED <<link, if_type, rx, rx_len, is_rcv_msg, rx_index, held, torn,
                   to_device, to_host, host>>

(* What a write command finds in the buffer when it reaches the flash.     *)
PageHeld == IF torn THEN Mixed ELSE held.arg

Execute_AcksFailure ==
    /\ \/ EraseFlash(held.arg) \/ EraseFlashFails(held.arg)
       \/ WriteFlash(PageHeld) \/ WriteFlashFails(PageHeld)
    /\ Answer("ok")
    /\ reading' = if_type
    /\ held' = Cmd("none", 0) /\ torn' = FALSE
    /\ UNCHANGED <<link, if_type, rx, rx_len, is_rcv_msg, rx_index, to_device, host>>

Execute ==
    /\ \/ EraseFlash(held.arg) /\ Answer("ok")
       \/ EraseFlashFails(held.arg) /\ Answer("nack")
       \/ WriteFlash(PageHeld) /\ Answer("ok")
       \/ WriteFlashFails(PageHeld) /\ Answer("nack")
    /\ reading' = if_type
    /\ held' = Cmd("none", 0) /\ torn' = FALSE
    /\ UNCHANGED <<link, if_type, rx, rx_len, is_rcv_msg, rx_index, to_device, host>>

(* Everything in RAM is as at the start, and the radio is off.             *)
RestartTransport ==
    /\ Disconnect
    /\ reading' = "uart" /\ rx' = <<>> /\ rx_len' = 0
    /\ is_rcv_msg' = FALSE /\ rx_index' = 0
    /\ held' = Cmd("none", 0) /\ torn' = FALSE

SystemReset ==
    /\ Reset
    /\ RestartTransport
    /\ UNCHANGED host

PowerFails ==
    /\ PowerCycle(held.arg, PageHeld)
    /\ RestartTransport
    /\ UNCHANGED host

(* With a bad image main_task ends up offering the UART, also when a       *)
(* connection has just been made.                                          *)
CloseWindow ==
    /\ CheckImage
    /\ if_type' = IF pc' = "forever" THEN "uart" ELSE if_type
    /\ UNCHANGED <<link, reading, rx, rx_len, is_rcv_msg, rx_index, held, torn,
                   to_device, to_host, host>>

NoHandshake ==
    /\ ~ (link /\ if_type = "ble")
    /\ LastPoll
    /\ UNCHANGED <<transport, host>>

(* bflb_eflash_loader_ble_stop ends the connection.                        *)
PreJump ==
    /\ Jump
    /\ RestartTransport
    /\ UNCHANGED host

-----------------------------------------------------------------------------
(***************************************************************************)
(* The host.                                                               *)
(***************************************************************************)

(* The transaction failed, or an exception ended it.                       *)
NextTry_Endless ==
    /\ retry' = retry
    /\ hpc' = "connect"

NextTry ==
    /\ retry' = retry + 1
    /\ hpc' = IF retry + 1 = MaxTry THEN "gaveup" ELSE "connect"

Failed ==
    /\ NextTry
    /\ Disconnect
    /\ UNCHANGED <<loader, reading, rx, rx_len, is_rcv_msg, rx_index, held, torn,
                   fw_data, sent, rx_queue, fresh>>

(* Advertising goes on until the application runs or somebody connects; it  *)
(* is not heard while the flash is busy.                                   *)
Advertises == ~ link /\ pc \notin {"app", "erase", "write", "reset"}

(* Without an address (-a) the script scans until it sees the device: a    *)
(* round that does not is followed by another one, without end.            *)
Scan ==
    /\ hpc = "scan"
    /\ \/ Advertises /\ hpc' = "connect"
       \/ UNCHANGED hpc
    /\ UNCHANGED <<loader, transport, fw_data, sent, retry, rx_queue, fresh>>

(* bl_connected gives the device a new buffer, but leaves g_rx_buf_len and *)
(* is_rcv_msg.                                                             *)
Connect ==
    /\ hpc = "connect" /\ Advertises
    /\ link' = TRUE /\ if_type' = "ble"
    /\ rx' = Zeroed(rx)
    /\ hpc' = "settle"
    /\ UNCHANGED <<loader, reading, rx_len, is_rcv_msg, rx_index, held, torn,
                   to_device, to_host, fw_data, sent, retry, rx_queue, fresh>>

ConnectFails ==
    /\ hpc = "connect"
    /\ NextTry
    /\ UNCHANGED <<loader, transport, fw_data, sent, rx_queue, fresh>>

SendCommand(c) ==
    /\ to_device' = to_device \o Frame(c)
    /\ sent' = c.cmd
    /\ UNCHANGED <<loader, link, if_type, reading, rx, rx_len, is_rcv_msg, rx_index,
                   held, torn, to_host>>

(* No session that is open has written already.                            *)
Unwritten == pc = "read" => iap_write_addr = 0

(* erase_flash_ble, for as many pages as fw_data still holds; clean_queue  *)
(* drops an answer nobody waited for.                                      *)
SendErase ==
    /\ hpc = "settle" /\ link
    /\ SendCommand(Cmd("erase", Pages - fw_data + 1))
    /\ hpc' = "answer" /\ rx_queue' = <<>>
    /\ fresh' = (fw_data = 1 /\ Unwritten)
    /\ UNCHANGED <<fw_data, retry>>

(* program_one_page_ble.                                                   *)
SendPage_NoWait ==
    /\ hpc = "send" /\ link /\ fw_data <= Pages
    /\ SendCommand(Cmd("write", fw_data))
    /\ fw_data' = fw_data + 1
    /\ UNCHANGED <<hpc, rx_queue, retry, fresh>>

SendPage ==
    /\ hpc = "send" /\ link /\ fw_data <= Pages
    /\ SendCommand(Cmd("write", fw_data))
    /\ hpc' = "answer" /\ rx_queue' = <<>>
    /\ UNCHANGED <<fw_data, retry, fresh>>

(* system_reset_command_ble does not wait for an answer.                   *)
SendReset ==
    /\ hpc = "send" /\ link /\ fw_data > Pages
    /\ SendCommand(Cmd("reset", 0))
    /\ hpc' = "closing"
    /\ UNCHANGED <<fw_data, retry, rx_queue, fresh>>

(* Writing without a connection raises an exception.                       *)
SendFails ==
    /\ hpc \in {"settle", "send"} /\ ~ link
    /\ Failed

(* notification_handler: a second answer blocks the event loop for good.   *)
Notified ==
    /\ link /\ to_host # <<>>
    /\ to_host' = Tail(to_host)
    /\ IF rx_queue = <<>>
       THEN rx_queue' = <<Head(to_host)>> /\ UNCHANGED hpc
       ELSE hpc' = "hung" /\ UNCHANGED rx_queue
    /\ UNCHANGED <<loader, link, if_type, reading, rx, rx_len, is_rcv_msg, rx_index,
                   held, torn, to_device, fw_data, sent, retry, fresh>>

(* get_response_ble.                                                       *)
GetResponse ==
    /\ hpc = "answer" /\ rx_queue = <<"ok">>
    /\ rx_queue' = <<>>
    /\ fw_data' = IF sent = "write" THEN fw_data + 1 ELSE fw_data
    /\ hpc' = "send"
    /\ UNCHANGED <<loader, transport, sent, retry, fresh>>

NackOrTimeout ==
    /\ hpc = "answer" /\ rx_queue # <<"ok">>
    /\ NextTry
    /\ Disconnect
    /\ rx_queue' = <<>>
    /\ UNCHANGED <<loader, reading, rx, rx_len, is_rcv_msg, rx_index, held, torn,
                   fw_data, sent, fresh>>

(* is_success is set; what the reset command still needs may be lost.      *)
Finish ==
    /\ hpc = "closing"
    /\ Disconnect
    /\ hpc' = "done"
    /\ UNCHANGED <<loader, reading, rx, rx_len, is_rcv_msg, rx_index, held, torn,
                   fw_data, sent, retry, rx_queue, fresh>>

-----------------------------------------------------------------------------
Device == Handshake \/ ReadBle \/ ReadUart \/ ReadTimesOut \/ Execute
            \/ SystemReset \/ CloseWindow \/ NoHandshake \/ PreJump

HostStep == Scan \/ Connect \/ ConnectFails \/ SendErase \/ SendPage \/ SendReset
            \/ SendFails \/ GetResponse \/ NackOrTimeout \/ Finish

Step == Device \/ HostStep \/ Receive \/ Notified \/ LinkLost

Next == Step \/ PowerFails

Spec == Init /\ [][Next]_vars

(* main_task runs whenever it can (every wait of it has a timeout), so     *)
(* does the host (a scan sees a device that goes on advertising, its other *)
(* waits have a timeout), and a connection that stays up delivers.         *)
Fairness ==
    /\ WF_vars(Device) /\ WF_vars(HostStep)
    /\ WF_vars(Receive) /\ WF_vars(Notified)

FairSpec == Spec /\ Fairness
=============================================================================
