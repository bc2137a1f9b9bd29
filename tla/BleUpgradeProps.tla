--------------------------- MODULE BleUpgradeProps ---------------------------
(* What an upgrade over Bluetooth keeps, whatever order the host, the       *)
(* connection, the BLE task and main_task run in, and wherever the          *)
(* connection, the flash or the power fails.                                *)
EXTENDS BleUpgrade

(***************************************************************************)
(* Types of the variables; a command over Bluetooth and a read over UART   *)
(* share the buffer, so rx holds parts of any command, zeroed or not.      *)
(***************************************************************************)
Parts == [cmd : {"erase", "write", "reset", "zero"}, arg : 0 .. Pages,
          part : {1, 2}, bytes : {5, 12, 24, 4080}]

LoaderType ==
    /\ slot \in [Sectors -> Content]
    /\ active_index \in 0 .. 1
    /\ pc \in {"window", "checked", "forever", "read", "erase", "write",
               "reset", "jump", "app"}
    /\ back \in {"window", "checked", "forever"}
    /\ iap_write_addr \in Nat /\ err_cnt \in 0 .. 3 /\ to_cnt \in 0 .. 2

TransportType ==
    /\ link \in BOOLEAN /\ if_type \in {"uart", "ble"} /\ reading \in {"uart", "ble"}
    /\ rx \in Seq(Parts) /\ rx_len \in Nat
    /\ is_rcv_msg \in BOOLEAN /\ rx_index \in 0 .. 1 /\ torn \in BOOLEAN
    /\ held \in Commands \cup {Cmd("none", 0)}
    /\ to_device \in Seq(Parts) /\ to_host \in Seq({"ok", "nack"})

HostType ==
    /\ hpc \in {"scan", "connect", "settle", "answer", "send", "closing", "done",
                "gaveup", "hung"}
    /\ fw_data \in 1 .. Pages + 1 /\ retry \in 0 .. MaxTry
    /\ sent \in {"none", "erase", "write", "reset"}
    /\ rx_queue \in {<<>>, <<"ok">>, <<"nack">>} /\ fresh \in BOOLEAN

TypeOK == LoaderType /\ TransportType /\ HostType

(***************************************************************************)
(* The bytes a connection left behind and those of the next one never add  *)
(* up to more than g_eflash_loader_readbuf[0] holds: ble_blf_recv resets   *)
(* the count before it copies, and only when it is already too large.      *)
(***************************************************************************)
RxInBounds == rx_len <= BLE_READBUF_SIZE

(***************************************************************************)
(* The command being executed is the one that was received: neither the    *)
(* next command of this connection nor the first of the next one is copied *)
(* over it (main_task works in the buffer ble_blf_recv copies to).         *)
(***************************************************************************)
CommandIntact == pc \in {"erase", "write", "reset"} => ~ torn

(* What arrives in the receive buffer fits, and is left alone until it is   *)
(* executed.                                                                *)
BufferInv == TypeOK /\ RxInBounds /\ CommandIntact

(***************************************************************************)
(* The host never gets a second answer while the first is in its queue of  *)
(* one, where notification_handler would block its event loop for good.    *)
(***************************************************************************)
OneAnswer == Len(rx_queue) + Len(to_host) <= 1

(***************************************************************************)
(* In a transaction that began with the whole firmware in an unused        *)
(* session, every page the host has removed from fw_data is in the flash   *)
(* at its place, and the loader will write the next one behind them; so    *)
(* what the host then reports as a success is one.                         *)
(***************************************************************************)
AckedIsWritten ==
    fresh /\ hpc \in {"send", "closing", "done"} =>
        /\ \A p \in 1 .. fw_data - 1 : slot[p - 1] = p
        /\ hpc = "send" /\ link => iap_write_addr = fw_data - 1
        /\ hpc # "send" => Whole(slot)

(***************************************************************************)
(* The application that runs was found bootable by blsp_mediaboot_main,    *)
(* unless a session was opened by the last poll, after the check: what     *)
(* that session wrote is started unchecked.                                *)
(***************************************************************************)
CheckedBeforeJump ==
    pc \in {"jump", "app"} /\ back # "checked" => Bootable(slot)

(***************************************************************************)
(* The partition behind the slot survives an upgrade as long as there are  *)
(* no more failed transactions than there are spare sectors: a retried     *)
(* transaction moves the loader's write address by at most one page that   *)
(* it writes again, although nothing but a new session takes it back.      *)
(***************************************************************************)
PsmSpared == slot[SlotSectors] # Old => retry > SlotSectors - Pages

(***************************************************************************)
(* The reset command that flips the active index reaches the loader only   *)
(* with the whole firmware in the slot, in a transaction that began with   *)
(* all of it.                                                              *)
(***************************************************************************)
FreshIsWhole == [][active_index' # active_index /\ fresh => Whole(slot)]_vars

(***************************************************************************)
(* upgrade_firmware.py comes to its end, with or without success, whatever *)
(* answers arrive and whenever the connection fails, once the power stays  *)
(* on; unless it has no address and comes too late, when it scans for ever *)
(* for a device that runs its application.                                 *)
(***************************************************************************)
HostEnds ==
    \/ []<><<PowerFails>>_vars
    \/ <>(hpc \in {"done", "gaveup"})
    \/ <>[](hpc = "scan" /\ pc = "app")

(***************************************************************************)
(* A session ends when its host is gone: the device gets to run the        *)
(* application, or waits with the bad image for another upgrade.           *)
(***************************************************************************)
LetsGo == []<><<PowerFails>>_vars \/ <>[](pc \in {"app", "forever"})

(***************************************************************************)
(* What upgrade_firmware.py says of its retries ("Upload failed, retry new *)
(* transaction..."): when it ends successfully the firmware is on the      *)
(* device.                                                                 *)
(***************************************************************************)
DoneIsWhole == hpc = "done" => Whole(slot)
=============================================================================
