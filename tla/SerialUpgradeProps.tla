-------------------------- MODULE SerialUpgradeProps --------------------------
(* What an upgrade over the serial line keeps, whatever is lost, and        *)
(* however often the script is stopped and run again.                       *)
EXTENDS SerialUpgrade

Chunks == Commands \cup {Train} \cup {Cmd("cut", FrameLength(c) - 1) : c \in Commands}

(* Types of the variables; a handshake is only ever alone on the line.      *)
LoaderType ==
    /\ slot \in [Sectors -> Content]
    /\ active_index \in 0 .. 1
    /\ pc \in {"window", "checked", "forever", "read", "erase", "write",
               "reset", "jump", "app"}
    /\ back \in {"window", "checked", "forever"}
    /\ iap_write_addr \in 0 .. Pages /\ err_cnt \in 0 .. 1 /\ to_cnt \in 0 .. 2

LineType ==
    /\ int_rx \in BOOLEAN /\ fifo \in {"", "hs", "other"} /\ shaking \in BOOLEAN
    /\ rx \in Seq(Chunks) /\ rx_len \in Nat /\ rx_index \in 0 .. 1
    /\ held \in Commands \cup {Cmd("none", 0)} /\ held_index \in 0 .. 1
    /\ torn \in BOOLEAN
    /\ to_device \in Seq(Commands \cup {Train}) /\ Len(to_device) <= 2
    /\ to_host \in Seq({"ok", "nack"})

HostType ==
    /\ hpc \in {"start", "handshake", "settle", "answer", "send"} \cup Ended
    /\ fw_data \in 1 .. Pages + 2 /\ runs \in 1 .. MaxRuns /\ fault \in BOOLEAN

TypeOK == LoaderType /\ LineType /\ HostType

(***************************************************************************)
(* When the script ends without an error the slot holds the firmware,      *)
(* whatever earlier runs of it left behind: a run never continues a        *)
(* session that another one began, even when it takes a late answer of     *)
(* that session for the device's part of the handshake.                    *)
(***************************************************************************)
DoneIsWhole == hpc = "done" => Whole(slot)

(***************************************************************************)
(* The command being executed is not written over by what the interrupt    *)
(* receives meanwhile, as when the script gave up waiting and is run again *)
(* while the device is still busy: there are two buffers.                  *)
(***************************************************************************)
CommandIntact == pc \in {"erase", "write", "reset"} => ~ torn

(***************************************************************************)
(* During the first run the bytes received fit in the buffer, which the    *)
(* frame of a page fills to the last byte.                                 *)
(***************************************************************************)
RxFits == runs = 1 => rx_len <= BFLB_EFLASH_LOADER_READBUF_SIZE

(* The two together: what arrives is neither lost on memory of others nor   *)
(* on the command before it.                                                *)
BufferInv == TypeOK /\ CommandIntact /\ RxFits

(***************************************************************************)
(* The first run does not fail unless something failed it: the power, the  *)
(* line, the flash or its user.  In particular a handshake the device did  *)
(* not need is not mistaken for the beginning of the first command.        *)
(***************************************************************************)
NoFalseFailure == runs = 1 /\ hpc = "exited" => fault

(***************************************************************************)
(* A device that has restarted with a bad image answers a host that shakes *)
(* hands with it, whatever the line left in the FIFO, unless it restarts   *)
(* again.                                                                  *)
(***************************************************************************)
HandshakeServed ==
    (pc = "forever" /\ ~ int_rx /\ ~ shaking /\ hpc = "handshake")
        ~> (hpc # "handshake" \/ pc = "window")
=============================================================================
