-------------------------------- MODULE HciRx ---------------------------------
(***************************************************************************)
(* What the controller receives on its way to the host's receive thread:   *)
(* bl_hci_wrapper.c and the places that drive it, the pool of receive      *)
(* buffers (hci_rx_pool) and recv_thread.                                  *)
(*                                                                         *)
(* The controller's task has the highest priority (ble.c:219): its handler *)
(* runs in one go whenever an interrupt can get through, or when the       *)
(* receive thread waits.  bl_trigger_queued_msg leaves its loop by break   *)
(* without irq_unlock, so that the receive thread, once it was there, runs *)
(* with its nesting count above zero and is not preempted any more.        *)
(*                                                                         *)
(* Simplifications:                                                        *)
(*  - answers to commands have a pool of their own and are left out;       *)
(*  - a loop over the queue that nothing interrupts goes turn by turn while *)
(*    everyone else waits, and the slot of a message handled at once is     *)
(*    empty before the nested call and not after it;                        *)
(*  - one connection; bt_recv returns (what it waits for, if anything,     *)
(*    comes with the answer to a command);                                 *)
(*  - the assertion that there is a slot ends the behaviour, as it ends    *)
(*    the program (or, compiled out, makes it write to NULL);              *)
(*  - bl_onchiphci_interface_deinit is called when the receive thread is   *)
(*    gone, before the jump to the firmware, and not modelled.             *)
(***************************************************************************)
EXTENDS Integers, FiniteSets, Sequences

CONSTANTS
    CONFIG_BT_RX_BUF_COUNT, CONFIG_BT_RX_BUF_RSV_COUNT, DATA_MSG_CNT,
    MaxPackets      \* bound on the packets the controller sends

ASSUME CountsAssumption ==
    /\ MaxPackets \in Nat
    /\ CONFIG_BT_RX_BUF_COUNT \in Nat \ {0} /\ DATA_MSG_CNT \in Nat \ {0}
    /\ CONFIG_BT_RX_BUF_RSV_COUNT \in 1 .. CONFIG_BT_RX_BUF_COUNT - 1

VARIABLES
    avail,      \* buffers in the pool: bt_buf_get_rx_avail_cnt
    recv_fifo,  \* packets in buffers, for the receive thread
    data_msg,   \* the slots of queued messages
    msg_queue,  \* numbers of the slots, in order
    rx,         \* conn->rx holds the buffer of an incomplete L2CAP packet
    cur,        \* what the receive thread took last
    owed,       \* buffers it is going to release for that
    msg,        \* the slot it is emptying
    leaked,     \* irq_lock without irq_unlock in the receive thread
    draining,   \* a loop over the queue is under way that nothing interrupts
    no_slot,    \* BT_ASSERT(rx_msg) failed
    pc,         \* where the receive thread is
    sent,       \* packets the controller has sent
    coming      \* those the host has not been given yet

pool   == <<avail, recv_fifo, data_msg, msg_queue>>
thread == <<rx, cur, owed, msg, leaked, pc>>
vars   == <<pool, thread, draining, no_slot, sent, coming>>

(* ACL data, events that go through recv_fifo, reports of advertisers, and  *)
(* the count of completed packets, which is handled where it is delivered   *)
Kinds == {"acl", "evt", "adv", "prio"}
Packet == [kind : Kinds, id : 1 .. MaxPackets]
EmptyMsg == [kind |-> "none", id |-> 0]
Slots == 1 .. DATA_MSG_CNT

Init ==
    /\ avail = CONFIG_BT_RX_BUF_COUNT /\ recv_fifo = <<>>
    /\ data_msg = [i \in Slots |-> EmptyMsg] /\ msg_queue = <<>>
    /\ rx = FALSE /\ cur = EmptyMsg /\ owed = 0 /\ msg = 1 /\ leaked = FALSE
    /\ draining = FALSE /\ no_slot = FALSE /\ pc = "get" /\ sent = 0 /\ coming = {}

-----------------------------------------------------------------------------
(* bl_trigger_queued_msg.  Messages leave the queue while more buffers are  *)
(* free than are reserved; one that is handled at once gives its buffer     *)
(* back, and releasing it makes the same call again.                        *)

(* Mistake: the reserve is given away. *)
Reserved_Below(n) == n < CONFIG_BT_RX_BUF_RSV_COUNT

Reserved(n) == n <= CONFIG_BT_RX_BUF_RSV_COUNT

NotPrio(p) == p.kind # "prio"

NothingGoes == msg_queue = <<>> \/ Reserved(avail)

(* what a turn of the loop does with the message at the head *)
HandOver ==
    LET p == data_msg[Head(msg_queue)] IN
    /\ msg_queue' = Tail(msg_queue)
    /\ IF NotPrio(p)
       THEN /\ recv_fifo' = Append(recv_fifo, p) /\ avail' = avail - 1
            /\ UNCHANGED coming
       ELSE coming' = coming \ {p} /\ UNCHANGED <<recv_fifo, avail>>

(* Mistake: the slot is not cleared. *)
EmptySlot_Kept(i) == data_msg

EmptySlot(i) == [data_msg EXCEPT ![i] = EmptyMsg]

(* The loop in the controller's task, or called again by the receive thread *)
(* while it holds the lock: until it ends, nobody else does anything.       *)
DrainTurn ==
    /\ draining /\ ~NothingGoes
    /\ HandOver /\ data_msg' = EmptySlot(Head(msg_queue))
    /\ UNCHANGED <<thread, draining, no_slot, sent>>

DrainEnds ==
    /\ draining /\ NothingGoes /\ draining' = FALSE
    /\ UNCHANGED <<pool, thread, no_slot, sent, coming>>

Drain == DrainTurn \/ DrainEnds

-----------------------------------------------------------------------------
(* bl_onchiphci_rx_packet_handler, in the controller's task *)

CanPreempt == pc \in {"get", "process"} \/ ~leaked

Arrives(p) ==
    /\ ~no_slot /\ ~draining /\ CanPreempt /\ sent < MaxPackets
    /\ p.id = sent + 1 /\ sent' = sent + 1
    /\ UNCHANGED thread

TakeBuffer(p) ==
    /\ avail' = avail - 1 /\ recv_fifo' = Append(recv_fifo, p)
    /\ coming' = coming \cup {p}
    /\ UNCHANGED <<data_msg, msg_queue, draining, no_slot>>

AdvReport(p) ==
    /\ p.kind = "adv" /\ Arrives(p)
    /\ IF Reserved(avail) THEN UNCHANGED <<pool, draining, no_slot, coming>>
                          ELSE TakeBuffer(p)

(* Mistake: data takes a buffer at once, like an event. *)
Direct_All(p) == TRUE

(* only events use the reserved buffers, and need not queue for them *)
Direct(p) == p.kind # "acl"

Event(p) ==
    /\ p.kind \in {"acl", "evt"} /\ Direct(p)
    /\ Arrives(p) /\ avail > 0 /\ TakeBuffer(p)

(* its buffer is released in the controller's task, which then looks at the *)
(* queue                                                                    *)
PrioEvent(p) ==
    /\ p.kind = "prio" /\ Arrives(p) /\ avail > 0
    /\ draining' = TRUE
    /\ UNCHANGED <<pool, no_slot, coming>>

EmptySlots == {i \in Slots : data_msg[i] = EmptyMsg}
FirstEmpty == CHOOSE i \in EmptySlots : \A j \in EmptySlots : i <= j

MustQueue(p) == p.kind # "adv" /\ (~Direct(p) \/ avail = 0)

(* Mistake: a message is queued and nobody looks at the queue. *)
Queue_NoTrigger(p) ==
    /\ MustQueue(p) /\ EmptySlots # {} /\ Arrives(p)
    /\ msg_queue' = Append(msg_queue, FirstEmpty)
    /\ data_msg' = [data_msg EXCEPT ![FirstEmpty] = p]
    /\ coming' = coming \cup {p}
    /\ UNCHANGED <<avail, recv_fifo, draining, no_slot>>

Queue(p) ==
    /\ MustQueue(p) /\ EmptySlots # {} /\ Arrives(p)
    /\ msg_queue' = Append(msg_queue, FirstEmpty)
    /\ data_msg' = [data_msg EXCEPT ![FirstEmpty] = p]
    /\ coming' = coming \cup {p} /\ draining' = TRUE
    /\ UNCHANGED <<avail, recv_fifo, no_slot>>

NoSlot(p) ==
    /\ MustQueue(p) /\ EmptySlots = {} /\ Arrives(p)
    /\ no_slot' = TRUE
    /\ UNCHANGED <<pool, draining, coming>>

Controller ==
    \E p \in Packet : AdvReport(p) \/ Event(p) \/ PrioEvent(p) \/ Queue(p) \/ NoSlot(p)

-----------------------------------------------------------------------------
(* recv_thread *)

MayRun == ~no_slot /\ ~draining

ThreadStep == MayRun /\ UNCHANGED <<draining, no_slot, sent>>

Get ==
    /\ pc = "get" /\ recv_fifo # <<>> /\ pc' = "process"
    /\ cur' = Head(recv_fifo) /\ recv_fifo' = Tail(recv_fifo)
    /\ UNCHANGED <<avail, data_msg, msg_queue, rx, owed, msg, leaked, coming>>
    /\ ThreadStep

(* bt_recv: an event releases its buffer, and that of an incomplete packet  *)
(* when the connection ends with it; data may begin, continue or complete a *)
(* packet, or be refused                                                    *)
Held(b) == IF b THEN 1 ELSE 0

Process ==
    /\ pc = "process" /\ pc' = "release"
    /\ rx' \in IF cur.kind = "acl" THEN BOOLEAN ELSE {rx, FALSE}
    /\ owed' = 1 + Held(rx) - Held(rx')
    /\ coming' = coming \ {cur}
    /\ UNCHANGED <<pool, cur, msg, leaked>> /\ ThreadStep

(* net_buf_unref *)
(* Mistake: released buffers are not offered to the queue. *)
AfterRelease_None == "release"

AfterRelease == "trigger"

Release ==
    /\ pc = "release" /\ owed > 0 /\ pc' = AfterRelease
    /\ avail' = avail + 1 /\ owed' = owed - 1
    /\ UNCHANGED <<recv_fifo, data_msg, msg_queue, rx, cur, msg, leaked, coming>>
    /\ ThreadStep

Released ==
    /\ pc = "release" /\ owed = 0 /\ pc' = "get"
    /\ UNCHANGED <<pool, rx, cur, owed, msg, leaked, coming>> /\ ThreadStep

Break ==
    /\ pc = "trigger" /\ NothingGoes /\ pc' = "release"
    /\ leaked' = TRUE
    /\ UNCHANGED <<pool, rx, cur, owed, msg, coming>> /\ ThreadStep

(* one turn of the loop, under the lock, up to irq_unlock; releasing the    *)
(* buffer of a message that is handled at once calls the loop again         *)
Deliver ==
    /\ pc = "trigger" /\ ~NothingGoes /\ pc' = "empty"
    /\ HandOver /\ msg' = Head(msg_queue)
    /\ draining' = ~NotPrio(data_msg[msg']) /\ leaked' = (leaked \/ draining')
    /\ UNCHANGED <<data_msg, rx, cur, owed>>
    /\ MayRun /\ UNCHANGED <<no_slot, sent>>

Empty ==
    /\ pc = "empty" /\ pc' = "trigger"
    /\ data_msg' = EmptySlot(msg)
    /\ UNCHANGED <<avail, recv_fifo, msg_queue, rx, cur, owed, msg, leaked, coming>>
    /\ ThreadStep

RecvThread == Get \/ Process \/ Release \/ Released \/ Break \/ Deliver \/ Empty

Next == Controller \/ RecvThread \/ Drain

Spec == Init /\ [][Next]_vars

(* The thread runs whenever the controller's task sleeps, which it does     *)
(* when it has nothing to do; a loop that is under way goes on.             *)
FairSpec == Spec /\ WF_vars(RecvThread \/ Drain)
=============================================================================
