------------------------------ MODULE HciRxProps ------------------------------
EXTENDS HciRx

ToSet(s) == {s[i] : i \in DOMAIN s}
Messages(q, data) == [i \in DOMAIN q |-> data[q[i]]]

(* what the messages queued and the buffers hold, in the order of delivery *)
InHand == IF pc = "process" THEN <<cur>> ELSE <<>>
OnTheWay == InHand \o recv_fifo \o Messages(msg_queue, data_msg)

TypeOK ==
    /\ avail \in 0 .. CONFIG_BT_RX_BUF_COUNT
    /\ recv_fifo \in Seq(Packet) /\ msg_queue \in Seq(Slots)
    /\ data_msg \in [Slots -> Packet \cup {EmptyMsg}]
    /\ {rx, leaked, draining, no_slot} \subseteq BOOLEAN
    /\ cur \in Packet \cup {EmptyMsg} /\ owed \in 0 .. 2 /\ msg \in Slots
    /\ pc \in {"get", "process", "release", "trigger", "empty"}
    /\ sent \in 0 .. MaxPackets /\ coming \subseteq Packet

(* Whatever was accepted reaches bt_recv once, and data in the order the     *)
(* controller received it: handler, receive thread and nested calls share    *)
(* the queue (bl_hci_wrapper.c:211-245).  Events may overtake.               *)
PacketsKept ==
    /\ ToSet(OnTheWay) = coming /\ Len(OnTheWay) = Cardinality(coming)
    /\ \A i, j \in DOMAIN OnTheWay :
         i < j /\ OnTheWay[i].kind = "acl" /\ OnTheWay[j].kind = "acl"
           => OnTheWay[i].id < OnTheWay[j].id

(* A slot is in use while its message is queued or being emptied, and in     *)
(* use for one message: bl_find_valid_data_msg looks at contents alone.      *)
SlotsExact ==
    /\ TypeOK
    /\ Cardinality(ToSet(msg_queue)) = Len(msg_queue)
    /\ Slots \ EmptySlots = ToSet(msg_queue) \cup (IF pc = "empty" THEN {msg} ELSE {})
    /\ pc = "empty" => msg \notin ToSet(msg_queue)

(* The reserve is for events (config.h:119): data and reports of            *)
(* advertisers, waiting or in the host's hands, leave it alone.              *)
IsEvent(p) == p.kind = "evt"
EventsReceived == Cardinality({i \in DOMAIN recv_fifo : IsEvent(recv_fifo[i])})
EventHeld == IF IsEvent(cur) /\ (pc = "process" \/ owed > 0) THEN 1 ELSE 0
ReserveKept ==
    CONFIG_BT_RX_BUF_COUNT - avail - EventsReceived - EventHeld
        <= CONFIG_BT_RX_BUF_COUNT - CONFIG_BT_RX_BUF_RSV_COUNT

(* No wakeup is lost: a message that may leave the queue has somebody at    *)
(* work on the queue; and while the receive thread sleeps (net_buf_get,     *)
(* hci_driver.c:343) nothing the host was given still waits, whatever       *)
(* buffer an incomplete L2CAP packet holds.                                 *)
Asleep == ~draining /\ pc = "get" /\ recv_fifo = <<>>
Served ==
    /\ NothingGoes \/ draining \/ pc \in {"trigger", "empty"}
    /\ Asleep => coming = {}

(* What waits for a buffer gets one: the call on every release              *)
(* (buf.c:710) and after every queuing is enough, whatever is interrupted.  *)
Delivered(n) == \A p \in coming : p.id # n
AllDelivered ==
    \A n \in 1 .. MaxPackets : sent >= n ~> Delivered(n) \/ no_slot
=============================================================================
