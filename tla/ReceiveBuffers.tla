---------------------------- MODULE ReceiveBuffers ----------------------------
(***************************************************************************)
(* Both transports of the loader at once, and the life of the two receive  *)
(* buffers they share: main_task polls for sessions and reads commands, the *)
(* task of the Bluetooth stack calls back, the UART's interrupt fills what  *)
(* g_eflash_loader_readbuf points at, and all allocate from one heap.      *)
(*                                                                         *)
(* The Bluetooth task has a lower priority than main_task (config.h:70,    *)
(* main.c:697): it runs while main_task sleeps, and main_task may wake up  *)
(* between any two of its steps.  The interrupt comes at any moment.       *)
(*                                                                         *)
(* Simplifications:                                                        *)
(*  - what a command does is left to BleUpgrade and SerialUpgrade; here it  *)
(*    is read from the buffer, executed and answered;                      *)
(*  - bflb_eflash_loader_if_set stores its fields in one step;             *)
(*  - the contents of a buffer may look like anything: what is in it counts *)
(*    as a command, or does not;                                           *)
(*  - the model ends, but for a restart, when memory that does not belong   *)
(*    to the loader is written (wild), and for the Bluetooth task when it   *)
(*    frees what is not allocated: the assertion holds it for ever, or, if  *)
(*    received bytes happen to look like a header, the list is destroyed.  *)
(***************************************************************************)
EXTENDS Heap5, FiniteSets

CONSTANTS
    BFLB_EFLASH_LOADER_READBUF_SIZE, BFLB_EFLASH_LOADER_BLE_READBUF_SIZE,
    BFLB_BOOT2_READBUF_SIZE,
    StartupSizes,   \* memory the stack's tasks and pools may take when they start
    MessageSizes,   \* sizes of the HCI messages the controller queues
    MaxMessages,    \* bound on those queued at a time
    Frame, Part,    \* lengths of a command and of the first piece of one
    MaxConns        \* bound on the connections between two restarts

(* The heap is large enough for what is allocated before the loader's turn, *)
(* and the receive buffers for the header of a command.                     *)
ASSUME BuffersAssumption ==
    /\ MessageSizes \subseteq Nat /\ StartupSizes \subseteq Nat
    /\ Part \in Nat /\ Frame \in Nat /\ Part <= Frame /\ MaxConns \in Nat
    /\ BFLB_EFLASH_LOADER_READBUF_SIZE >= 4 /\ BFLB_EFLASH_LOADER_BLE_READBUF_SIZE >= 4
    /\ {BFLB_EFLASH_LOADER_READBUF_SIZE, BFLB_EFLASH_LOADER_BLE_READBUF_SIZE,
        BFLB_BOOT2_READBUF_SIZE} \subseteq Nat
    /\ \A n \in StartupSizes :
         /\ CanMalloc(DefineHeapRegions, n)
         /\ CanMalloc(Malloc(DefineHeapRegions, n), BFLB_BOOT2_READBUF_SIZE)

VARIABLES
    heap,
    mine,       \* pointers the loader got from pvPortMalloc and has not freed
    messages,   \* pointers of queued HCI messages
    readbuf,    \* g_eflash_loader_readbuf
    rx_index, rx_len, \* g_rx_buf_index, g_rx_buf_len
    rcv,        \* is_rcv_msg
    int_rx,     \* the UART's interrupt is enabled: there was a handshake
    wild,       \* memory of someone else was written
    conn,       \* ble_bl_conn # NULL
    conns,      \* connections since the restart
    ble_pc,     \* where the Bluetooth task is in a callback
    if_type,    \* eflash_loader_if_cfg
    pc,         \* where main_task is
    window,     \* it has not given up booting yet
    buf,        \* the buffer it reads from
    to_cnt

memory == <<heap, mine, messages>>
rx     == <<rx_index, rx_len, rcv, wild>>
ble    == <<conn, conns, ble_pc>>
main   == <<pc, window, buf, to_cnt>>
vars   == <<memory, readbuf, rx, int_rx, ble, if_type, main>>

(* n bytes at p lie in one block of the loader *)
Owned(p, n) ==
    \E b \in heap.used :
        Payload(b) \in mine /\ Payload(b) <= p /\ p + n <= End(b)

(* A command arrives whole or in two pieces; a first piece comes first.  How *)
(* many come before main_task takes them is up to the peer.                 *)
Pieces == {n \in {Frame, Frame - Part, Part} : n = Part => rx_len = 0}

-----------------------------------------------------------------------------
(* main_task has started the stack, which allocates its tasks and pools,    *)
(* and taken a buffer for itself.                                           *)
Started(h) == Malloc(h, BFLB_BOOT2_READBUF_SIZE)

Init ==
    /\ \E n \in StartupSizes : heap = Started(Malloc(DefineHeapRegions, n))
    /\ mine = {} /\ messages = {}
    /\ readbuf = [i \in 0 .. 1 |-> NULL]
    /\ rx_index = 0 /\ rx_len = 0 /\ rcv = FALSE /\ int_rx = FALSE /\ wild = FALSE
    /\ conn = FALSE /\ conns = 0 /\ ble_pc = "idle"
    /\ if_type = "uart"
    /\ pc = "poll" /\ window = TRUE /\ buf = NULL /\ to_cnt = 0

-----------------------------------------------------------------------------
(* main_task *)

(* Mistake: one buffer for both indices.                                    *)
AllocatePair_One ==
    IF CanMalloc(heap, BFLB_EFLASH_LOADER_READBUF_SIZE)
    THEN /\ heap' = Malloc(heap, BFLB_EFLASH_LOADER_READBUF_SIZE)
         /\ readbuf' = [readbuf EXCEPT ![0] = Malloced(heap, BFLB_EFLASH_LOADER_READBUF_SIZE)]
         /\ mine' = mine \cup {readbuf'[0]}
         /\ pc' = "read"
    ELSE /\ pc' = "no_memory"
         /\ UNCHANGED <<heap, mine, readbuf>>

(* bflb_eflash_loader_uart_handshake_poll sees a handshake: the buffers are *)
(* allocated if there is none, and the interrupt is enabled.  Without       *)
(* memory the hook of pvPortMalloc never returns.                           *)
AllocatePair ==
    LET size == BFLB_EFLASH_LOADER_READBUF_SIZE
        h1   == Malloc(heap, size)
    IN IF CanMalloc(heap, size) /\ CanMalloc(h1, size)
       THEN /\ heap' = Malloc(h1, size)
            /\ readbuf' = [i \in 0 .. 1 |->
                             IF i = 0 THEN Malloced(heap, size) ELSE Malloced(h1, size)]
            /\ mine' = mine \cup {readbuf'[0], readbuf'[1]}
            /\ pc' = "read"
       ELSE /\ pc' = "no_memory"
            /\ UNCHANGED <<heap, mine, readbuf>>

(* Mistake: every handshake allocates.                                      *)
NeedsPair_Always == TRUE

NeedsPair == readbuf[0] = NULL

Handshake ==
    /\ pc = "poll" /\ if_type = "uart"
    /\ rx_index' = 0 /\ rx_len' = 0 /\ int_rx' = TRUE
    /\ \/ NeedsPair /\ AllocatePair
       \/ ~NeedsPair /\ pc' = "read" /\ UNCHANGED <<heap, mine, readbuf>>
    /\ UNCHANGED <<messages, rcv, wild, ble, if_type, window, buf, to_cnt>>

PollBle ==
    /\ pc = "poll" /\ if_type = "ble" /\ conn
    /\ pc' = "read"
    /\ UNCHANGED <<memory, readbuf, rx, int_rx, ble, if_type, window, buf, to_cnt>>

(* The time for sessions is over.  The image is started, or there is none   *)
(* and sessions are offered over the serial line (blsp_boot2_on_error, and  *)
(* the end of main_task).                                                   *)
GiveUpWaiting ==
    /\ pc = "poll" /\ window
    /\ window' = FALSE
    /\ \/ pc' = "left" /\ UNCHANGED if_type
       \/ if_type' = "uart" /\ UNCHANGED pc
    /\ UNCHANGED <<memory, readbuf, rx, int_rx, ble, buf, to_cnt>>

(* A read that yields nothing; the second one ends the session.             *)
CountTimeout ==
    /\ buf' = NULL
    /\ IF to_cnt = 1 THEN to_cnt' = 0 /\ pc' = "poll" ELSE to_cnt' = 1 /\ pc' = "read"

ReadUart ==
    /\ pc = "read" /\ if_type = "uart"
    /\ buf' = readbuf[rx_index]
    /\ pc' = "wait_uart"
    /\ UNCHANGED <<memory, readbuf, rx, int_rx, ble, if_type, window, to_cnt>>

ReadBle ==
    /\ pc = "read" /\ if_type = "ble"
    /\ IF conn THEN pc' = "wait_ble" /\ UNCHANGED <<buf, to_cnt>> ELSE CountTimeout
    /\ UNCHANGED <<memory, readbuf, rx, int_rx, ble, if_type, window>>

(* buf[2] and buf[3], wherever buf points, give the length of the command.  *)
LooksWhole == rx_len >= 4

(* A command too long for a serial buffer counts as none.                   *)
TakeUart ==
    /\ pc = "wait_uart" /\ LooksWhole
    /\ rx_index' = 1 - rx_index /\ rx_len' = 0
    /\ IF rx_len <= BFLB_EFLASH_LOADER_READBUF_SIZE
       THEN pc' = "exec" /\ UNCHANGED <<buf, to_cnt>>
       ELSE CountTimeout
    /\ UNCHANGED <<memory, readbuf, rcv, wild, int_rx, ble, if_type, window>>

TakeBle ==
    /\ pc = "wait_ble" /\ rcv
    /\ rx_len' = 0 /\ rcv' = FALSE
    /\ buf' = readbuf[0]
    /\ pc' = "exec"
    /\ UNCHANGED <<memory, readbuf, rx_index, wild, int_rx, ble, if_type, window, to_cnt>>

TimeOut ==
    /\ pc = "wait_uart" \/ (pc = "wait_ble" /\ ~rcv)
    /\ CountTimeout
    /\ UNCHANGED <<memory, readbuf, rx, int_rx, ble, if_type, window>>

(* The command in buf is carried out.  The third failure ends the session.  *)
Execute ==
    /\ pc = "exec"
    /\ pc' \in {"ack", "poll"} /\ to_cnt' = 0 /\ buf' = NULL
    /\ UNCHANGED <<memory, readbuf, rx, int_rx, ble, if_type, window>>

Ack ==
    /\ pc = "ack"
    /\ pc' = "read"
    /\ UNCHANGED <<memory, readbuf, rx, int_rx, ble, if_type, window, buf, to_cnt>>

-----------------------------------------------------------------------------
(* The UART's interrupt: uart0_irq_callback.  There is no bound on what it  *)
(* appends.                                                                 *)
SerialBytes ==
    /\ int_rx /\ pc \notin {"left", "no_memory"}
    /\ \E n \in Pieces :
        /\ rx_len' = rx_len + n
        /\ wild' = ~Owned(readbuf[rx_index] + rx_len, n)
    /\ UNCHANGED <<memory, readbuf, rx_index, rcv, int_rx, ble, if_type, main>>

-----------------------------------------------------------------------------
(* The task of the Bluetooth stack.  Notifying may block main_task too.     *)
Asleep == pc \in {"poll", "wait_uart", "wait_ble"} \/ (pc = "ack" /\ if_type = "ble")

Connected ==
    /\ ble_pc = "idle" /\ ~conn /\ conns < MaxConns
    /\ conn' = TRUE /\ conns' = conns + 1
    /\ ble_pc' = "connected"
    /\ UNCHANGED <<memory, readbuf, rx, int_rx, if_type, main>>

FreeBuffer(i, next) ==
    IF FreeAsserts(heap, readbuf[i])
    THEN ble_pc' = "bad_free" /\ UNCHANGED <<heap, mine>>
    ELSE /\ heap' = Free(heap, readbuf[i])
         /\ mine' = mine \ {readbuf[i]}
         /\ ble_pc' = next

(* One of these steps is one statement of bl_connected.                     *)
TestBuffer ==
    /\ ble_pc = "connected" /\ readbuf[0] = NULL
    /\ ble_pc' = "allocate"
    /\ UNCHANGED <<memory, readbuf, rx, int_rx, conn, conns, if_type, main>>

FreeFirst ==
    /\ ble_pc = "connected" /\ readbuf[0] # NULL
    /\ FreeBuffer(0, "free")
    /\ UNCHANGED <<messages, readbuf, rx, int_rx, conn, conns, if_type, main>>

FreeSecond ==
    /\ ble_pc = "free"
    /\ FreeBuffer(1, "allocate")
    /\ UNCHANGED <<messages, readbuf, rx, int_rx, conn, conns, if_type, main>>

AllocateBle ==
    /\ ble_pc = "allocate"
    /\ LET size == BFLB_EFLASH_LOADER_BLE_READBUF_SIZE
       IN IF CanMalloc(heap, size)
          THEN /\ heap' = Malloc(heap, size)
               /\ readbuf' = [readbuf EXCEPT ![0] = Malloced(heap, size)]
               /\ mine' = mine \cup {Malloced(heap, size)}
               /\ ble_pc' = "use_ble"
          ELSE /\ ble_pc' = "no_memory"
               /\ UNCHANGED <<heap, mine, readbuf>>
    /\ UNCHANGED <<messages, rx, int_rx, conn, conns, if_type, main>>

(* Mistake: the interface is not switched.                                  *)
UseBle_Forgotten ==
    /\ ble_pc = "use_ble"
    /\ ble_pc' = "idle"
    /\ UNCHANGED <<memory, readbuf, rx, int_rx, conn, conns, if_type, main>>

UseBle ==
    /\ ble_pc = "use_ble"
    /\ if_type' = "ble" /\ ble_pc' = "idle"
    /\ UNCHANGED <<memory, readbuf, rx, int_rx, conn, conns, main>>

(* ble_blf_recv: the last part of a command, or one before it.  The count   *)
(* is looked at before the write alone.                                     *)
BleReceive ==
    /\ ble_pc = "idle" /\ conn
    /\ LET at == IF rx_len >= BFLB_EFLASH_LOADER_BLE_READBUF_SIZE THEN 0 ELSE rx_len
       IN \E n \in Pieces :
            /\ rx_len' = at + n
            /\ wild' = ~Owned(readbuf[0] + at, n)
            /\ rcv' = (n # Part \/ rcv)
    /\ UNCHANGED <<memory, readbuf, rx_index, int_rx, ble, if_type, main>>

(* Mistake: the test in bl_disconnected turned around, the pointer kept.    *)
Disconnected_Frees ==
    /\ ble_pc = "idle" /\ conn
    /\ conn' = FALSE
    /\ FreeBuffer(0, "use_uart")
    /\ UNCHANGED <<messages, readbuf, rx, int_rx, conns, if_type, main>>

(* bl_disconnected frees the buffer if there is none.                       *)
Disconnected ==
    /\ ble_pc = "idle" /\ conn
    /\ conn' = FALSE /\ ble_pc' = "use_uart"
    /\ UNCHANGED <<memory, readbuf, rx, int_rx, conns, if_type, main>>

UseUart ==
    /\ ble_pc = "use_uart"
    /\ if_type' = "uart" /\ ble_pc' = "idle"
    /\ UNCHANGED <<memory, readbuf, rx, int_rx, conn, conns, main>>

(* The stack frees a message when it has handled it.                        *)
HandleMessage ==
    /\ \E p \in messages :
        IF FreeAsserts(heap, p)
        THEN ble_pc' = "bad_free" /\ UNCHANGED <<heap, messages>>
        ELSE /\ heap' = Free(heap, p)
             /\ messages' = messages \ {p}
             /\ UNCHANGED ble_pc
    /\ UNCHANGED <<mine, readbuf, rx, int_rx, conn, conns, if_type, main>>

BleTask ==
    \/ TestBuffer \/ FreeFirst \/ FreeSecond \/ AllocateBle \/ UseBle \/ UseUart

(* The controller's task, of the highest priority, copies a message.        *)
Message ==
    /\ pc \notin {"left", "no_memory"} /\ Cardinality(messages) < MaxMessages
    /\ \E n \in MessageSizes :
        IF CanMalloc(heap, n)
        THEN /\ heap' = Malloc(heap, n)
             /\ messages' = messages \cup {Malloced(heap, n)}
             /\ UNCHANGED pc
        ELSE /\ pc' = "no_memory"
             /\ UNCHANGED <<heap, messages>>
    /\ UNCHANGED <<mine, readbuf, rx, int_rx, ble, if_type, window, buf, to_cnt>>

-----------------------------------------------------------------------------
Restart ==
    /\ \E n \in StartupSizes : heap' = Started(Malloc(DefineHeapRegions, n))
    /\ mine' = {} /\ messages' = {}
    /\ readbuf' = [i \in 0 .. 1 |-> NULL]
    /\ rx_index' = 0 /\ rx_len' = 0 /\ rcv' = FALSE /\ int_rx' = FALSE /\ wild' = FALSE
    /\ conn' = FALSE /\ conns' = 0 /\ ble_pc' = "idle"
    /\ if_type' = "uart"
    /\ pc' = "poll" /\ window' = TRUE /\ buf' = NULL /\ to_cnt' = 0

MainTask ==
    \/ PollBle \/ GiveUpWaiting \/ ReadUart \/ ReadBle \/ TakeUart \/ TakeBle
    \/ TimeOut \/ Execute \/ Ack

Next ==
    \/ ~wild /\ MainTask
    \/ ~wild /\ Handshake
    \/ ~wild /\ SerialBytes
    \/ ~wild /\ Asleep /\ BleTask
    \/ ~wild /\ Asleep /\ (Connected \/ BleReceive \/ Disconnected \/ HandleMessage)
    \/ ~wild /\ Message
    \/ Restart

Fairness ==
    /\ WF_vars(~wild /\ MainTask)
    /\ SF_vars(~wild /\ Asleep /\ BleTask)

Spec == Init /\ [][Next]_vars /\ Fairness
=============================================================================
