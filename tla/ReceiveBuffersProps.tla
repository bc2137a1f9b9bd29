------------------------- MODULE ReceiveBuffersProps --------------------------
EXTENDS ReceiveBuffers, FiniteSetsExt

Pointers == {NULL} \cup 0 .. HeapSize

TypeOK ==
    /\ heap \in Heap
    /\ mine \subseteq Pointers \ {NULL} /\ messages \subseteq Pointers \ {NULL}
    /\ readbuf \in [0 .. 1 -> Pointers] /\ buf \in Pointers
    /\ rx_index \in 0 .. 1 /\ rx_len \in Nat
    /\ {rcv, int_rx, wild, conn, window} \subseteq BOOLEAN
    /\ conns \in 0 .. MaxConns /\ to_cnt \in 0 .. 1
    /\ ble_pc \in {"idle", "connected", "free", "allocate", "use_ble", "use_uart",
                   "bad_free", "no_memory"}
    /\ if_type \in {"uart", "ble"}
    /\ pc \in {"poll", "read", "wait_uart", "wait_ble", "exec", "ack", "left", "no_memory"}

(* xFreeBytesRemaining, which pvPortMalloc trusts before it searches, is     *)
(* what the free blocks add up to (heap_5.c:165).                            *)
LeftExact == heap.left = MapThenSumSet(LAMBDA b : b.size, heap.free)

BufferInv == TypeOK /\ LeftExact

(* The heap stays a heap whatever is allocated and freed in whatever order:  *)
(* blocks tile it without overlap, and no two free ones lie side by side,    *)
(* the point of prvInsertBlockIntoFreeList (heap_5.c:305).                   *)
HeapConsistent == HeapOK(heap)

(* A serial session leaves a second pointer that nobody sets again; from the  *)
(* second connection on bl_connected frees what it points at, which may by    *)
(* then be a message's.                                                       *)
SecondConnection == int_rx /\ conns >= 2

(* Until then whoever was given memory still has it: no dangling buffer       *)
(* pointer is freed, by any interleaving of bl_connected with a handshake and *)
(* the messages; and between bl_connected and bl_disconnected the buffer      *)
(* Bluetooth writes to is the loader's and of the size its callback assumes,  *)
(* whatever a serial session did before or does meanwhile.                    *)
NobodysElse ==
    ~SecondConnection =>
        /\ \A p \in mine \cup messages : BlockOf(heap, p) # {}
        /\ conn /\ ble_pc = "idle" =>
               Owned(readbuf[0], BFLB_EFLASH_LOADER_BLE_READBUF_SIZE)

(* As long as one of the two links is used, each write goes into a buffer of *)
(* the loader, whole and of the size its link assumes, however often peers    *)
(* come and go: nothing is written past one but what is too long for it.     *)
(* Neither callback has a bound of its own; that a buffer is not Overrun is  *)
(* up to the peer, and BufferInv of BleUpgrade and SerialUpgrade is about    *)
(* the peer there is.  The command being executed is in memory of the loader *)
(* as well.  That is not so from a second connection on: what the first one  *)
(* left may be taken for a command while bl_connected replaces the buffer it *)
(* is read from.  A serial session and one connection after it do no harm to *)
(* the heap: it takes a second connection to free a buffer twice.            *)
Overrun ==
    rx_len > IF conns = 0 THEN BFLB_EFLASH_LOADER_READBUF_SIZE
             ELSE BFLB_EFLASH_LOADER_BLE_READBUF_SIZE

OneLinkIsSafe ==
    /\ ~int_rx \/ conns = 0 =>
        /\ wild => Overrun
        /\ pc = "exec" /\ conns <= 1 => Owned(buf, 4)
    /\ ble_pc = "bad_free" => int_rx /\ conns >= 2

(* bl_connected looks at the buffer and allocates one while main_task may    *)
(* allocate its pair: a buffer is then lost, but not more than one.          *)
AtMostOneLost == Cardinality(mine \ {readbuf[0], readbuf[1]}) <= 1

(* While main_task waits for sessions, a peer that connects and stays is     *)
(* served in the end, even if a serial session was on: unless the memory is  *)
(* spoilt or spent.                                                          *)
Broken == wild \/ ble_pc \in {"bad_free", "no_memory"} \/ pc = "no_memory"

ConnectionServed == conn ~> (pc = "wait_ble" \/ ~conn \/ ~window \/ Broken)

-----------------------------------------------------------------------------
(* What heap_5.c:264 asserts of every pointer that is freed, and what        *)
(* bl_connected does not keep to.                                            *)
FreedIsAllocated == ble_pc # "bad_free"
=============================================================================
