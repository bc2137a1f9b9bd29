-------------------------------- MODULE Heap5 ---------------------------------
(***************************************************************************)
(* FreeRTOS's heap_5 with one region, as the bootloader configures it.     *)
(* Each operator returns the heap its function leaves; the functions run   *)
(* with the scheduler suspended, so that a caller's step is one of these.  *)
(*                                                                         *)
(* A block [at, size] begins with its header, whose pointer chains the     *)
(* free blocks in the order of their addresses and whose top bit tells the *)
(* used ones apart: here they are two sets.  The region begins at 0, and   *)
(* pxEnd stands at HeapSize; pointers are relative to the region, and NULL *)
(* is below it.                                                            *)
(***************************************************************************)
EXTENDS Integers

CONSTANTS
    HeapSize,        \* bytes from the first block to pxEnd
    xHeapStructSize, \* a block's header
    TopBit           \* xBlockAllocatedBit

ASSUME HeapAssumption ==
    /\ HeapSize \in Nat \ {0} /\ HeapSize % 8 = 0
    /\ xHeapStructSize = 8
    /\ TopBit \in Nat

NULL == -1

heapMINIMUM_BLOCK_SIZE == 2 * xHeapStructSize

Block == [at : 0 .. HeapSize, size : 1 .. HeapSize]
Heap  == [free : SUBSET Block, used : SUBSET Block, left : 0 .. HeapSize]

End(b)     == b.at + b.size
Payload(b) == b.at + xHeapStructSize

(* vPortDefineHeapRegions *)
DefineHeapRegions ==
    [free |-> {[at |-> 0, size |-> HeapSize]}, used |-> {}, left |-> HeapSize]

(* Mistake: only the block in front is joined.                              *)
After_Missed(free, b) == {}

(* prvInsertBlockIntoFreeList: b is joined with the free blocks that end    *)
(* where it begins and begin where it ends.                                 *)
Before(free, b) == {c \in free : End(c) = b.at}
After(free, b)  == {c \in free : c.at = End(b)}

JoinedAt(free, b) ==
    IF Before(free, b) = {} THEN b.at ELSE (CHOOSE c \in Before(free, b) : TRUE).at
JoinedEnd(free, b) ==
    IF After(free, b) = {} THEN End(b) ELSE End(CHOOSE c \in After(free, b) : TRUE)

InsertBlock(free, b) ==
    (free \ (Before(free, b) \cup After(free, b))) \cup
        {[at |-> JoinedAt(free, b), size |-> JoinedEnd(free, b) - JoinedAt(free, b)]}

(* pvPortMalloc: the request with its header, rounded up to the alignment;  *)
(* first fit; what remains is split off if it is worth a block.             *)
Wanted(n) == ((n + xHeapStructSize + 7) \div 8) * 8

Fitting(h, n) == {b \in h.free : b.size >= Wanted(n)}

CanMalloc(h, n) ==
    /\ n > 0 /\ n < TopBit
    /\ Wanted(n) <= h.left
    /\ Fitting(h, n) # {}

FirstFit(h, n) ==
    CHOOSE b \in Fitting(h, n) : \A c \in Fitting(h, n) : b.at <= c.at

(* Mistake: a remainder of any size is split off.                           *)
IsSplit_Any(h, n) == TRUE

IsSplit(h, n) == FirstFit(h, n).size - Wanted(n) > heapMINIMUM_BLOCK_SIZE

Taken(h, n) ==
    [FirstFit(h, n) EXCEPT !.size = IF IsSplit(h, n) THEN Wanted(n) ELSE @]

Rest(h, n) ==
    [at |-> FirstFit(h, n).at + Wanted(n), size |-> FirstFit(h, n).size - Wanted(n)]

Malloc(h, n) ==
    LET others == h.free \ {FirstFit(h, n)}
    IN [free |-> IF IsSplit(h, n) THEN InsertBlock(others, Rest(h, n)) ELSE others,
        used |-> h.used \cup {Taken(h, n)},
        left |-> h.left - Taken(h, n).size]

Malloced(h, n) == Payload(Taken(h, n))

(* vPortFree.  NULL is ignored; of any other pointer the header in front of *)
(* it is asserted to be that of a used block.                               *)
BlockOf(h, p) == {b \in h.used : Payload(b) = p}

FreeAsserts(h, p) == p # NULL /\ BlockOf(h, p) = {}

Free(h, p) ==
    IF p = NULL THEN h
    ELSE LET b == CHOOSE c \in BlockOf(h, p) : TRUE
         IN [free |-> InsertBlock(h.free, b),
             used |-> h.used \ {b},
             left |-> h.left + b.size]

-----------------------------------------------------------------------------
Blocks(h) == h.free \cup h.used

(* No byte belongs to two blocks, free or used ...                          *)
NoOverlap(h) ==
    /\ h.free \cap h.used = {}
    /\ \A b, c \in Blocks(h) : b = c \/ End(b) <= c.at \/ End(c) <= b.at

(* ... every byte belongs to one: blocks follow each other from the first   *)
(* byte to pxEnd ...                                                        *)
NothingLost(h) ==
    /\ \E b \in Blocks(h) : b.at = 0
    /\ \A b \in Blocks(h) : End(b) = HeapSize \/ \E c \in Blocks(h) : c.at = End(b)

(* ... and no free block follows another, so that memory that is free in    *)
(* one piece can be allocated in one piece.                                 *)
Coalesced(h) == \A b, c \in h.free : End(b) # c.at

HeapOK(h) ==
    /\ NoOverlap(h) /\ NothingLost(h) /\ Coalesced(h)
    /\ \A b \in Blocks(h) : b.at % 8 = 0 /\ b.size % 8 = 0 /\ End(b) <= HeapSize
=============================================================================
