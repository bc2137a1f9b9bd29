----------------------------- MODULE SFlash_proofs -----------------------------
(***************************************************************************)
(* What is proved of flash_erase and flash_write with the real sizes of    *)
(* sectors, blocks and pages, for a flash of any size.  The sizes are      *)
(* literals because the provers know \div and % by a literal only.         *)
(***************************************************************************)
EXTENDS SFlashProps, TLAPS

RealSizes ==
    /\ SectorSize = 4096 /\ PageSize = 256
    /\ BFLB_SPIFLASH_BLK32K_SIZE = 32768 /\ BFLB_SPIFLASH_BLK64K_SIZE = 65536

-----------------------------------------------------------------------------
(* The loop of an erase stands at the first byte asked for, or behind the   *)
(* sector it has just erased.                                               *)
EraseLoop ==
    op = "erase" =>
        /\ \/ startaddr = request /\ done = {}
           \/ /\ startaddr % SectorSize = 0
              /\ Sector(request) < Sector(startaddr)
              /\ done = Sector(request) .. Sector(startaddr) - 1
        /\ result = "ok" => startaddr > endaddr

IInv == TypeOK /\ EraseLoop /\ ProgramExact

(* Erasing the sectors of len bytes from the aligned address a on, when     *)
(* what was erased before ends there, leaves the loop in place.             *)
LEMMA EraseStep ==
    ASSUME RealSizes, TypeOK, EraseLoop, op = "erase", startaddr <= endaddr,
           NEW a \in Nat, NEW len \in {4096, 32768, 65536},
           a % 4096 = 0,
           Sector(a) = Sector(startaddr),
           a + len <= endaddr + 4096,
           Erase(a, len)
    PROVE  TypeOK' /\ EraseLoop'
<1>1. /\ startaddr' = a + len /\ done' = done \cup (Sector(a) .. Sector(a + len) - 1)
      /\ UNCHANGED <<has64, has32, op, request, endaddr>>
      /\ result' \in {"running", "error"}
  BY DEF Erase, Sent, chip
<1>2. /\ SectorSize = 4096
      /\ request \in Nat /\ endaddr \in Nat /\ startaddr \in Nat
      /\ done \subseteq Nat
  BY DEF TypeOK, RealSizes
<1>3. /\ Sector(a + len) \in Nat /\ Sector(a) \in Nat /\ Sector(request) \in Nat
      /\ Sector(a) < Sector(a + len)
      /\ (a + len) % 4096 = 0
  BY <1>2, SMT DEF Sector
<1>4. /\ Sector(request) <= Sector(a)
      /\ done' = Sector(request) .. Sector(a + len) - 1
  <2>1. CASE startaddr = request /\ done = {}
    BY <1>1, <2>1, <1>3
  <2>2. CASE /\ Sector(request) < Sector(startaddr)
             /\ done = Sector(request) .. Sector(startaddr) - 1
    <3> DEFINE p == Sector(request)
               q == Sector(a)
               r == Sector(a + len)
    <3>1. p \in Nat /\ q \in Nat /\ r \in Nat /\ p < q /\ q < r
      BY <1>3, <2>2
    <3>2. done' = (p .. q - 1) \cup (q .. r - 1)
      BY <1>1, <2>2
    <3> HIDE DEF p, q, r
    <3>3. (p .. q - 1) \cup (q .. r - 1) = p .. r - 1
      BY <3>1, SMT
    <3> QED BY <3>1, <3>2, <3>3 DEF p, q, r
  <2> QED BY <2>1, <2>2 DEF EraseLoop
<1>5. EraseLoop'
  BY <1>1, <1>2, <1>3, <1>4 DEF EraseLoop, Sector
<1>6. request <= a + len
  BY <1>2, <1>4, SMT DEF Sector
<1>7. TypeOK'
  BY <1>1, <1>2, <1>3, <1>4, <1>6 DEF TypeOK
<1> QED BY <1>5, <1>7

LEMMA Inductive ==
    ASSUME RealSizes, IInv, [Next]_vars
    PROVE  IInv'
<1> USE DEF IInv
<1>1. CASE FlashErase \/ FlashWrite
  <2>1. /\ op' \in {"erase", "program"} /\ done' = {}
        /\ UNCHANGED <<has64, has32>> /\ result' = "running"
        /\ \E a \in 0 .. FlashSize - 1 : \E b \in a .. FlashSize - 1 :
               request' = a /\ startaddr' = a /\ endaddr' = b
    BY <1>1 DEF FlashErase, FlashWrite, Begin, chip
  <2>2. PICK a \in 0 .. FlashSize - 1, b \in 0 .. FlashSize - 1 :
            a <= b /\ request' = a /\ startaddr' = a /\ endaddr' = b
    BY <2>1, SFlashAssumption
  <2>3. a \in Nat /\ b \in Nat
    BY SFlashAssumption
  <2>4. TypeOK'
    BY <2>1, <2>2, <2>3 DEF TypeOK, RealSizes
  <2>5. EraseLoop' /\ ProgramExact'
    BY <2>1, <2>2, <2>3 DEF EraseLoop, ProgramExact
  <2> QED BY <2>4, <2>5
<1>2. CASE EraseBlk64 \/ EraseBlk32
  <2>1. PICK len \in {32768, 65536} :
            /\ Running("erase") /\ Erase(startaddr, len)
            /\ startaddr % len = 0 /\ startaddr + len <= endaddr + 4096
    BY <1>2 DEF EraseBlk64, EraseBlk32, Whole64, Whole32, Remaining, RealSizes, TypeOK
  <2>2. startaddr \in Nat /\ startaddr % 4096 = 0
    BY <2>1, SMT DEF TypeOK
  <2>3. TypeOK' /\ EraseLoop'
    BY <2>1, <2>2, EraseStep DEF Running
  <2> QED BY <2>1, <2>3 DEF Running, Erase, Sent, ProgramExact
<1>3. CASE EraseSector
  <2> DEFINE a == startaddr - (startaddr % SectorSize)
  <2>1. Running("erase") /\ Erase(a, 4096)
    BY <1>3 DEF EraseSector, RealSizes
  <2>2. startaddr \in Nat /\ endaddr \in Nat /\ startaddr <= endaddr
    BY <2>1 DEF Running, TypeOK
  <2>3. /\ a \in Nat /\ a % 4096 = 0 /\ Sector(a) = Sector(startaddr)
        /\ a + 4096 <= endaddr + 4096
    BY <2>2, SMT DEF RealSizes, Sector
  <2> HIDE DEF a
  <2>4. TypeOK' /\ EraseLoop'
    BY <2>1, <2>2, <2>3, EraseStep DEF Running
  <2> QED BY <2>1, <2>4 DEF Running, Erase, Sent, ProgramExact
<1>4. CASE ProgramPage
  <2>1. /\ op = "program" /\ startaddr <= endaddr
        /\ done' = done \cup (startaddr .. startaddr + CurLen - 1)
        /\ startaddr' = startaddr + CurLen
        /\ UNCHANGED <<has64, has32, op, request, endaddr>>
        /\ result' \in {"running", "error"}
    BY <1>4 DEF ProgramPage, Running, Sent, chip
  <2>2. /\ startaddr \in Nat /\ endaddr \in Nat /\ request \in Nat
        /\ done = request .. startaddr - 1
    BY <2>1 DEF TypeOK, ProgramExact
  <2>3. CurLen \in Nat /\ 1 <= CurLen /\ startaddr + CurLen <= endaddr + 1
    BY <2>1, <2>2, SMT DEF CurLen, Remaining, RealSizes
  <2> DEFINE n == CurLen
  <2>4. n \in Nat /\ 1 <= n /\ startaddr + n <= endaddr + 1
    BY <2>3
  <2>5. /\ done' = (request .. startaddr - 1) \cup (startaddr .. startaddr + n - 1)
        /\ startaddr' = startaddr + n
    BY <2>1, <2>2
  <2> HIDE DEF n
  <2>6. request <= startaddr
    BY DEF TypeOK
  <2>7. done' = request .. startaddr' - 1
    BY <2>2, <2>4, <2>5, <2>6, SMT
  <2>8. TypeOK'
    BY <2>1, <2>2, <2>4, <2>5, <2>6, <2>7 DEF TypeOK, RealSizes
  <2>9. ProgramExact'
    BY <2>1, <2>2, <2>4, <2>5, <2>7 DEF ProgramExact
  <2>10. EraseLoop'
    BY <2>1 DEF EraseLoop
  <2> QED BY <2>8, <2>9, <2>10
<1>5. CASE Finish
  <2>1. TypeOK'
    BY <1>5 DEF Finish, TypeOK, chip
  <2>2. EraseLoop'
    BY <1>5 DEF Finish, EraseLoop, Sector
  <2>3. ProgramExact'
    BY <1>5 DEF Finish, TypeOK, ProgramExact
  <2> QED BY <2>1, <2>2, <2>3
<1>6. CASE Refused
  <2>1. TypeOK'
    BY <1>6 DEF Refused, TypeOK, chip
  <2>2. EraseLoop'
    BY <1>6 DEF Refused, EraseLoop, Sector
  <2>3. ProgramExact'
    BY <1>6 DEF Refused, ProgramExact
  <2> QED BY <2>1, <2>2, <2>3
<1>7. CASE UNCHANGED vars
  BY <1>7 DEF vars, chip, TypeOK, EraseLoop, ProgramExact, Sector
<1> QED BY <1>1, <1>2, <1>3, <1>4, <1>5, <1>6, <1>7 DEF Next

-----------------------------------------------------------------------------
LEMMA Invariant ==
    ASSUME RealSizes
    PROVE  Spec => []IInv
<1>2. Init => IInv
  <2> SUFFICES ASSUME Init PROVE IInv
    OBVIOUS
  <2>1. 0 <= 0 + SectorSize /\ 1 <= 0 + SectorSize
    BY DEF RealSizes
  <2> QED BY <2>1 DEF Init, IInv, TypeOK, EraseLoop, ProgramExact
<1>3. IInv /\ [Next]_vars => IInv'
  BY Inductive
<1> QED BY <1>2, <1>3, PTL DEF Spec

(* The loops of flash_erase and flash_write overshoot what was asked for by *)
(* less than a sector.                                                      *)
THEOREM TypeCorrect ==
    ASSUME RealSizes
    PROVE  Spec => []TypeOK
BY Invariant, PTL DEF IInv

(* flash_write has at every moment programmed the first bytes of those it   *)
(* was given, and all of them when it succeeds.                             *)
THEOREM ProgramExactCorrect ==
    ASSUME RealSizes
    PROVE  Spec => []ProgramExact
BY Invariant, PTL DEF IInv

(* Whatever the alignment and the length, flash_erase has at every moment   *)
(* erased the first sectors of those the request touches and no others.     *)
THEOREM ErasePrefixCorrect ==
    ASSUME RealSizes
    PROVE  Spec => []ErasePrefix
<1>1. ASSUME IInv PROVE ErasePrefix
  <2> SUFFICES ASSUME op = "erase"
               PROVE  \E k \in 0 .. Sector(endaddr) - Sector(request) + 1 :
                          done = Sector(request) .. Sector(request) + k - 1
    BY DEF ErasePrefix
  <2>1. request \in Nat /\ endaddr \in Nat /\ startaddr \in Nat
        /\ request <= endaddr /\ startaddr <= endaddr + 4096
    BY <1>1 DEF IInv, TypeOK, RealSizes
  <2>2. Sector(request) \in Nat /\ Sector(endaddr) \in Nat /\ Sector(startaddr) \in Nat
        /\ Sector(request) <= Sector(endaddr) /\ Sector(startaddr) <= Sector(endaddr) + 1
    BY <1>1, <2>1, SMT DEF Sector, RealSizes
  <2>3. CASE done = {}
    BY <2>2, <2>3
  <2>4. CASE /\ Sector(request) < Sector(startaddr)
             /\ done = Sector(request) .. Sector(startaddr) - 1
    <3>1. Sector(startaddr) - Sector(request) \in 0 .. Sector(endaddr) - Sector(request) + 1
      BY <2>2, <2>4
    <3>2. Sector(request) + (Sector(startaddr) - Sector(request)) - 1 = Sector(startaddr) - 1
      BY <2>2
    <3> QED BY <2>4, <3>1, <3>2
  <2> QED BY <1>1, <2>3, <2>4 DEF IInv, EraseLoop
<1> QED BY <1>1, Invariant, PTL

(* When flash_erase succeeds, every sector touched is erased.               *)
THEOREM EraseCompleteCorrect ==
    ASSUME RealSizes
    PROVE  Spec => []EraseComplete
<1>1. ASSUME IInv PROVE EraseComplete
  <2> SUFFICES ASSUME op = "erase", result = "ok"
               PROVE  done = Touched(request, endaddr)
    BY DEF EraseComplete
  <2>1. request \in Nat /\ endaddr \in Nat /\ startaddr \in Nat
        /\ request <= endaddr /\ startaddr <= endaddr + 4096
    BY <1>1 DEF IInv, TypeOK, RealSizes
  <2>2. /\ startaddr > endaddr /\ startaddr % 4096 = 0
        /\ done = Sector(request) .. Sector(startaddr) - 1
    BY <1>1, <2>1 DEF IInv, EraseLoop, RealSizes
  <2>3. Sector(startaddr) - 1 = Sector(endaddr)
    BY <1>1, <2>1, <2>2, SMT DEF Sector, RealSizes
  <2> QED BY <2>2, <2>3 DEF Touched
<1> QED BY <1>1, Invariant, PTL

(* Both together: an erase is exact, finished or not.                       *)
THEOREM EraseExactCorrect ==
    ASSUME RealSizes
    PROVE  Spec => []EraseExact
BY TypeCorrect, ErasePrefixCorrect, EraseCompleteCorrect, PTL DEF EraseExact

(* No program command crosses the end of a page.                            *)
THEOREM WithinPageCorrect ==
    ASSUME RealSizes
    PROVE  Spec => WithinPage
<1>1. ASSUME IInv, [Next]_vars, Running("program"), startaddr' # startaddr
      PROVE  startaddr \div PageSize = (startaddr' - 1) \div PageSize
  <2>1. ProgramPage
    BY <1>1 DEF Next, vars, chip, FlashErase, FlashWrite, Begin, EraseBlk64, EraseBlk32,
                EraseSector, Running, Finish, Refused
  <2>2. startaddr \in Nat /\ endaddr \in Nat /\ startaddr <= endaddr
        /\ startaddr' = startaddr + CurLen
    BY <1>1, <2>1 DEF ProgramPage, Running, Sent, IInv, TypeOK
  <2>3. CurLen \in Nat /\ 1 <= CurLen /\ CurLen <= 256 - (startaddr % 256)
    BY <1>1, <2>2, SMT DEF CurLen, Remaining, RealSizes
  <2> DEFINE n == CurLen
  <2>4. n \in Nat /\ 1 <= n /\ n <= 256 - (startaddr % 256) /\ startaddr' = startaddr + n
    BY <2>2, <2>3
  <2> HIDE DEF n
  <2> QED BY <1>1, <2>2, <2>4, SMT DEF RealSizes
<1>2. IInv /\ [Next]_vars
        => (Running("program") =>
              startaddr' = startaddr
                \/ startaddr \div PageSize = (startaddr' - 1) \div PageSize)
  BY <1>1
<1> QED BY <1>2, Invariant, PTL DEF Spec, WithinPage
=============================================================================
