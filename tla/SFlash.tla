-------------------------------- MODULE SFlash --------------------------------
(***************************************************************************)
(* One flash operation at a time, as flash_erase and flash_write do it:    *)
(* with interrupts disabled, as a series of erase commands of 64K, 32K or  *)
(* one sector, or of program commands that stay within a page.             *)
(*                                                                         *)
(* Simplifications:                                                        *)
(*  - the length is not 0, and the last address does not wrap around;      *)
(*  - the build takes these functions from the ROM (BFLB_USE_ROM_DRIVER),  *)
(*    of which this is the source;                                         *)
(*  - the controller's mode and image offset, saved before the operation   *)
(*    and restored after it, are left out.                                 *)
(***************************************************************************)
EXTENDS Integers

CONSTANTS
    FlashSize,
    SectorSize, \* sectorSize * 1024
    BFLB_SPIFLASH_BLK32K_SIZE, BFLB_SPIFLASH_BLK64K_SIZE,
    PageSize

ASSUME SFlashAssumption ==
    /\ FlashSize \in Nat /\ SectorSize \in Nat \ {0} /\ PageSize \in Nat \ {0}
    /\ BFLB_SPIFLASH_BLK32K_SIZE \in Nat /\ BFLB_SPIFLASH_BLK64K_SIZE \in Nat

VARIABLES
    has64, has32,       \* the chip has the command
    op,                 \* "erase" or "program"
    request, endaddr,   \* first and last byte asked for
    startaddr,          \* where the next command goes
    done,               \* sectors erased, or bytes programmed
    result              \* "running", "ok" or "error"

chip == <<has64, has32>>
vars == <<chip, op, request, endaddr, startaddr, done, result>>

Sector(a)     == a \div SectorSize
Touched(a, b) == Sector(a) .. Sector(b)

-----------------------------------------------------------------------------
Init ==
    /\ has64 \in BOOLEAN /\ has32 \in BOOLEAN
    /\ op = "program" /\ result = "ok"
    /\ request = 0 /\ endaddr = 0 /\ startaddr = 1 /\ done = {0}

Begin(what) ==
    /\ result # "running"
    /\ op' = what /\ result' = "running"
    /\ \E a \in 0 .. FlashSize - 1 : \E b \in a .. FlashSize - 1 :
            request' = a /\ startaddr' = a /\ endaddr' = b
    /\ done' = {}
    /\ UNCHANGED chip

FlashErase == Begin("erase")
FlashWrite == Begin("program")

Running(what) == op = what /\ result = "running" /\ startaddr <= endaddr

(* A command is carried out; if the flash stays busy for too long the      *)
(* operation ends there.                                                   *)
Sent(end) ==
    /\ startaddr' = end
    /\ result' \in {"running", "error"}
    /\ UNCHANGED <<chip, op, request, endaddr>>

-----------------------------------------------------------------------------
(* What the loop in SFlash_Erase decides on.                               *)
Remaining == endaddr - startaddr + 1

Whole64 ==
    /\ has64
    /\ startaddr % BFLB_SPIFLASH_BLK64K_SIZE = 0
    /\ Remaining > BFLB_SPIFLASH_BLK64K_SIZE - SectorSize

Whole32 ==
    /\ has32
    /\ startaddr % BFLB_SPIFLASH_BLK32K_SIZE = 0
    /\ Remaining > BFLB_SPIFLASH_BLK32K_SIZE - SectorSize

Erase(a, len) ==
    /\ done' = done \cup (Sector(a) .. Sector(a + len) - 1)
    /\ Sent(a + len)

EraseBlk64 ==
    /\ Running("erase") /\ Whole64
    /\ Erase(startaddr, BFLB_SPIFLASH_BLK64K_SIZE)

EraseBlk32 ==
    /\ Running("erase") /\ ~ Whole64 /\ Whole32
    /\ Erase(startaddr, BFLB_SPIFLASH_BLK32K_SIZE)

EraseSector_Unaligned ==
    /\ Running("erase") /\ ~ Whole64 /\ ~ Whole32
    /\ Erase(startaddr, SectorSize)

EraseSector ==
    /\ Running("erase") /\ ~ Whole64 /\ ~ Whole32
    /\ Erase(startaddr - (startaddr % SectorSize), SectorSize)

-----------------------------------------------------------------------------
(* What the loop in SFlash_Program sends next.                             *)
CurLen_WholePage == IF PageSize > Remaining THEN Remaining ELSE PageSize

CurLen_ToPageEnd == PageSize - (startaddr % PageSize)

CurLen ==
    LET room == PageSize - (startaddr % PageSize)
    IN  IF room > Remaining THEN Remaining ELSE room

ProgramPage ==
    /\ Running("program")
    /\ done' = done \cup (startaddr .. startaddr + CurLen - 1)
    /\ Sent(startaddr + CurLen)

-----------------------------------------------------------------------------
Finish ==
    /\ result = "running" /\ startaddr > endaddr
    /\ result' = "ok"
    /\ UNCHANGED <<chip, op, request, endaddr, startaddr, done>>

(* SFlash_Write_Enable fails before a command.                             *)
Refused ==
    /\ result = "running" /\ startaddr <= endaddr
    /\ result' = "error"
    /\ UNCHANGED <<chip, op, request, endaddr, startaddr, done>>

Next == FlashErase \/ FlashWrite \/ EraseBlk64 \/ EraseBlk32 \/ EraseSector
          \/ ProgramPage \/ Finish \/ Refused

Spec == Init /\ [][Next]_vars
=============================================================================
