------------------------------ MODULE SFlashProps ------------------------------
(* What an erase and a write do to the flash, whatever they are asked for.  *)
EXTENDS SFlash

(* Types of the variables; a command goes past what was asked for by less   *)
(* than a sector.                                                           *)
TypeOK ==
    /\ has64 \in BOOLEAN /\ has32 \in BOOLEAN
    /\ op \in {"erase", "program"} /\ result \in {"running", "ok", "error"}
    /\ request \in Nat /\ endaddr \in Nat /\ startaddr \in Nat
    /\ request <= endaddr
    /\ request <= startaddr /\ startaddr <= endaddr + SectorSize
    /\ done \subseteq Nat

(***************************************************************************)
(* At every moment of an erase the sectors that are erased are the first   *)
(* ones of those the request touches and no others, however it is split    *)
(* into blocks and however it is aligned; so wherever it stops, by failure *)
(* or with the power, what follows in the flash is intact.                 *)
(***************************************************************************)
ErasePrefix ==
    op = "erase" =>
        \E k \in 0 .. Sector(endaddr) - Sector(request) + 1 :
            done = Sector(request) .. Sector(request) + k - 1

(* When an erase succeeds, every sector touched is erased.                  *)
EraseComplete ==
    op = "erase" /\ result = "ok" => done = Touched(request, endaddr)

(* An erase is exact, finished or not, and keeps to its loop's bounds.       *)
EraseExact == TypeOK /\ ErasePrefix /\ EraseComplete

(***************************************************************************)
(* No program command crosses the end of a page, where the flash would go  *)
(* on at the beginning of the same page.                                   *)
(***************************************************************************)
WithinPage ==
    [][Running("program") =>
         startaddr' = startaddr
            \/ startaddr \div PageSize = (startaddr' - 1) \div PageSize]_vars

(***************************************************************************)
(* At every moment of a write the bytes programmed are the first ones of   *)
(* those it was given, and all of them when it succeeds.                   *)
(***************************************************************************)
ProgramExact ==
    op = "program" => /\ done = request .. startaddr - 1
                      /\ startaddr <= endaddr + 1
                      /\ result = "ok" => startaddr = endaddr + 1
=============================================================================
