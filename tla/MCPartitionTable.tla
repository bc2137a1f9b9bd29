--------------------------- MODULE MCPartitionTable ---------------------------
(* Instances of PartitionTable small enough for TLC.                         *)
EXTENDS PartitionTableProps, TLC

CONSTANTS fw, psm, r1, r2, NoTable

MCTypes == {fw, psm}
MCRevs  == {r1, r2}

E(type, idx, rev) == [type |-> type, active_index |-> idx, rev |-> rev]
Table(age, entries) == [age |-> age, entries |-> entries]

FwOnly == <<E(fw, 0, r1)>>
FwPsm  == <<E(fw, 1, r1), E(psm, 0, r1)>>
Ota    == <<E(fw, 2, r1)>>

(* Factory state (one table), equal tables, either one newer, a pending     *)
(* over-the-air copy, a torn spare, no table at all; and ages on both sides *)
(* of the wrap.                                                             *)
MCInitFlash ==
    { (0 :> Table(0, FwOnly)) @@ (1 :> NoTable),
      (0 :> Table(0, FwPsm))  @@ (1 :> Table(0, FwPsm)),
      (0 :> Table(1, FwOnly)) @@ (1 :> Table(2, FwPsm)),
      (0 :> Table(2, Ota))    @@ (1 :> Table(1, FwOnly)),
      (0 :> NoTable)          @@ (1 :> Table(AgeMod - 2, FwOnly)),
      (0 :> NoTable)          @@ (1 :> NoTable) }

=============================================================================
