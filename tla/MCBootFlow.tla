------------------------------ MODULE MCBootFlow ------------------------------
(* Instances of BootFlow: a firmware with or without a copy pending, with   *)
(* and without an mfg partition, and a table that lacks the firmware.       *)
EXTENDS BootFlowProps, TLC

MCInitTable ==
    {"FW" :> index : index \in 0 .. 3} \cup
    {("FW" :> 1) @@ ("mfg" :> 0), ("FW" :> 3) @@ ("mfg" :> 2), "mfg" :> 0}
=============================================================================
