----------------------------- MODULE AtomicTable -----------------------------
(***************************************************************************)
(* What the pair of partition tables promises to whoever boots: there is   *)
(* one current table, and a rewrite of it happens at once or not at all,   *)
(* whenever the power fails.  A device without a valid table stays so.     *)
(***************************************************************************)
EXTENDS Integers, Sequences

CONSTANTS Types, AgeMod, Entry, None, InitTables

VARIABLE table  \* the current table, or None

Init == table \in InitTables

(* The entry of e's type is replaced, or e is new; the table ages by one.  *)
Rewrite(e) ==
    /\ table # None
    /\ table'.age = (table.age + 1) % AgeMod
    /\ \/ \E p \in 1 .. Len(table.entries) :
            /\ table.entries[p].type = e.type
            /\ table'.entries = [table.entries EXCEPT ![p] = e]
       \/ /\ \A p \in 1 .. Len(table.entries) : table.entries[p].type # e.type
          /\ table'.entries = Append(table.entries, e)

(* Entry 0 changes over to its other slot.                                 *)
Flip ==
    /\ table # None
    /\ table'.age = (table.age + 1) % AgeMod
    /\ table'.entries =
            [table.entries EXCEPT ![1].active_index = 1 - (@ % 2)]

Next == (\E e \in Entry : Rewrite(e)) \/ Flip

Spec == Init /\ [][Next]_table
=============================================================================
