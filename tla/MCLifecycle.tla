------------------------------ MODULE MCLifecycle ------------------------------
(***************************************************************************)
(* Lifecycle with concrete constants.  Receipt ids sort as they were       *)
(* inserted, or also the other way round when receipts can share a         *)
(* millisecond.                                                            *)
(***************************************************************************)
EXTENDS Lifecycle, TLC

NoDelay        == [r \in Receipts |-> 0]
EvensDelayed    == [r \in Receipts |-> IF r % 2 = 1 THEN 0 ELSE 2]
InsertionOrder == {[r \in Receipts |-> r]}
BothOrders     == InsertionOrder \cup {[r \in Receipts |-> MaxReceipts + 1 - r]}
Symmetry       == Permutations(Sessions) \cup Permutations(Workspaces)
=============================================================================
