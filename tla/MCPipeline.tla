------------------------------ MODULE MCPipeline ------------------------------
(***************************************************************************)
(* EvidencePipeline with concrete constants.                               *)
(***************************************************************************)
EXTENDS EvidencePipeline, TLC

NoDelay        == [r \in Receipts |-> 0]
EvensDelayed    == [r \in Receipts |-> IF r % 2 = 1 THEN 0 ELSE 2]
InsertionOrder == {[r \in Receipts |-> r]}
BothOrders     == {[r \in Receipts |-> r], [r \in Receipts |-> MaxReceipts + 1 - r]}
AnyOrder       == Permutations(Receipts)
=============================================================================
