------------------------------ MODULE MCAnalysis ------------------------------
(***************************************************************************)
(* AnalysisStages with concrete constants.                                 *)
(***************************************************************************)
EXTENDS AnalysisStages

CONSTANTS p1, p2

TwoProviders == {<<TRUE, p1>>, <<TRUE, p2>>}
=============================================================================
