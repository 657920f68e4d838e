------------------------------ MODULE MCArtifacts ------------------------------
(***************************************************************************)
(* ArtifactStore with concrete constants: a manifest and a derived content *)
(* of one run, a report of another.                                        *)
(***************************************************************************)
EXTENDS ArtifactStore, TLC

CONSTANTS r1, r2, manifest, derived, report

Owner == manifest :> r1 @@ derived :> r1 @@ report :> r2
Stage == manifest :> "manifest" @@ derived :> "derived" @@ report :> "report"

OneOwner == manifest :> r1
OneStage == manifest :> "manifest"
=============================================================================
