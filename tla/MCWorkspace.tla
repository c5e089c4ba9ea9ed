----------------------------- MODULE MCWorkspace -----------------------------
(* Workspace on a small instance: see Workspace.cfg.                       *)
EXTENDS Workspace, TLC

CONSTANTS fa, fb, v1, v2, x, y, d

OneSymbolEach == v1 :> {x} @@ v2 :> {y}
OneImport     == v1 :> {} @@ v2 :> {d}
=============================================================================
