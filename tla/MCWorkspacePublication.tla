----------------------- MODULE MCWorkspacePublication -----------------------
(* Instances of WorkspacePublication: one operation of each kind, and a     *)
(* second transaction on the workspace if the owner keeps away.             *)
EXTENDS WorkspacePublication, TLC
CONSTANTS p, q, r

OneEach == (p :> "create") @@ (q :> "replace") @@ (r :> "delete")
CreateAndReplace == (p :> "create") @@ (q :> "replace")

AloneOnReturn == round' = 1 \/ touches' = 0
=============================================================================
