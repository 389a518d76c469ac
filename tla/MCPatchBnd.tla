----------------------------- MODULE MCPatchBnd -----------------------------
(* The plugin's jar and those of two other versions. *)
EXTENDS PatchBnd
=============================================================================
