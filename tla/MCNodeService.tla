--------------------------- MODULE MCNodeService ---------------------------
(* Every command line: all combinations of the flags. *)
EXTENDS NodeService

MCConfigs == SUBSET Flags
=============================================================================
