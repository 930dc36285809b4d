------------------------- MODULE MCBlockIndexCache -------------------------
(***************************************************************************)
(* BlockIndexCache for model checking: the thread that holds cs_main and   *)
(* one that reads without it.                                              *)
(***************************************************************************)
EXTENDS BlockIndexCache

CONSTANTS reader, main
============================================================================
