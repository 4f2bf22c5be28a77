--------------------------- MODULE MCBinImg2Comp ---------------------------
(* Every image of the size the configuration gives. *)
EXTENDS BinImg2Comp
=============================================================================
