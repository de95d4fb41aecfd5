--------------------------- MODULE MCBlockCache ---------------------------
(* Model-checking instance of BlockCache: the readers are model values,   *)
(* the other bounds are set in each configuration.                        *)
EXTENDS BlockCache, TLC
=============================================================================
