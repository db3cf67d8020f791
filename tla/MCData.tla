------------------------------- MODULE MCData -------------------------------
(* All chains of at most two transforms.                                     *)
EXTENDS Data

MCChains == UNION {[1 .. n -> Kinds] : n \in 0 .. 2}
=============================================================================
