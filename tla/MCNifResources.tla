--------------------------- MODULE MCNifResources ---------------------------
(* Two scheduler threads on a model with one context, two adapters and one  *)
(* sampler: both kinds of users of a model, and two set_adapters calls that *)
(* name the same two adapters.                                              *)
EXTENDS NifResources, TLC

CONSTANTS t1, t2, m1, c1, a1, a2, s1

MCAddr == (a1 :> 1) @@ (a2 :> 2)

ThreadSymmetry == Permutations(Threads)
=============================================================================
