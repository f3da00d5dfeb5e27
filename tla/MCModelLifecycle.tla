-------------------------- MODULE MCModelLifecycle --------------------------
(* Two models that do not fit in memory together.                          *)
EXTENDS ModelLifecycle, TLC

CONSTANTS m1, m2, r1, r2

\* Models and requests are interchangeable: used by the safety run only.
Symmetry == Permutations(Models) \cup Permutations(Requests)
=============================================================================
