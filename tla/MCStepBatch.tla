------------------------------ MODULE MCStepBatch ------------------------------
(***************************************************************************)
(* Instances of StepBatch for TLC.                                         *)
(***************************************************************************)
EXTENDS StepBatch

\* A prompt that fills a batch, and one with a boundary inside
MCPrompts == {[prompt |-> 3, ladder |-> {}], [prompt |-> 2, ladder |-> {1}]}
================================================================================
