---------------------------- MODULE MCSeqScheduler ----------------------------
(***************************************************************************)
(* Instances of SeqScheduler for TLC.                                      *)
(***************************************************************************)
EXTENDS SeqScheduler

CONSTANTS r1, r2, r3, s1, s2, q0, q1

ThreeRequests == {r1, r2, r3}
TwoRequests == {r1, r2}
TwoSessions == {s1, s2}
OneSession == {s1}
TwoSeqs == {q0, q1}
================================================================================
