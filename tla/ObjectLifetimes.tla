---------------------------- MODULE ObjectLifetimes ----------------------------
(***************************************************************************)
(* What the native resources promise llama.cpp, without wrappers, terms,   *)
(* mutexes or counters: an object is made once and destroyed at most once, *)
(* an object that others were made in outlives them, and nobody is inside  *)
(* a call on an object when it is destroyed.                               *)
(***************************************************************************)

CONSTANTS Objects, Callers

VARIABLES
    live,      \* the objects that can be used
    gone,      \* those that were destroyed
    within,    \* the pairs of a live object and the one it was made in
    using      \* Caller -> the objects that it is inside a call on

lifeVars == <<live, gone, within, using>>

LifeInit ==
    /\ live = {}
    /\ gone = {}
    /\ within = {}
    /\ using = [c \in Callers |-> {}]

Make(r) ==
    /\ r \notin live \cup gone
    /\ live' = live \cup {r}
    /\ within' = within \/ \E h \in live : within' = within \cup {<<r, h>>}
    /\ UNCHANGED <<gone, using>>

DestroyAll(R) ==
    /\ R # {} /\ R \cap gone = {}
    /\ \A c \in Callers : using[c] \cap R = {}
    /\ \A p \in within : p[2] \in R => p[1] \in R
    /\ live' = live \ R
    /\ gone' = gone \cup R
    /\ within' = {p \in within : p[1] \notin R}
    /\ UNCHANGED using

\* Caller c enters or leaves calls.
Touch(c) ==
    /\ \E R \in SUBSET live : using' = [using EXCEPT ![c] = R]
    /\ UNCHANGED <<live, gone, within>>

LifeNext ==
    \/ \E r \in Objects : Make(r)
    \/ \E R \in SUBSET live : DestroyAll(R)
    \/ \E c \in Callers : Touch(c)

LifeSpec == LifeInit /\ [][LifeNext]_lifeVars
================================================================================
