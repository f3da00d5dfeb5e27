------------------------------- MODULE SlotPool --------------------------------
(***************************************************************************)
(* What an admission queue promises its callers, without mailbox, monitors *)
(* or timers: a number of slots, a bounded line in front of them, and      *)
(* whoever has stood in line longest gets the slot that becomes free.      *)
(***************************************************************************)
EXTENDS Naturals, Sequences, FiniteSets

CONSTANTS Users, Slots, Places

VARIABLES
    holding,   \* the users that have a slot
    line,      \* the users that wait, the longest waiting first
    places     \* how many may wait

poolVars == <<holding, line, places>>

InLine == {line[i] : i \in DOMAIN line}

PoolInit ==
    /\ holding = {}
    /\ line = <<>>
    /\ places \in Places

\* A slot is free: nobody can be in line for it.
Take(u) ==
    /\ u \notin holding
    /\ Cardinality(holding) < Slots
    /\ line = <<>>
    /\ holding' = holding \cup {u}
    /\ UNCHANGED <<line, places>>

Enqueue(u) ==
    /\ u \notin holding \cup InLine
    /\ Cardinality(holding) = Slots
    /\ Len(line) < places
    /\ line' = Append(line, u)
    /\ UNCHANGED <<holding, places>>

\* The user at position i gives up: the others keep their order.
Leave(i) ==
    /\ line' = [j \in 1 .. Len(line) - 1 |-> IF j < i THEN line[j] ELSE line[j + 1]]
    /\ UNCHANGED <<holding, places>>

GiveBack(u) ==
    /\ u \in holding
    /\ line = <<>>
    /\ holding' = holding \ {u}
    /\ UNCHANGED <<line, places>>

\* The first in line takes over the slot: it is at no time free.
HandOver(u) ==
    /\ u \in holding
    /\ line # <<>>
    /\ holding' = (holding \ {u}) \cup {Head(line)}
    /\ line' = Tail(line)
    /\ UNCHANGED places

PoolNext ==
    \/ \E u \in Users : Take(u) \/ Enqueue(u) \/ GiveBack(u) \/ HandOver(u)
    \/ \E i \in DOMAIN line : Leave(i)

PoolSpec == PoolInit /\ [][PoolNext]_poolVars
================================================================================
