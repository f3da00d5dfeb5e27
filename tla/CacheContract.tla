----------------------------- MODULE CacheContract -----------------------------
(***************************************************************************)
(* What the KV-cache index promises its readers, without saying how a      *)
(* checkpoint gets published: keys are published and evicted, a reader     *)
(* holds a published key until it lets go of it, and a key that is held    *)
(* cannot be evicted.                                                      *)
(***************************************************************************)
CONSTANTS Clients, Keys, NoKey

VARIABLES
    published,   \* the keys a reader can claim
    held         \* Client -> the key it holds

contractVars == <<published, held>>

ContractInit ==
    /\ published = {}
    /\ held = [c \in Clients |-> NoKey]

Publish(S) ==
    /\ published' = published \cup S
    /\ UNCHANGED held

Hold(c, k) ==
    /\ k \in published
    /\ held[c] = NoKey
    /\ held' = [held EXCEPT ![c] = k]
    /\ UNCHANGED published

LetGo(c) ==
    /\ held' = [held EXCEPT ![c] = NoKey]
    /\ UNCHANGED published

Withdraw(S) ==
    /\ \A c \in Clients : held[c] \notin S
    /\ published' = published \ S
    /\ UNCHANGED held

\* The index is lost with the server that owns it, and with it every claim.
Forget ==
    /\ published' = {}
    /\ held' = [c \in Clients |-> NoKey]

ContractNext ==
    \/ \E S \in SUBSET Keys : Publish(S) \/ Withdraw(S)
    \/ \E c \in Clients, k \in Keys : Hold(c, k)
    \/ \E c \in Clients : LetGo(c)
    \/ Forget

ContractSpec == ContractInit /\ [][ContractNext]_contractVars
================================================================================
