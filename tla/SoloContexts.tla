------------------------------ MODULE SoloContexts -----------------------------
(***************************************************************************)
(* What a batch promises the sequences in it: each behaves as if it had a  *)
(* context to itself, without cells, positions, rows or a budget.  A text  *)
(* grows behind its own end only, a token is sampled from the logits of    *)
(* the text it continues, and a checkpoint is the whole text of a context. *)
(***************************************************************************)
EXTENDS Integers

CONSTANTS
    Contexts,
    Most       \* a batch feeds a context no more tokens than this

VARIABLES
    text,       \* context -> the tokens it holds
    sampling,   \* the contexts that sample their next token
    ready,      \* those whose last logits are at hand
    stored      \* the lengths of the texts that were checkpointed

soloVars == <<text, sampling, ready, stored>>

SoloInit ==
    /\ text     = [c \in Contexts |-> 0]
    /\ sampling = {}
    /\ ready    = {}
    /\ stored   = {}

\* Context c starts over: with a part of its own text, or with a checkpoint
\* but for its last token.
Restart(c) ==
    /\ \E n \in (0 .. text[c]) \cup {s - 1 : s \in stored} : text' = [text EXCEPT ![c] = n]
    /\ sampling' = sampling \ {c}
    /\ ready' \in {ready, ready \ {c}}
    /\ UNCHANGED stored

\* A batch brings fed[c] tokens to each context, one to those that sample,
\* which they do from their own last logits.
\* The contexts in emptied are done with.
Feed(fed, emptied) ==
    LET grown == [c \in Contexts |-> text[c] + fed[c]]
        on    == {c \in Contexts : fed[c] > 0}
    IN
    /\ sampling \subseteq ready
    /\ \A c \in sampling : fed[c] = 1
    /\ text' = [c \in Contexts |-> IF c \in emptied THEN 0 ELSE grown[c]]
    /\ on \ emptied \subseteq ready' /\ ready' \subseteq ready \cup on
    /\ sampling' \subseteq on \ emptied
    /\ stored' \subseteq stored \cup {grown[c] : c \in {d \in Contexts : grown[d] > 0}}

Checkpoint ==
    /\ stored' \subseteq stored \cup {text[c] : c \in {d \in Contexts : text[d] > 0}}
    /\ UNCHANGED <<text, sampling, ready>>

\* Somebody else uses what is idle: logits may be lost, no text is.
Borrow ==
    /\ sampling = {}
    /\ ready' \subseteq ready
    /\ UNCHANGED <<text, sampling, stored>>

Empty ==
    /\ text'     = [c \in Contexts |-> 0]
    /\ sampling' = {}
    /\ ready'    = {}
    /\ UNCHANGED stored

SoloNext ==
    \/ \E c \in Contexts : Restart(c)
    \/ Checkpoint
    \/ Borrow
    \/ Empty
    \/ \E fed \in [Contexts -> 0 .. Most], emptied \in SUBSET Contexts : Feed(fed, emptied)

SoloSpec == SoloInit /\ [][SoloNext]_soloVars
================================================================================
