------------------------------- MODULE StepBatch -------------------------------
(***************************************************************************)
(* The tokens behind the scheduler: what a tick of barrel_inference_model  *)
(* puts into one batch, what the NIF keeps of each sequence between two    *)
(* batches, and the checkpoints that are packed from and unpacked into     *)
(* sequences.  Tokens are counted, not named.                              *)
(*                                                                         *)
(* A request in flight is a record: the end of its prompt while it is      *)
(* prefilled, 0 once its prefill_cursor is undefined, and the boundaries   *)
(* of the prompt at which a cold save is still due.  The count of its      *)
(* context_tokens becomes, when it ends, what its session has stored.      *)
(* Who waits for a sequence, and for which session, is left to             *)
(* SeqScheduler.                                                           *)
(***************************************************************************)
EXTENDS Integers, FiniteSetsExt

CONSTANTS
    NSeqMax,     \* n_seq_max
    Budget,      \* total_batch_budget, the n_batch of the context
    Chunk,       \* prefill_chunk_size; infinity is any number from Budget on
    MaxPrompt,   \* prompts are no longer than this
    ColdPrompts, \* the prompts of cold admissions, with the ladders of their saves
    Tails,       \* how many tokens a prompt may have behind what is kept of it
    MaxLen,      \* a response target is reached at this length at the latest
    MaxSaved,    \* checkpoints the cache keeps
    Waived,      \* assumptions that are not made
    NoRequest

(***************************************************************************)
(* Nothing relates the budget to the chunk or to the number of sequences:  *)
(* the code enforces none of it.  What is assumed unless it is waived:     *)
(*   new_tail     a turn of a session brings at least one new token        *)
(*   no_markers   no thinking markers are configured                       *)
(*   free_verify  verify/4 is not called while a session pins sequence 0   *)
(***************************************************************************)
ASSUME BatchAssumption ==
    /\ NSeqMax \in Nat \ {0}
    /\ Budget \in Nat \ {0}
    /\ Chunk \in Nat \ {0}
    /\ MaxPrompt \in Nat \ {0}
    /\ MaxLen \in Nat
    /\ MaxLen > MaxPrompt
    /\ MaxSaved \in Nat
    /\ Waived \subseteq {"new_tail", "no_markers", "free_verify"}

Seqs    == 0 .. NSeqMax - 1
Rows    == 0 .. Budget - 1
Lengths == 0 .. MaxLen
Prompts == 0 .. MaxPrompt
None    == -1

ASSUME PromptsAssumption ==
    /\ \A p \in ColdPrompts : p.prompt \in Prompts /\ p.ladder \subseteq 1 .. p.prompt
    /\ Tails \subseteq Prompts

Request ==
    [kind      : {"generate", "prefill_only"},
     session   : BOOLEAN,
     cancelled : BOOLEAN,
     prompt    : Prompts,
     ladder    : SUBSET Prompts]

ASSUME RequestAssumption == NoRequest \notin Request

VARIABLES
    mode,         \* the state of the gen_statem
    reqTable,     \* req_table
    pinned,       \* sequences that session_seq names
    context,      \* tokens of the request on a sequence, or stored for its session
    cells,        \* KV cells a sequence holds
    nextPos,      \* per_seq[q].next_pos
    lastLogits,   \* per_seq[q].last_logits_idx
    logits,       \* the sequence whose logits the last batch left in a row
    checkpoints   \* saved: the tokens of the key, the cells in the payload

seqVars == <<cells, nextPos, lastLogits>>
vars == <<mode, reqTable, pinned, context, cells, nextPos, lastLogits, logits, checkpoints>>

TypeOK ==
    /\ mode        \in {"idle", "running"}
    /\ reqTable    \in [Seqs -> Request \cup {NoRequest}]
    /\ pinned      \subseteq Seqs
    /\ context     \in [Seqs -> Lengths]
    /\ cells       \in [Seqs -> Nat]
    /\ nextPos     \in [Seqs -> Nat]
    /\ lastLogits  \in [Seqs -> Rows \cup {None}]
    /\ logits      \in [Rows -> Seqs \cup {None}]
    /\ checkpoints \subseteq [tokens : Lengths \ {0}, cells : Nat]

Init ==
    /\ mode        = "idle"
    /\ reqTable    = [q \in Seqs |-> NoRequest]
    /\ pinned      = {}
    /\ context     = [q \in Seqs |-> 0]
    /\ cells       = [q \in Seqs |-> 0]
    /\ nextPos     = [q \in Seqs |-> 0]
    /\ lastLogits  = [q \in Seqs |-> None]
    /\ logits      = [r \in Rows |-> None]
    /\ checkpoints = {}

Busy == {q \in Seqs : reqTable[q] # NoRequest}
Idle == Seqs \ Busy

--------------------------------------------------------------------------------
(***************************************************************************)
(* The operations of the NIF on one sequence.                              *)
(***************************************************************************)
\* kv_seq_rm(q, n, -1) and kv_unpack of n cells: logits do not survive.
Holds(q, n) ==
    /\ cells'      = [cells EXCEPT ![q] = n]
    /\ nextPos'    = [nextPos EXCEPT ![q] = n]
    /\ lastLogits' = [lastLogits EXCEPT ![q] = None]

Least(a, b) == IF a <= b THEN a ELSE b

Truncate(q, n) == Holds(q, Least(cells[q], n))

--------------------------------------------------------------------------------
(***************************************************************************)
(* Admission: start_request/4 with setup_admission_path/5.                 *)
(***************************************************************************)
Admit(q, keep, from, prompt, ladder, kind) ==
    /\ prompt \in Prompts
    /\ mode' = "running"
    /\ reqTable' = [reqTable EXCEPT ![q] =
          [kind |-> kind, session |-> keep, cancelled |-> FALSE,
           prompt |-> IF from < prompt THEN prompt ELSE 0, ladder |-> ladder]]
    /\ context' = [context EXCEPT ![q] = from]
    /\ UNCHANGED <<logits, checkpoints>>

\* A free sequence, or one whose session was dropped for the new request
FreeFor(q) == q \in Idle /\ pinned' = pinned \ {q}

\* The sequence of an idle session
InPlace(q) == q \in Idle \cap pinned /\ UNCHANGED pinned

\* setup_cold/2: the prompt is prefilled in segments, with a save at each
\* boundary of the ladder.  A prompt has at least one token.
AdmitCold(q, keep, prompt, ladder, kind) ==
    /\ FreeFor(q)
    /\ prompt > 0
    /\ Truncate(q, 0)
    /\ Admit(q, keep, 0, prompt, ladder, kind)

\* setup_warm/5: unpack a checkpoint of a prefix of the prompt, drop its
\* last cell (warm_restore_primer/3) and prefill that token again.
AdmitWarm(q, keep, c, n, kind) ==
    /\ FreeFor(q)
    /\ Holds(q, Least(c.cells, c.tokens - 1))
    /\ Admit(q, keep, c.tokens - 1, c.tokens + n, {}, kind)

\* The sticky path and continue/3: the cells hold what is stored, and the
\* new tail is prefilled behind it.
AdmitSticky(q, n, kind) ==
    /\ InPlace(q)
    /\ n > 0 \/ ("new_tail" \in Waived /\ context[q] > 0)
    /\ UNCHANGED seqVars
    /\ Admit(q, TRUE, context[q], context[q] + n, {}, kind)

\* Deviation: the last token of the common prefix counts as kept.
AdmitPartialKept(q, common, n, kind) ==
    /\ InPlace(q)
    /\ common \in 1 .. context[q] - 1
    /\ Truncate(q, common - 1)
    /\ Admit(q, TRUE, common, common + n, {}, kind)

\* The sticky_partial path keeps the common prefix of stored and prompt.
AdmitPartial(q, common, n, kind) ==
    /\ InPlace(q)
    /\ common \in 1 .. context[q] - 1
    /\ Truncate(q, common - 1)
    /\ Admit(q, TRUE, common - 1, common + n, {}, kind)

--------------------------------------------------------------------------------
(***************************************************************************)
(* Calls between two ticks.                                                *)
(***************************************************************************)
Cancel(q) ==
    /\ q \in Busy
    /\ reqTable' = [reqTable EXCEPT ![q].cancelled = TRUE]
    /\ UNCHANGED <<mode, pinned, context, seqVars, logits, checkpoints>>

\* release_seq/2 or drop_session/2: the sequence goes back to the pool.
GiveUp(q) ==
    /\ pinned' = pinned \ {q}
    /\ context' = [context EXCEPT ![q] = 0]
    /\ Truncate(q, 0)
    /\ UNCHANGED <<mode, logits, checkpoints>>

EndSession(q) ==
    /\ q \in Idle \cap pinned
    /\ GiveUp(q)
    /\ UNCHANGED reqTable

\* A request in flight on the sequence fails.
ResetSession(q) ==
    /\ q \in pinned
    /\ GiveUp(q)
    /\ reqTable' = [reqTable EXCEPT ![q] = NoRequest]

\* Deviation: the cells are packed before the batch is decoded.
SavedEarly(qs, ctx, held) ==
    {[tokens |-> ctx[q], cells |-> cells[q]] : q \in {p \in qs : ctx[p] > 0}}

(***************************************************************************)
(* Saves: kv_pack of the sequences qs, each under the tokens of its        *)
(* context.  The policy, the writer and eviction decide what is kept.      *)
(***************************************************************************)
Saved(qs, ctx, held) ==
    {[tokens |-> ctx[q], cells |-> held[q]] : q \in {p \in qs : ctx[p] > 0}}

Save(qs, ctx, held) ==
    checkpoints' \in {S \in SUBSET (checkpoints \cup Saved(qs, ctx, held)) :
                        Cardinality(S) <= MaxSaved}

\* evict/1 and shutdown/1
SaveAll ==
    /\ Save(Busy, context, cells)
    /\ UNCHANGED <<mode, reqTable, pinned, context, seqVars, logits>>

(***************************************************************************)
(* verify/4 runs a prefix of n tokens and its candidates through sequence  *)
(* 0, removes what is behind position n and prefills the last token of     *)
(* the prefix there.  It is refused while the process is running.          *)
(***************************************************************************)
Verify(n) ==
    /\ mode = "idle"
    /\ 0 \notin pinned \/ "free_verify" \in Waived
    /\ n \in 1 .. MaxPrompt
    /\ cells'      = [cells EXCEPT ![0] = n + 1]
    /\ nextPos'    = [nextPos EXCEPT ![0] = n]
    /\ lastLogits' = [lastLogits EXCEPT ![0] = None]
    /\ logits'     = [r \in Rows |-> None]
    /\ UNCHANGED <<mode, reqTable, pinned, context, checkpoints>>

--------------------------------------------------------------------------------
(***************************************************************************)
(* The tick.                                                               *)
(***************************************************************************)
Active(q) == q \in Busy /\ ~reqTable[q].cancelled

\* The end of the segment that is being prefilled
SegmentEnd(r) == Min({r.prompt} \cup r.ladder)

\* The tokens of prefill_cursor that a tick may take, none if it is undefined
Cursor(q) ==
    IF Active(q) /\ reqTable[q].prompt > 0 THEN SegmentEnd(reqTable[q]) - context[q] ELSE 0

Prefilling == {q \in Seqs : Cursor(q) > 0}

\* Deviation: decoders sit out while a prompt is being prefilled.
DecodingAlone ==
    {q \in Seqs :
        /\ Active(q) /\ reqTable[q].prompt = 0 /\ reqTable[q].kind = "generate"
        /\ Prefilling = {}}

Decoding ==
    {q \in Seqs : Active(q) /\ reqTable[q].prompt = 0 /\ reqTable[q].kind = "generate"}

\* Deviation: one token that remains is taken for none.
SliceStrict(q, remaining) ==
    IF remaining <= 1 THEN 0 ELSE Least(Cursor(q), Least(Chunk, remaining))

\* prefill_slice_cap/3
Slice(q, remaining) == Least(Cursor(q), Least(Chunk, remaining))

(***************************************************************************)
(* slice_prefills/4: room[q] is what the decoders and the prefills on      *)
(* lower sequences leave of the budget.                                    *)
(***************************************************************************)
Layout(room, decoding) ==
    /\ room[0] = Budget - Cardinality(decoding)
    /\ \A q \in Seqs : room[q + 1] = room[q] - Slice(q, room[q])

\* The tokens of each sequence in the batch
Fed(room, decoding) ==
    [q \in Seqs |-> IF q \in decoding THEN 1 ELSE room[q] - room[q + 1]]

\* The row of the last token of each sequence: decoders come first.
LastRow(room, decoding) ==
    [q \in Seqs |-> IF q \in decoding
                    THEN Cardinality({p \in decoding : p < q})
                    ELSE Budget - room[q + 1] - 1]

\* llama_decode leaves the logits of the last token of each sequence.
LogitsAfter(on, row) ==
    [r \in Rows |-> IF \E q \in on : row[q] = r
                    THEN CHOOSE q \in on : row[q] = r
                    ELSE None]

\* context_tokens after the step: what was prefilled, or the sampled token
\* unless it is a thinking marker
Context(fed, markers) ==
    [q \in Seqs |-> IF q \in markers THEN context[q] ELSE context[q] + fed[q]]

\* Boundaries that are passed are forgotten.
Advanced(ctx) ==
    [q \in Seqs |->
        IF reqTable[q] = NoRequest THEN NoRequest
        ELSE [reqTable[q] EXCEPT
                 !.prompt = IF ctx[q] < @ THEN @ ELSE 0,
                 !.ladder = {b \in @ : b > ctx[q]}]]

(***************************************************************************)
(* Requests that are done after the step: cancelled ones, decoders that    *)
(* met an end of generation, a stop sequence or their response target      *)
(* (those in stops), and prefill_only ones with nothing left to prefill.   *)
(***************************************************************************)
Finished(table, stops) ==
    {q \in Busy :
        \/ table[q].cancelled
        \/ q \in stops
        \/ table[q].kind = "prefill_only" /\ table[q].prompt = 0}

\* Sequences whose prefill has just reached a boundary of the ladder
AtBoundary(ctx) == {q \in Prefilling : ctx[q] \in reqTable[q].ladder}

(***************************************************************************)
(* The batch is decoded, results are applied, saves are made, and what is  *)
(* done leaves its sequence: empty, or pinned to its session.              *)
(***************************************************************************)
StepWith(fed, row, committed, markers, stops) ==
    LET on    == {q \in Seqs : fed[q] > 0}
        held  == [q \in Seqs |-> cells[q] + fed[q]]
        ctx   == Context(fed, markers)
        table == Advanced(ctx)
        done  == Finished(table, stops)
        freed == {q \in done : ~table[q].session}
    IN
    /\ \A q \in on : nextPos[q] = cells[q]
    /\ \A q \in committed : ctx[q] = MaxLen => q \in stops
    /\ Save(done \cup committed \cup AtBoundary(ctx), ctx, held)
    /\ cells'      = [q \in Seqs |-> IF q \in freed THEN 0 ELSE held[q]]
    /\ nextPos'    = [q \in Seqs |-> IF q \in freed THEN 0 ELSE nextPos[q] + fed[q]]
    /\ lastLogits' = [q \in Seqs |-> IF q \in freed THEN None
                                     ELSE IF q \in on THEN row[q]
                                     ELSE lastLogits[q]]
    /\ logits'     = IF on = {} THEN logits ELSE LogitsAfter(on, row)
    /\ reqTable'   = [q \in Seqs |-> IF q \in done THEN NoRequest ELSE table[q]]
    /\ context'    = [q \in Seqs |-> IF q \in freed THEN 0 ELSE ctx[q]]
    /\ pinned'     = pinned \cup (done \ freed)
    /\ mode'       = IF done = Busy THEN "idle" ELSE "running"

\* A token that may turn out to be a thinking marker
MayMark(decoding) == {q \in decoding : "no_markers" \in Waived /\ cells[q] < MaxLen}

StepOn(decoding) ==
    /\ Cardinality(decoding) < Budget
    /\ \A q \in decoding : lastLogits[q] # None
    /\ \E room \in [0 .. NSeqMax -> 0 .. Budget] :
          /\ Layout(room, decoding)
          /\ \E markers \in SUBSET MayMark(decoding) :
                \E stops \in SUBSET (decoding \ markers) :
                   StepWith(Fed(room, decoding), LastRow(room, decoding),
                            decoding \ markers, markers, stops)

Step == mode = "running" /\ StepOn(Decoding)

Renewed ==
    /\ mode'       = "idle"
    /\ reqTable'   = [q \in Seqs |-> NoRequest]
    /\ pinned'     = {}
    /\ context'    = [q \in Seqs |-> 0]
    /\ cells'      = [q \in Seqs |-> 0]
    /\ nextPos'    = [q \in Seqs |-> 0]
    /\ lastLogits' = [q \in Seqs |-> None]
    /\ logits'     = [r \in Rows |-> None]
    /\ UNCHANGED checkpoints

\* llama_decode failed or timed out: recover_in_place/2 with a new context
Recover ==
    /\ mode = "running"
    /\ Prefilling \cup Decoding # {}
    /\ Renewed

\* The model is unloaded, or stops on an error, and is loaded again.
Reload == Renewed

Tick == Step \/ Recover

--------------------------------------------------------------------------------
AdmitOn(q, kind) ==
    \/ \E keep \in BOOLEAN, p \in ColdPrompts : AdmitCold(q, keep, p.prompt, p.ladder, kind)
    \/ \E keep \in BOOLEAN, c \in checkpoints, n \in Tails : AdmitWarm(q, keep, c, n, kind)
    \/ \E n \in Tails : AdmitSticky(q, n, kind)
    \/ \E common \in Lengths, n \in Tails : AdmitPartial(q, common, n, kind)

Next ==
    \/ \E q \in Seqs :
          \/ \E kind \in {"generate", "prefill_only"} : AdmitOn(q, kind)
          \/ Cancel(q) \/ EndSession(q) \/ ResetSession(q)
    \/ SaveAll
    \/ \E n \in Prompts : Verify(n)
    \/ Tick
    \/ Reload

Spec == Init /\ [][Next]_vars

--------------------------------------------------------------------------------
\* The tokens a request or a pinned session believes to be in the cells are
\* the cells there are, and the next token goes right behind them.
CellsMatch ==
    \A q \in Busy \cup pinned : cells[q] = context[q] /\ nextPos[q] = context[q]

\* A sequence that samples its next token reads its own logits, never those
\* that a batch since then left in the row for another one.
LogitsOwn ==
    \A q \in Decoding : lastLogits[q] # None /\ logits[lastLogits[q]] = q

\* A checkpoint holds the cells of exactly the tokens it is saved under.
CheckpointExact == \A c \in checkpoints : c.cells = c.tokens

\* A batch leaves a request in flight out only if it has no row left for it:
\* decoders are in every batch, and a prompt sits out only when those on lower
\* sequences fill the batch to its last row.
PutOffWhenFull ==
    [][(\E q \in Seqs : Active(q) /\ nextPos'[q] > nextPos[q]) =>
          \A q \in Prefilling \cup Decoding :
              \/ nextPos'[q] > nextPos[q]
              \/ reqTable'[q] = NoRequest
              \/ /\ q \in Prefilling
                 /\ logits'[Budget - 1] \in {p \in Prefilling : p < q}]_vars

\* What of all this a sequence would see in a context of its own: its text,
\* the logits that are its own, and the texts that checkpoints hold
Text   == [q \in Seqs |-> IF q \in Busy \cup pinned THEN cells[q] ELSE 0]
Ready  == {q \in Seqs : lastLogits[q] # None /\ logits[lastLogits[q]] = q}
Stored == {c.cells : c \in checkpoints}

Solo == INSTANCE SoloContexts WITH
            Contexts <- Seqs, Most <- Budget,
            text <- Text, sampling <- Decoding, ready <- Ready, stored <- Stored

\* Batches, saves and verify/4 disturb nobody: each sequence in use goes the
\* way it would go with a context to itself.
ImplementsSolo == Solo!SoloSpec
================================================================================
