------------------------------ MODULE SeqScheduler ------------------------------
(***************************************************************************)
(* The request scheduler of a model process, barrel_inference_model: the   *)
(* admission of requests to the sequences of one context, the sessions     *)
(* that keep a sequence pinned between turns, the FIFO of parked callers,  *)
(* and the tick that steps every sequence in flight and re-arms itself.    *)
(*                                                                         *)
(* The process handles one event at a time, so every action is a whole     *)
(* handler.  What a step computes is left open: a tick may end any of the  *)
(* requests in flight.                                                     *)
(***************************************************************************)
EXTENDS Naturals, Sequences, FiniteSets

CONSTANTS
    Requests,      \* the callers; each has at most one call outstanding
    Sessions,      \* session ids
    Seqs,          \* the sequence ids 0 .. n_seq_max - 1
    Serialised,    \* does no caller overlap the first turns of a session?
    MaxTicks,      \* ticks are counted up to here: this many stands for more, too
    NoRequest, NoSession, NoSeq

ASSUME SchedulerAssumption ==
    /\ NoRequest \notin Requests
    /\ NoSession \notin Sessions
    /\ NoSeq \notin Seqs
    /\ Requests \cap Sessions = {}
    /\ IsFiniteSet(Seqs)
    /\ Seqs # {}
    /\ Serialised \in BOOLEAN
    /\ MaxTicks \in Nat \ {0}

VARIABLES
    mode,       \* the state of the gen_statem, or stopped
    idleSeqs,   \* idle_seq_ids
    table,      \* req_table: the request in flight on a sequence
    cancelled,  \* requests in flight with cancel_pending
    pending,    \* FIFO of parked callers
    session,    \* session_seq: the sequence a session has pinned
    ticks,      \* tick casts in the mailbox
    cells,      \* whose KV cells a sequence holds
    proc,       \* where a caller stands
    of          \* the session_id of its request

vars == <<mode, idleSeqs, table, cancelled, pending, session, ticks, cells, proc, of>>

Owners == Sessions \cup Requests

TypeOK ==
    /\ mode      \in {"idle", "running", "stopped"}
    /\ idleSeqs  \subseteq Seqs
    /\ table     \in [Seqs -> Requests \cup {NoRequest}]
    /\ cancelled \subseteq Requests
    /\ pending   \in Seq(Requests)
    /\ session   \in [Sessions -> Seqs \cup {NoSeq}]
    /\ ticks     \in Nat
    /\ cells     \in [Seqs -> SUBSET Owners]
    /\ proc      \in [Requests -> {"idle", "parked", "running"}]
    /\ of        \in [Requests -> Sessions \cup {NoSession}]

Init ==
    /\ mode      = "idle"
    /\ ticks     = 0
    /\ proc      = [r \in Requests |-> "idle"]
    /\ of        = [r \in Requests |-> NoSession]
    /\ idleSeqs  = Seqs
    /\ table     = [q \in Seqs |-> NoRequest]
    /\ cancelled = {}
    /\ pending   = <<>>
    /\ session   = [s \in Sessions |-> NoSeq]
    /\ cells     = [q \in Seqs |-> {}]

Busy     == {q \in Seqs : table[q] # NoRequest}
InFlight == {table[q] : q \in Busy}
Parked   == {pending[i] : i \in DOMAIN pending}
Pins     == {s \in Sessions : session[s] # NoSeq}

Owner(r, s) == IF s = NoSession THEN r ELSE s

\* Deviation: pins are never reclaimed.
ReclaimNone(pin, inUse) == {}

\* The sessions whose pinned sequence is not in flight: reclaim_lru_idle_seq/1
\* may take any of them (the order of their last use is left out).
Reclaimable(pin, inUse) == {s \in Sessions : pin[s] # NoSeq /\ pin[s] \notin inUse}

IdlePins == Reclaimable(session, Busy)

--------------------------------------------------------------------------------
(***************************************************************************)
(* Admission.  A request that is refused (sticky_busy, seq_capacity,       *)
(* no_session, transcript_mismatch, or a sampler that cannot be built)     *)
(* changes nothing but what is said here.                                  *)
(***************************************************************************)
Outstanding(s) == \E r \in Requests : proc[r] # "idle" /\ of[r] = s

Calls(r, s) ==
    /\ mode # "stopped"
    /\ proc[r] = "idle"
    /\ Serialised /\ s \in Sessions \ Pins => ~Outstanding(s)

\* The mailbox with one tick more, or one less.
TickCast  == IF ticks < MaxTicks THEN ticks + 1 ELSE MaxTicks
TickTaken == {ticks - 1} \cup (IF ticks = MaxTicks THEN {MaxTicks} ELSE {})

\* start_admission/4 on sequence q: a tick is cast, whatever the state.
Start(r, s, q) ==
    /\ ticks' = TickCast
    /\ mode' = "running"
    /\ table' = [table EXCEPT ![q] = r]
    /\ proc' = [proc EXCEPT ![r] = "running"]
    /\ of' = [of EXCEPT ![r] = s]
    /\ UNCHANGED <<cancelled, pending>>

\* The sampler cannot be built: the caller gets its error at once.
Rejected == UNCHANGED <<mode, table, cancelled, pending, ticks, proc, of>>

(***************************************************************************)
(* A cold start clears the cells of its sequence; a warm one unpacks a     *)
(* checkpoint over what is there.                                          *)
(***************************************************************************)
Filled(cs, q, o) == {[cs EXCEPT ![q] = {o}], [cs EXCEPT ![q] = @ \cup {o}]}

\* The session's cells are extended in place, because its prompt extends
\* them or shares a prefix with them, or on the caller's word (continue/3).
AdmitSticky(r, s) ==
    /\ Calls(r, s)
    /\ s \in IdlePins
    /\ Start(r, s, session[s])
    /\ cells' = [cells EXCEPT ![session[s]] = @ \cup {s}]
    /\ UNCHANGED <<idleSeqs, session>>

\* Take a free sequence of pool, or fail and leave it there.
FromPool(r, s, pool, cs) ==
    \/ \E q \in pool :
          /\ Start(r, s, q)
          /\ idleSeqs' = pool \ {q}
          /\ cells' \in Filled(cs, q, Owner(r, s))
    \/ Rejected /\ idleSeqs' = pool /\ cells' = cs

\* Deviation: the cells of a pin that is given up stay.
ClearedNot(q) == cells

Cleared(q) == [cells EXCEPT ![q] = {}]

\* The prompt has too little in common with the session's cells.
AdmitDiverged(r, s) ==
    /\ Calls(r, s)
    /\ s \in IdlePins
    /\ session' = [session EXCEPT ![s] = NoSeq]
    /\ FromPool(r, s, idleSeqs \cup {session[s]}, Cleared(session[s]))

\* Deviation: a session whose sequence is in flight is not refused.
AdmitFreshBusy(r, s) ==
    /\ Calls(r, s)
    /\ s \notin IdlePins
    /\ idleSeqs # {}
    /\ FromPool(r, s, idleSeqs, cells)
    /\ UNCHANGED session

AdmitFresh(r, s) ==
    /\ Calls(r, s)
    /\ s \notin Pins
    /\ idleSeqs # {}
    /\ FromPool(r, s, idleSeqs, cells)
    /\ UNCHANGED session

AdmitReclaim(r, s) ==
    /\ Calls(r, s)
    /\ s \notin Pins
    /\ idleSeqs = {}
    /\ \E v \in IdlePins :
          /\ session' = [session EXCEPT ![v] = NoSeq]
          /\ FromPool(r, s, {session[v]}, Cleared(session[v]))

\* on_full is block.
AdmitPark(r, s) ==
    /\ Calls(r, s)
    /\ s \notin Pins
    /\ idleSeqs = {}
    /\ IdlePins = {}
    /\ pending' = Append(pending, r)
    /\ proc' = [proc EXCEPT ![r] = "parked"]
    /\ of' = [of EXCEPT ![r] = s]
    /\ mode' = IF Busy = {} THEN "idle" ELSE mode
    /\ UNCHANGED <<idleSeqs, table, cancelled, session, ticks, cells>>

--------------------------------------------------------------------------------
(***************************************************************************)
(* Cancelling a request, ending and resetting a session.                   *)
(***************************************************************************)
\* A reference that is not in flight is ignored.
Cancel(r) ==
    /\ r \in InFlight
    /\ cancelled' = cancelled \cup {r}
    /\ UNCHANGED <<mode, idleSeqs, table, pending, session, ticks, cells, proc, of>>

\* The callers in S have their answer.
Answered(S) ==
    /\ proc' = [r \in Requests |-> IF r \in S THEN "idle" ELSE proc[r]]
    /\ of'   = [r \in Requests |-> IF r \in S THEN NoSession ELSE of[r]]

\* The sequence of session s goes back to the pool.
DropSession(s) ==
    /\ session' = [session EXCEPT ![s] = NoSeq]
    /\ idleSeqs' = idleSeqs \cup {session[s]}
    /\ cells' = Cleared(session[s])

\* Deviation: a session is dropped although its sequence is in flight.
EndSessionBusy(s) ==
    /\ s \in Pins
    /\ mode # "stopped"
    /\ DropSession(s)
    /\ UNCHANGED <<mode, table, cancelled, pending, ticks, proc, of>>

EndSession(s) ==
    /\ s \in IdlePins
    /\ mode # "stopped"
    /\ DropSession(s)
    /\ UNCHANGED <<mode, table, cancelled, pending, ticks, proc, of>>

\* The request in flight on the session's sequence fails.
ResetSession(s) ==
    /\ s \in Pins
    /\ mode # "stopped"
    /\ DropSession(s)
    /\ table' = [table EXCEPT ![session[s]] = NoRequest]
    /\ Answered({table[session[s]]})
    /\ cancelled' = cancelled \ {table[session[s]]}
    /\ UNCHANGED <<mode, pending, ticks>>

--------------------------------------------------------------------------------
(***************************************************************************)
(* The tick.  step_tick/1 honours cancellations, steps the sequences, and  *)
(* ends the requests that are done, those on the sequences in done: their  *)
(* sequences go back to the pool or stay pinned to their sessions.         *)
(***************************************************************************)
Released(done) == {q \in done : of[table[q]] = NoSession}

\* session_seq after the requests on done ended
PinnedBy(done, pin) ==
    \A s \in Sessions :
        LET turns == {q \in done : of[table[q]] = s} IN
        IF turns = {} THEN pin[s] = session[s] ELSE pin[s] \in turns

(***************************************************************************)
(* dispatch_pending_admits/2: the first k parked callers are served, from  *)
(* the pool and, when it is empty, from reclaimed pins.  A caller whose    *)
(* sampler cannot be built gets its error and leaves the sequence.  The    *)
(* loop ends when nobody waits or every sequence is in flight.             *)
(***************************************************************************)
Dispatch(done, pool, pin, cs, k, failed, taken, new) ==
    LET served  == {pending[i] : i \in 1 .. k}
        avail   == pool \cup {pin[s] : s \in taken}
        left    == {q \in avail : new[q] = NoRequest}
        started == {new[q] : q \in avail \ left}
        over    == {table[q] : q \in done}
    IN
    /\ failed \subseteq served
    /\ started = served \ failed
    /\ \A p, q \in avail \ left : new[p] = new[q] => p = q
    /\ k < Len(pending) => left = {} /\ taken = Reclaimable(pin, Busy \ done)
    /\ k > 0 /\ pending[k] \in failed => left # {}
    /\ taken # {} => /\ k > 0
                     /\ Cardinality(left) <= 1
                     /\ left # {} => pending[k] \in failed
    /\ idleSeqs' = left
    /\ session' = [s \in Sessions |-> IF s \in taken THEN NoSeq ELSE pin[s]]
    /\ table' = [q \in Seqs |-> IF q \in avail THEN new[q]
                                ELSE IF q \in done THEN NoRequest ELSE table[q]]
    /\ \E warm \in SUBSET (avail \ left) :
          cells' = [q \in Seqs |->
                      LET kept == IF q \in avail \ pool THEN {} ELSE cs[q] IN
                      IF q \notin avail \ left THEN kept
                      ELSE {Owner(new[q], of[new[q]])} \cup (IF q \in warm THEN kept ELSE {})]
    /\ pending' = SubSeq(pending, k + 1, Len(pending))
    /\ cancelled' = cancelled \ over
    /\ proc' = [r \in Requests |-> IF r \in started THEN "running"
                                   ELSE IF r \in over \cup failed THEN "idle"
                                   ELSE proc[r]]
    /\ of' = [r \in Requests |-> IF r \in over \cup failed THEN NoSession ELSE of[r]]

\* Deviation: no further tick is cast when a request has ended.
RearmUnlessDone(done) ==
    IF Busy' = {} THEN mode' = "idle" /\ ticks' \in TickTaken
    ELSE mode' = "running" /\ ticks' = IF done = {} THEN ticks ELSE ticks - 1

\* The tick is taken; another is cast while something is in flight.
Rearm(done) ==
    IF Busy' = {} THEN mode' = "idle" /\ ticks' \in TickTaken
    ELSE mode' = "running" /\ ticks' = ticks

StepDone(done) ==
    /\ mode = "running"
    /\ ticks > 0
    /\ done \subseteq Busy
    /\ \A q \in Busy : table[q] \in cancelled => q \in done
    /\ \E pin \in [Sessions -> Seqs \cup {NoSeq}] :
          /\ PinnedBy(done, pin)
          /\ LET pool == idleSeqs \cup Released(done)
                 cs   == [q \in Seqs |-> IF q \in Released(done) THEN {} ELSE cells[q]]
             IN
             \E k \in 0 .. Len(pending), failed \in SUBSET Parked,
                taken \in SUBSET Reclaimable(pin, Busy \ done) :
                \E new \in [pool \cup {pin[s] : s \in taken} -> Parked \cup {NoRequest}] :
                   Dispatch(done, pool, pin, cs, k, failed, taken, new)
    /\ Rearm(done)

\* All bookkeeping is that of a new context.
Renewed ==
    /\ idleSeqs'  = Seqs
    /\ table'     = [q \in Seqs |-> NoRequest]
    /\ cancelled' = {}
    /\ pending'   = <<>>
    /\ session'   = [s \in Sessions |-> NoSeq]
    /\ cells'     = [q \in Seqs |-> {}]

\* Deviation: the parked callers are forgotten.
RecoverForgets ==
    /\ mode = "running"
    /\ ticks > 0
    /\ \E q \in Busy : table[q] \notin cancelled
    /\ Renewed
    /\ Answered(InFlight)
    /\ mode' = "idle"
    /\ ticks' \in TickTaken

\* The step failed and the backend made a new context: recover_in_place/2.
Recover ==
    /\ mode = "running"
    /\ ticks > 0
    /\ \E q \in Busy : table[q] \notin cancelled
    /\ Renewed
    /\ Answered(InFlight \cup Parked)
    /\ mode' = "idle"
    /\ ticks' \in TickTaken

\* In the idle state a tick is dropped.
StrayTick ==
    /\ mode = "idle"
    /\ ticks > 0
    /\ ticks' \in TickTaken
    /\ UNCHANGED <<mode, idleSeqs, table, cancelled, pending, session, cells, proc, of>>

(***************************************************************************)
(* The process stops: a step failed for good, the model was unloaded, or   *)
(* it crashed.  Calls to it fail and those who watch it get 'DOWN'.        *)
(***************************************************************************)
Stop ==
    /\ mode # "stopped"
    /\ Renewed
    /\ Answered(Requests)
    /\ mode' = "stopped"
    /\ ticks' = 0

\* The model is loaded again.
Load ==
    /\ mode = "stopped"
    /\ mode' = "idle"
    /\ UNCHANGED <<idleSeqs, table, cancelled, pending, session, ticks, cells, proc, of>>

Admit(r, s) ==
    \/ AdmitSticky(r, s) \/ AdmitDiverged(r, s) \/ AdmitFresh(r, s)
    \/ AdmitReclaim(r, s) \/ AdmitPark(r, s)

Tick == (\E done \in SUBSET Busy : StepDone(done)) \/ Recover \/ StrayTick

Next ==
    \/ \E r \in Requests, s \in Sessions \cup {NoSession} : Admit(r, s)
    \/ \E r \in Requests : Cancel(r)
    \/ \E s \in Sessions : EndSession(s) \/ ResetSession(s)
    \/ Tick
    \/ Stop
    \/ Load

Spec == Init /\ [][Next]_vars

(***************************************************************************)
(* Fairness: ticks in the mailbox are handled, and a request in flight     *)
(* comes to its end (its response target bounds the tokens it decodes).    *)
(***************************************************************************)
Ends(r) == \E done \in SUBSET Busy : (\E q \in done : table[q] = r) /\ StepDone(done)

FairSpec ==
    /\ Spec
    /\ WF_vars(Tick)
    /\ \A r \in Requests : WF_vars(Ends(r))

--------------------------------------------------------------------------------
\* A sequence is free unless it is in flight or pinned to a session: no
\* order of finishing, ending, resetting, reclaiming, refusing and
\* recovering loses one or frees one twice.
SeqsConserved ==
    \A q \in Seqs : q \in idleSeqs <=> q \notin Busy /\ \A s \in Sessions : session[s] # q

\* Two requests of one session are never in flight together.
SessionExclusive ==
    \A p, q \in Busy :
        of[table[p]] = of[table[q]] /\ of[table[p]] # NoSession => p = q

\* A sequence that a warm start may unpack into is empty, and one in use
\* holds cells of its own session or request only.
CellsOwned ==
    /\ \A q \in idleSeqs : cells[q] = {}
    /\ \A s \in Pins : cells[session[s]] \subseteq {s}
    /\ \A q \in Busy : cells[q] \subseteq {Owner(table[q], of[table[q]])}

\* A caller that waits is parked once or in flight once: no failure, reset
\* or recovery forgets it; and no cancellation outlives its request.
CallersAccounted ==
    /\ \A r \in Requests : proc[r] = "parked" <=> r \in Parked
    /\ \A r \in Requests : proc[r] = "running" <=> r \in InFlight
    /\ \A i, j \in DOMAIN pending : pending[i] = pending[j] => i = j
    /\ \A p, q \in Busy : table[p] = table[q] => p = q
    /\ cancelled \subseteq InFlight

\* While anything is in flight or parked the process is running and a tick
\* is on its way.
TickArmed == Busy # {} \/ pending # <<>> => mode = "running" /\ ticks > 0

\* A tick leaves a caller parked only if every sequence is in flight: idle
\* sessions give up theirs, least recently used first (model.erl:1309-1316,
\* 3103-3117).  The guides say the opposite, that a second session waits for
\* ever when the first one is pinned (clients.md:714-719, loader.erl:395-397);
\* this is what the code does.
DispatchMaximal == [][Tick => pending' = <<>> \/ Busy' = Seqs]_vars

\* Every caller is answered.
CallerAnswered == \A r \in Requests : proc[r] # "idle" ~> proc[r] = "idle"
================================================================================
