--------------------------- MODULE SeqSchedulerProofs ---------------------------
(***************************************************************************)
(* The scheduler of a model process for any requests, sessions and         *)
(* sequences.  Callers are accounted for whatever they do; that sequences  *)
(* are neither lost nor shared needs callers who do not overlap the first  *)
(* turns of a session (Serialised).                                        *)
(***************************************************************************)
EXTENDS SeqScheduler, SequenceTheorems, TLAPS

TickBound == ticks <= MaxTicks

CallerInv == TypeOK /\ TickBound /\ CallersAccounted

\* A free sequence is neither in flight nor pinned.
IdleApart == \A q \in idleSeqs : q \notin Busy /\ \A s \in Sessions : session[s] # q

\* No two sessions pin one sequence.
PinsApart == \A s, t \in Pins : session[s] = session[t] => s = t

\* A pinned sequence is in flight for its own session only.
PinOwner == \A s \in Pins : session[s] \in Busy => of[table[session[s]]] = s

SafeInv == CallerInv /\ IdleApart /\ PinsApart /\ PinOwner /\ CellsOwned

--------------------------------------------------------------------------------
(***************************************************************************)
(* The callers.                                                            *)
(***************************************************************************)
LEMMA TicksStay ==
    ASSUME ticks \in Nat, TickBound
    PROVE  /\ TickCast \in Nat /\ TickCast <= MaxTicks /\ TickCast > 0
           /\ ticks > 0 => \A t \in TickTaken : t \in Nat /\ t <= MaxTicks
BY SchedulerAssumption DEF TickBound, TickCast, TickTaken

\* What a request in flight, and a parked one, is.
LEMMA Standing ==
    ASSUME CallerInv
    PROVE  /\ InFlight \subseteq Requests
           /\ Parked \subseteq Requests
           /\ InFlight \cap Parked = {}
           /\ Busy \subseteq Seqs
           /\ \A q \in Busy : table[q] \in Requests
           /\ \A r \in Requests : proc[r] = "idle" => r \notin InFlight \cup Parked
BY DEF CallerInv, TypeOK, CallersAccounted, InFlight, Parked, Busy

LEMMA InitCallers == Init => CallerInv
BY SchedulerAssumption
   DEF Init, CallerInv, TypeOK, TickBound, CallersAccounted, InFlight, Parked, Busy

\* An idle caller's request is put on a sequence that is not in flight.
LEMMA StartCallers ==
    ASSUME CallerInv, NEW r \in Requests, NEW s \in Sessions \cup {NoSession},
           NEW q \in Seqs \ Busy, proc[r] = "idle", Start(r, s, q),
           idleSeqs' \subseteq Seqs, session' \in [Sessions -> Seqs \cup {NoSeq}],
           cells' \in [Seqs -> SUBSET Owners]
    PROVE  CallerInv'
<1>1. table' = [table EXCEPT ![q] = r] /\ proc' = [proc EXCEPT ![r] = "running"]
      /\ of' = [of EXCEPT ![r] = s] /\ cancelled' = cancelled /\ pending' = pending
      /\ mode' = "running" /\ ticks' = TickCast
  BY DEF Start
<1>2. Parked' = Parked
  BY <1>1 DEF Parked
<1>3. Busy' = Busy \cup {q} /\ r # NoRequest
  BY <1>1, SchedulerAssumption DEF Busy, CallerInv, TypeOK
<1>4. InFlight' = InFlight \cup {r}
  BY <1>1, <1>3, SchedulerAssumption DEF InFlight, Busy, CallerInv, TypeOK
<1>5. TypeOK' /\ TickBound'
  BY <1>1, TicksStay DEF CallerInv, TypeOK, TickBound
<1>6. r \notin InFlight /\ r \notin Parked
  BY Standing
<1>7. CallersAccounted'
  <2>1. proc' = [x \in Requests |-> IF x = r THEN "running" ELSE proc[x]]
    BY <1>1 DEF CallerInv, TypeOK
  <2>2. \A x \in Requests : proc'[x] = "parked" <=> x \in Parked'
    BY <1>2, <1>6, <2>1 DEF CallerInv, CallersAccounted
  <2>3. \A x \in Requests : proc'[x] = "running" <=> x \in InFlight'
    BY <1>4, <2>1 DEF CallerInv, CallersAccounted
  <2>4. \A p, o \in Busy' : table'[p] = table'[o] => p = o
    <3>1. \A p \in Busy : p # q /\ table'[p] = table[p] /\ table[p] # r
      BY <1>1, <1>6 DEF CallerInv, TypeOK, InFlight, Busy
    <3>2. table'[q] = r
      BY <1>1 DEF CallerInv, TypeOK
    <3> QED BY <1>3, <3>1, <3>2 DEF CallerInv, CallersAccounted
  <2> QED BY <1>1, <1>4, <2>2, <2>3, <2>4 DEF CallerInv, CallersAccounted
<1> QED BY <1>5, <1>7 DEF CallerInv

\* A caller that is refused leaves everything about the callers as it is.
LEMMA RejectedCallers ==
    ASSUME CallerInv, Rejected,
           idleSeqs' \subseteq Seqs, session' \in [Sessions -> Seqs \cup {NoSeq}],
           cells' \in [Seqs -> SUBSET Owners]
    PROVE  CallerInv'
BY DEF Rejected, CallerInv, TypeOK, TickBound, CallersAccounted, InFlight, Parked, Busy

LEMMA OwnerType ==
    ASSUME NEW r \in Requests, NEW s \in Sessions \cup {NoSession}
    PROVE  Owner(r, s) \in Owners
BY DEF Owner, Owners

--------------------------------------------------------------------------------
(***************************************************************************)
(* The sequences: a request put on a free sequence of pool, where session' *)
(* keeps some of the pins, and pool is apart from these.                   *)
(***************************************************************************)
LEMMA FromPoolSafe ==
    ASSUME SafeInv, NEW r \in Requests, NEW s \in Sessions \cup {NoSession},
           proc[r] = "idle",
           NEW pool \in SUBSET Seqs, NEW cs \in [Seqs -> SUBSET Owners],
           session' \in [Sessions -> Seqs \cup {NoSeq}],
           \A t \in Sessions : session'[t] \in {session[t], NoSeq},
           \A q \in pool : q \notin Busy /\ cs[q] = {},
           \A q \in pool : \A t \in Sessions : session'[t] # q,
           \A q \in Seqs \ pool : cs[q] = cells[q],
           FromPool(r, s, pool, cs)
    PROVE  SafeInv'
<1>0. CallerInv /\ PinsApart /\ PinOwner /\ CellsOwned /\ NoSeq \notin Seqs
  BY SchedulerAssumption DEF SafeInv
<1>1. ASSUME NEW q \in pool, Start(r, s, q), idleSeqs' = pool \ {q},
             cells' \in Filled(cs, q, Owner(r, s))
      PROVE  SafeInv'
  <2> DEFINE o == Owner(r, s)
  <2>1. o \in Owners
    BY OwnerType
  <2>2. /\ table' = [table EXCEPT ![q] = r]
        /\ of' = [of EXCEPT ![r] = s]
    BY <1>1 DEF Start
  <2>3. cells' \in [Seqs -> SUBSET Owners] /\ cells'[q] = {o}
        /\ \A x \in Seqs \ {q} : cells'[x] = cs[x]
    BY <1>1, <2>1 DEF Filled
  <2>4. CallerInv'
    BY <1>0, <1>1, <2>3, StartCallers
  <2>5. r \notin InFlight /\ r # NoRequest
    BY <1>0, Standing, SchedulerAssumption
  <2>6. Busy' = Busy \cup {q} /\ \A x \in Busy : table'[x] = table[x] /\ x # q
    BY <1>0, <2>2, <2>5 DEF Busy, CallerInv, TypeOK
  <2>7. table'[q] = r /\ of'[r] = s
    BY <1>0, <2>2 DEF CallerInv, TypeOK
  <2>8. \A x \in Busy : of'[table'[x]] = of[table[x]]
    BY <1>0, <2>2, <2>5, <2>6 DEF InFlight, Busy, CallerInv, TypeOK
  <2>9. \A t \in Pins' : t \in Pins /\ session'[t] = session[t] /\ session[t] \in Seqs \ pool
    BY <1>0 DEF Pins, CallerInv, TypeOK
  <2>10. IdleApart'
    BY <1>1, <2>6 DEF IdleApart
  <2>11. PinsApart'
    BY <1>0, <2>9 DEF PinsApart
  <2>12. PinOwner'
    BY <1>0, <2>6, <2>8, <2>9 DEF PinOwner
  <2>13. CellsOwned'
    <3>1. \A x \in idleSeqs' : cells'[x] = {}
      BY <1>1, <2>3
    <3>2. \A t \in Pins' : cells'[session'[t]] \subseteq {t}
      BY <1>0, <2>3, <2>9 DEF CellsOwned
    <3>3. ASSUME NEW x \in Busy' PROVE cells'[x] \subseteq {Owner(table'[x], of'[table'[x]])}
      <4>1. CASE x = q
        BY <2>3, <2>7, <4>1
      <4>2. CASE x # q
        <5>1. x \in Busy /\ x \in Seqs \ pool
          BY <2>6, <4>2 DEF Busy
        <5> QED BY <1>0, <2>3, <2>6, <2>8, <4>2, <5>1 DEF CellsOwned
      <4> QED BY <4>1, <4>2
    <3> QED BY <3>1, <3>2, <3>3 DEF CellsOwned
  <2> QED BY <2>4, <2>10, <2>11, <2>12, <2>13 DEF SafeInv
<1>2. ASSUME Rejected, idleSeqs' = pool, cells' = cs
      PROVE  SafeInv'
  <2>1. CallerInv'
    BY <1>0, <1>2, RejectedCallers
  <2>2. Busy' = Busy /\ table' = table /\ of' = of
    BY <1>2 DEF Rejected, Busy
  <2>3. \A t \in Pins' : t \in Pins /\ session'[t] = session[t] /\ session[t] \in Seqs \ pool
    BY <1>0 DEF Pins, CallerInv, TypeOK
  <2>4. IdleApart' /\ PinsApart' /\ PinOwner'
    BY <1>0, <1>2, <2>2, <2>3 DEF IdleApart, PinsApart, PinOwner
  <2>5. Busy \subseteq Seqs \ pool
    BY DEF Busy
  <2>6. CellsOwned'
    BY <1>0, <1>2, <2>2, <2>3, <2>5 DEF CellsOwned
  <2> QED BY <2>1, <2>4, <2>6 DEF SafeInv
<1> QED BY <1>1, <1>2 DEF FromPool

LEMMA AdmitStickySafe ==
    ASSUME SafeInv, NEW r \in Requests, NEW s \in Sessions \cup {NoSession}, AdmitSticky(r, s)
    PROVE  SafeInv'
<1> DEFINE q == session[s]
<1>1. /\ s \in Sessions /\ q \in Seqs \ Busy /\ proc[r] = "idle" /\ Start(r, s, q)
      /\ cells' = [cells EXCEPT ![q] = @ \cup {s}] /\ idleSeqs' = idleSeqs
      /\ session' = session
  BY DEF AdmitSticky, Calls, IdlePins, Reclaimable, SafeInv, CallerInv, TypeOK
<1>2. CallerInv /\ IdleApart /\ PinsApart /\ PinOwner /\ CellsOwned /\ NoSession \notin Sessions
  BY SchedulerAssumption DEF SafeInv
<1>3. cells' \in [Seqs -> SUBSET Owners]
  BY <1>1, <1>2 DEF CallerInv, TypeOK, Owners
<1>4. CallerInv'
  <2> HIDE DEF q
  <2>1. session' \in [Sessions -> Seqs \cup {NoSeq}] /\ idleSeqs' \subseteq Seqs
    BY <1>1, <1>2 DEF CallerInv, TypeOK
  <2> QED BY <1>1, <1>2, <1>3, <2>1, StartCallers
<1>5. table' = [table EXCEPT ![q] = r] /\ of' = [of EXCEPT ![r] = s]
  BY <1>1 DEF Start
<1>6. r \notin InFlight /\ r # NoRequest
  BY <1>1, <1>2, Standing, SchedulerAssumption
<1>7. Busy' = Busy \cup {q} /\ \A x \in Busy : table'[x] = table[x]
  BY <1>1, <1>2, <1>5, <1>6 DEF Busy, CallerInv, TypeOK
<1>8. table'[q] = r /\ of'[r] = s
  BY <1>1, <1>2, <1>5 DEF CallerInv, TypeOK
<1>9. \A x \in Busy : of'[table'[x]] = of[table[x]]
  BY <1>2, <1>5, <1>6, <1>7 DEF InFlight, Busy, CallerInv, TypeOK
<1>10. IdleApart' /\ PinsApart'
  BY <1>1, <1>2, <1>7 DEF IdleApart, PinsApart, Pins
<1>11. Pins' = Pins /\ s \in Pins
  BY <1>1, SchedulerAssumption DEF Pins
<1>12. PinOwner'
  BY <1>1, <1>2, <1>7, <1>8, <1>9, <1>11 DEF PinOwner, PinsApart
<1>13. CellsOwned'
  <2>1. cells[q] \subseteq {s}
    BY <1>2, <1>11 DEF CellsOwned
  <2>2. cells'[q] = {s} /\ \A x \in Seqs \ {q} : cells'[x] = cells[x]
    BY <1>1, <1>2, <2>1 DEF CallerInv, TypeOK
  <2>3. \A x \in idleSeqs' : cells'[x] = {}
    BY <1>1, <1>2, <2>2 DEF IdleApart, CellsOwned, CallerInv, TypeOK
  <2>4. \A t \in Pins' : cells'[session'[t]] \subseteq {t}
    <3>1. \A t \in Pins : session[t] \in Seqs /\ (t # s => session[t] # q)
      BY <1>2, <1>11 DEF PinsApart, Pins, CallerInv, TypeOK
    <3> QED BY <1>1, <1>2, <1>11, <2>2, <3>1 DEF CellsOwned
  <2>5. Owner(r, s) = s
    BY <1>1, <1>2 DEF Owner
  <2>6. \A x \in Busy' : cells'[x] \subseteq {Owner(table'[x], of'[table'[x]])}
    <3>1. \A x \in Busy : x \in Seqs /\ x # q
      BY <1>1 DEF Busy
    <3> QED BY <1>2, <1>7, <1>8, <1>9, <2>2, <2>5, <3>1 DEF CellsOwned
  <2> QED BY <2>3, <2>4, <2>6 DEF CellsOwned
<1> QED BY <1>4, <1>10, <1>12, <1>13 DEF SafeInv

LEMMA ClearedType ==
    ASSUME TypeOK, NEW q \in Seqs
    PROVE  /\ Cleared(q) \in [Seqs -> SUBSET Owners]
           /\ Cleared(q)[q] = {}
           /\ \A x \in Seqs \ {q} : Cleared(q)[x] = cells[x]
BY DEF TypeOK, Cleared

\* A pin that is given up while its sequence is not in flight.
LEMMA GiveUpPin ==
    ASSUME SafeInv, NEW s \in IdlePins, session' = [session EXCEPT ![s] = NoSeq]
    PROVE  /\ s \in Sessions /\ session[s] \in Seqs \ Busy
           /\ session' \in [Sessions -> Seqs \cup {NoSeq}]
           /\ session'[s] = NoSeq
           /\ \A t \in Sessions : session'[t] \in {session[t], NoSeq} /\ session'[t] # session[s]
BY DEF SafeInv, CallerInv, TypeOK, IdlePins, Reclaimable, PinsApart, Pins

LEMMA AdmitDivergedSafe ==
    ASSUME SafeInv, NEW r \in Requests, NEW s \in Sessions \cup {NoSession}, AdmitDiverged(r, s)
    PROVE  SafeInv'
<1>1. /\ s \in IdlePins /\ session' = [session EXCEPT ![s] = NoSeq] /\ proc[r] = "idle"
      /\ FromPool(r, s, idleSeqs \cup {session[s]}, Cleared(session[s]))
  BY DEF AdmitDiverged, Calls
<1>2. /\ s \in Sessions /\ session[s] \in Seqs \ Busy
      /\ session' \in [Sessions -> Seqs \cup {NoSeq}]
      /\ \A t \in Sessions : session'[t] \in {session[t], NoSeq} /\ session'[t] # session[s]
  BY <1>1, GiveUpPin
<1> DEFINE pool == idleSeqs \cup {session[s]}
           cs == Cleared(session[s])
<1>3. /\ cs \in [Seqs -> SUBSET Owners] /\ cs[session[s]] = {}
      /\ \A x \in Seqs \ {session[s]} : cs[x] = cells[x]
  BY <1>2, ClearedType DEF SafeInv, CallerInv
<1> HIDE DEF cs
<1>4. IdleApart /\ CellsOwned /\ idleSeqs \subseteq Seqs /\ NoSeq \notin Seqs
  BY SchedulerAssumption DEF SafeInv, CallerInv, TypeOK
<1>5. pool \in SUBSET Seqs
  BY <1>2, <1>4
<1>6. \A q \in pool : q \notin Busy /\ cs[q] = {}
  BY <1>2, <1>3, <1>4 DEF IdleApart, CellsOwned
<1>7. \A q \in pool : \A t \in Sessions : session'[t] # q
  BY <1>2, <1>4 DEF IdleApart
<1>8. \A q \in Seqs \ pool : cs[q] = cells[q]
  BY <1>3
<1>9. FromPool(r, s, pool, cs)
  BY <1>1 DEF cs
<1> HIDE DEF pool
<1> QED BY <1>1, <1>2, <1>3, <1>5, <1>6, <1>7, <1>8, <1>9, FromPoolSafe

LEMMA AdmitFreshSafe ==
    ASSUME SafeInv, NEW r \in Requests, NEW s \in Sessions \cup {NoSession}, AdmitFresh(r, s)
    PROVE  SafeInv'
<1>1. proc[r] = "idle" /\ session' = session /\ FromPool(r, s, idleSeqs, cells)
  BY DEF AdmitFresh, Calls
<1>2. /\ idleSeqs \in SUBSET Seqs /\ cells \in [Seqs -> SUBSET Owners]
      /\ session \in [Sessions -> Seqs \cup {NoSeq}] /\ IdleApart /\ CellsOwned
  BY DEF SafeInv, CallerInv, TypeOK
<1>3. \A q \in idleSeqs : q \notin Busy /\ cells[q] = {} /\ \A t \in Sessions : session'[t] # q
  BY <1>1, <1>2 DEF IdleApart, CellsOwned
<1> QED BY <1>1, <1>2, <1>3, FromPoolSafe

LEMMA AdmitReclaimSafe ==
    ASSUME SafeInv, NEW r \in Requests, NEW s \in Sessions \cup {NoSession}, AdmitReclaim(r, s)
    PROVE  SafeInv'
<1>1. PICK v \in IdlePins : /\ session' = [session EXCEPT ![v] = NoSeq]
                            /\ FromPool(r, s, {session[v]}, Cleared(session[v]))
  BY DEF AdmitReclaim
<1>2. proc[r] = "idle"
  BY DEF AdmitReclaim, Calls
<1>3. /\ session[v] \in Seqs \ Busy /\ session' \in [Sessions -> Seqs \cup {NoSeq}]
      /\ \A t \in Sessions : session'[t] \in {session[t], NoSeq} /\ session'[t] # session[v]
  BY <1>1, GiveUpPin
<1> DEFINE cs == Cleared(session[v])
<1>4. /\ cs \in [Seqs -> SUBSET Owners] /\ cs[session[v]] = {}
      /\ \A x \in Seqs \ {session[v]} : cs[x] = cells[x]
  BY <1>3, ClearedType DEF SafeInv, CallerInv
<1>5. FromPool(r, s, {session[v]}, cs)
  BY <1>1
<1> HIDE DEF cs
<1> QED BY <1>2, <1>3, <1>4, <1>5, FromPoolSafe

\* Appending a caller to the FIFO.
LEMMA AppendParked ==
    ASSUME NEW r \in Requests, pending \in Seq(Requests), pending' = Append(pending, r),
           r \notin Parked, \A i, j \in DOMAIN pending : pending[i] = pending[j] => i = j
    PROVE  /\ pending' \in Seq(Requests)
           /\ Parked' = Parked \cup {r}
           /\ \A i, j \in DOMAIN pending' : pending'[i] = pending'[j] => i = j
<1>1. /\ pending' \in Seq(Requests) /\ Len(pending') = Len(pending) + 1
      /\ \A i \in 1 .. Len(pending) : pending'[i] = pending[i]
      /\ pending'[Len(pending) + 1] = r
  BY AppendProperties
<1>2. DOMAIN pending = 1 .. Len(pending) /\ Len(pending) \in Nat
      /\ DOMAIN pending' = 1 .. Len(pending) + 1
  BY <1>1
<1>3. \A i \in DOMAIN pending' : i \in DOMAIN pending \/ i = Len(pending) + 1
  BY <1>2
<1>4. \A i \in DOMAIN pending : i \in DOMAIN pending' /\ pending[i] # r
  BY <1>2 DEF Parked
<1>5. Parked' = Parked \cup {r}
  BY <1>1, <1>2, <1>3, <1>4 DEF Parked
<1>6. \A i, j \in DOMAIN pending' : pending'[i] = pending'[j] => i = j
  BY <1>1, <1>2, <1>3, <1>4
<1> QED BY <1>1, <1>5, <1>6

\* The parts about sequences stand when only callers that are not in flight
\* change their session.
LEMMA SeqsStand ==
    ASSUME SafeInv, UNCHANGED <<idleSeqs, table, session, cells>>,
           \A r \in InFlight : of'[r] = of[r]
    PROVE  /\ IdleApart' /\ PinsApart' /\ PinOwner' /\ CellsOwned'
           /\ Busy' = Busy /\ InFlight' = InFlight
BY DEF SafeInv, IdleApart, PinsApart, PinOwner, CellsOwned, Busy, InFlight, Pins

LEMMA AdmitParkSafe ==
    ASSUME SafeInv, NEW r \in Requests, NEW s \in Sessions \cup {NoSession}, AdmitPark(r, s)
    PROVE  SafeInv'
<1>1. /\ pending' = Append(pending, r) /\ proc' = [proc EXCEPT ![r] = "parked"]
      /\ of' = [of EXCEPT ![r] = s] /\ mode' \in {"idle", mode} /\ proc[r] = "idle"
      /\ UNCHANGED <<idleSeqs, table, cancelled, session, ticks, cells>>
  BY DEF AdmitPark, Calls
<1>2. CallerInv
  BY DEF SafeInv
<1>3. r \notin InFlight /\ r \notin Parked /\ InFlight \subseteq Requests
  BY <1>1, <1>2, Standing
<1>4. /\ pending' \in Seq(Requests)
      /\ Parked' = Parked \cup {r}
      /\ \A i, j \in DOMAIN pending' : pending'[i] = pending'[j] => i = j
  BY <1>1, <1>2, <1>3, AppendParked DEF CallerInv, TypeOK, CallersAccounted
<1>5. /\ IdleApart' /\ PinsApart' /\ PinOwner' /\ CellsOwned'
      /\ Busy' = Busy /\ InFlight' = InFlight
  <2>1. \A x \in InFlight : of'[x] = of[x]
    BY <1>1, <1>2, <1>3 DEF CallerInv, TypeOK
  <2> QED BY <1>1, <2>1, SeqsStand
<1>6. TypeOK' /\ TickBound'
  BY <1>1, <1>2, <1>4 DEF CallerInv, TypeOK, TickBound
<1>7. proc' = [x \in Requests |-> IF x = r THEN "parked" ELSE proc[x]]
  BY <1>1, <1>2 DEF CallerInv, TypeOK
<1>8. CallersAccounted'
  BY <1>1, <1>2, <1>3, <1>4, <1>5, <1>7 DEF CallerInv, CallersAccounted
<1> QED BY <1>5, <1>6, <1>8 DEF SafeInv, CallerInv

LEMMA CancelSafe ==
    ASSUME SafeInv, NEW r \in Requests, Cancel(r)
    PROVE  SafeInv'
<1>1. /\ r \in InFlight /\ cancelled' = cancelled \cup {r}
      /\ UNCHANGED <<mode, idleSeqs, table, pending, session, ticks, cells, proc, of>>
  BY DEF Cancel
<1>2. /\ IdleApart' /\ PinsApart' /\ PinOwner' /\ CellsOwned'
      /\ Busy' = Busy /\ InFlight' = InFlight /\ Parked' = Parked
  BY <1>1, SeqsStand DEF Parked
<1>3. CallerInv'
  BY <1>1, <1>2 DEF SafeInv, CallerInv, TypeOK, TickBound, CallersAccounted
<1> QED BY <1>2, <1>3 DEF SafeInv

\* A session's sequence goes back to the pool, not or no longer in flight.
LEMMA DropSafe ==
    ASSUME SafeInv, NEW s \in Pins, DropSession(s), CallerInv',
           Busy' = Busy \ {session[s]}, \A q \in Busy' : table'[q] = table[q],
           \A q \in Busy' : of'[table[q]] = of[table[q]]
    PROVE  IdleApart' /\ PinsApart' /\ PinOwner' /\ CellsOwned'
<1> DEFINE q == session[s]
<1>1. /\ session' = [session EXCEPT ![s] = NoSeq] /\ idleSeqs' = idleSeqs \cup {q}
      /\ cells' = Cleared(q)
  BY DEF DropSession
<1>2. TypeOK /\ IdleApart /\ PinsApart /\ PinOwner /\ CellsOwned
  BY DEF SafeInv, CallerInv
<1>3. q \in Seqs /\ s \in Sessions
  BY <1>2 DEF Pins, TypeOK
<1>4. cells'[q] = {} /\ \A x \in Seqs \ {q} : cells'[x] = cells[x]
  BY <1>1, <1>2, <1>3, ClearedType
<1>5. Pins' = Pins \ {s} /\ \A t \in Pins' : session'[t] = session[t] /\ session[t] \in Seqs \ {q}
  BY <1>1, <1>2, <1>3 DEF Pins, TypeOK, PinsApart
<1>6. \A t \in Sessions : session'[t] \in {session[t], NoSeq} /\ session'[t] # q
  BY <1>1, <1>2, <1>3, SchedulerAssumption DEF Pins, TypeOK, PinsApart
<1>7. IdleApart'
  <2>1. \A x \in idleSeqs : x \in Seqs
    BY <1>2 DEF TypeOK
  <2> QED BY <1>1, <1>2, <1>6, <2>1, SchedulerAssumption DEF IdleApart
<1>8. PinsApart'
  BY <1>2, <1>5 DEF PinsApart
<1>9. PinOwner'
  BY <1>2, <1>5 DEF PinOwner
<1>10. CellsOwned'
  <2>1. \A x \in idleSeqs' : cells'[x] = {}
    BY <1>1, <1>2, <1>4 DEF CellsOwned, TypeOK
  <2>2. \A t \in Pins' : cells'[session'[t]] \subseteq {t}
    BY <1>2, <1>4, <1>5 DEF CellsOwned
  <2>3. \A x \in Busy' : x \in Busy /\ x \in Seqs \ {q}
    BY DEF Busy
  <2>4. \A x \in Busy' : cells'[x] \subseteq {Owner(table'[x], of'[table'[x]])}
    BY <1>2, <1>4, <2>3 DEF CellsOwned
  <2> QED BY <2>1, <2>2, <2>4 DEF CellsOwned
<1> QED BY <1>7, <1>8, <1>9, <1>10

LEMMA EndSessionSafe ==
    ASSUME SafeInv, NEW s \in Sessions, EndSession(s)
    PROVE  SafeInv'
<1>1. /\ s \in Pins /\ session[s] \notin Busy /\ session[s] \in Seqs /\ DropSession(s)
      /\ UNCHANGED <<mode, table, cancelled, pending, ticks, proc, of>>
  BY DEF EndSession, IdlePins, Reclaimable, Pins, SafeInv, CallerInv, TypeOK
<1>2. TypeOK /\ TickBound /\ CallersAccounted
  BY DEF SafeInv, CallerInv
<1>3. Busy' = Busy /\ InFlight' = InFlight /\ Parked' = Parked
  BY <1>1 DEF Busy, InFlight, Parked
<1>4. TypeOK'
  <2>1. cells' \in [Seqs -> SUBSET Owners]
    BY <1>1, <1>2, ClearedType DEF DropSession
  <2> QED BY <1>1, <1>2, <2>1 DEF DropSession, TypeOK
<1>5. CallerInv'
  BY <1>1, <1>2, <1>3, <1>4 DEF CallerInv, TickBound, CallersAccounted
<1>6. IdleApart' /\ PinsApart' /\ PinOwner' /\ CellsOwned'
  BY <1>1, <1>3, <1>5, DropSafe
<1> QED BY <1>5, <1>6 DEF SafeInv

LEMMA ResetSessionSafe ==
    ASSUME SafeInv, NEW s \in Sessions, ResetSession(s)
    PROVE  SafeInv'
<1> DEFINE q == session[s]
           r == table[q]
<1>1. /\ s \in Pins /\ DropSession(s) /\ table' = [table EXCEPT ![q] = NoRequest]
      /\ Answered({r}) /\ cancelled' = cancelled \ {r}
      /\ UNCHANGED <<mode, pending, ticks>>
  BY DEF ResetSession
<1>2. TypeOK /\ TickBound /\ CallersAccounted /\ NoRequest \notin Requests
  BY SchedulerAssumption DEF SafeInv, CallerInv
<1>3. q \in Seqs /\ r \in Requests \cup {NoRequest}
  BY <1>1, <1>2 DEF Pins, TypeOK
<1>4. Busy' = Busy \ {q} /\ \A x \in Busy' : table'[x] = table[x]
  BY <1>1, <1>2, <1>3 DEF Busy, TypeOK
<1>5. \A x \in Busy' : table[x] \in Requests /\ table[x] # r
  BY <1>2, <1>3, <1>4 DEF Busy, TypeOK, CallersAccounted
<1>6. InFlight' = InFlight \ {r}
  <2>1. InFlight' \subseteq InFlight \ {r}
    BY <1>4, <1>5 DEF InFlight
  <2>2. ASSUME NEW x \in Busy, table[x] # r PROVE table[x] \in InFlight'
    <3>1. x \in Busy'
      BY <1>4, <2>2
    <3> QED BY <1>4, <3>1 DEF InFlight
  <2> QED BY <2>1, <2>2 DEF InFlight
<1>7. /\ \A x \in Requests : proc'[x] = IF x = r THEN "idle" ELSE proc[x]
      /\ \A x \in Requests : of'[x] = IF x = r THEN NoSession ELSE of[x]
  BY <1>1 DEF Answered
<1>8. TypeOK'
  <2>1. cells' \in [Seqs -> SUBSET Owners]
    BY <1>1, <1>2, <1>3, ClearedType DEF DropSession
  <2>2. proc' \in [Requests -> {"idle", "parked", "running"}]
        /\ of' \in [Requests -> Sessions \cup {NoSession}]
    BY <1>1, <1>2 DEF Answered, TypeOK
  <2>3. table' \in [Seqs -> Requests \cup {NoRequest}] /\ cancelled' \subseteq Requests
    BY <1>1, <1>2 DEF TypeOK
  <2>4. session' \in [Sessions -> Seqs \cup {NoSeq}] /\ idleSeqs' \subseteq Seqs
    BY <1>1, <1>2, <1>3 DEF DropSession, TypeOK
  <2> QED BY <1>1, <1>2, <2>1, <2>2, <2>3, <2>4 DEF TypeOK
<1>9. CallersAccounted'
  <2>1. Parked' = Parked /\ r \notin Parked
    BY <1>1, <1>2, <1>3 DEF Parked, CallersAccounted, InFlight, Busy, TypeOK
  <2>2. \A x \in Requests : proc'[x] = "parked" <=> x \in Parked'
    BY <1>2, <1>7, <2>1 DEF CallersAccounted
  <2>3. \A x \in Requests : proc'[x] = "running" <=> x \in InFlight'
    BY <1>2, <1>6, <1>7 DEF CallersAccounted
  <2>4. \A p, o \in Busy' : table'[p] = table'[o] => p = o
    BY <1>2, <1>4 DEF CallersAccounted
  <2> QED BY <1>1, <1>2, <1>6, <2>2, <2>3, <2>4 DEF CallersAccounted
<1>10. CallerInv'
  BY <1>1, <1>2, <1>8, <1>9 DEF CallerInv, TickBound
<1>11. \A x \in Busy' : of'[table[x]] = of[table[x]]
  BY <1>5, <1>7
<1>12. IdleApart' /\ PinsApart' /\ PinOwner' /\ CellsOwned'
  BY <1>1, <1>4, <1>10, <1>11, DropSafe
<1> QED BY <1>10, <1>12 DEF SafeInv

\* A new context, with the callers in S answered.
LEMMA RenewedSafe ==
    ASSUME SafeInv, Renewed, NEW S, InFlight \cup Parked \subseteq S, Answered(S),
           mode' \in {"idle", "stopped"}, ticks' \in Nat, ticks' <= MaxTicks
    PROVE  SafeInv' /\ Busy' = {} /\ Pins' = {} /\ \A r \in Requests : proc'[r] = "idle"
<1>1. TypeOK /\ CallersAccounted
  BY DEF SafeInv, CallerInv
<1>2. Busy' = {} /\ Pins' = {} /\ InFlight' = {} /\ Parked' = {}
  BY DEF Renewed, Busy, Pins, InFlight, Parked
<1>3. TypeOK' /\ TickBound'
  BY <1>1 DEF TypeOK, TickBound, Renewed, Answered
<1>4. \A r \in Requests : proc'[r] = "idle"
  BY <1>1 DEF Answered, CallersAccounted, TypeOK
<1>5. CallersAccounted'
  BY <1>2, <1>4 DEF CallersAccounted, Renewed
<1>6. IdleApart' /\ PinsApart' /\ PinOwner' /\ CellsOwned'
  <2>1. \A s \in Sessions : session'[s] = NoSeq
    BY DEF Renewed
  <2> QED BY <1>2, <2>1, SchedulerAssumption DEF IdleApart, PinsApart, PinOwner, CellsOwned, Renewed
<1> QED BY <1>2, <1>3, <1>4, <1>5, <1>6 DEF SafeInv, CallerInv

LEMMA RecoverSafe ==
    ASSUME SafeInv, Recover
    PROVE  SafeInv' /\ Busy' = {} /\ Pins' = {} /\ pending' = <<>>
           /\ \A r \in Requests : proc'[r] = "idle"
<1>1. ticks' \in Nat /\ ticks' <= MaxTicks
  BY TicksStay DEF Recover, SafeInv, CallerInv, TypeOK
<1> QED BY <1>1, RenewedSafe DEF Recover, Renewed

LEMMA StopSafe ==
    ASSUME SafeInv, Stop
    PROVE  SafeInv' /\ Busy' = {} /\ Pins' = {} /\ pending' = <<>>
           /\ \A r \in Requests : proc'[r] = "idle"
<1>1. InFlight \cup Parked \subseteq Requests
  BY Standing DEF SafeInv
<1>2. 0 <= MaxTicks
  BY SchedulerAssumption
<1> QED BY <1>1, <1>2, RenewedSafe DEF Stop, Renewed

\* Only the mode or the ticks change.
LEMMA QuietSafe ==
    ASSUME SafeInv, mode' \in {"idle", "running", "stopped"}, ticks' \in Nat, ticks' <= MaxTicks,
           UNCHANGED <<idleSeqs, table, cancelled, pending, session, cells, proc, of>>
    PROVE  SafeInv'
<1>1. Busy' = Busy /\ InFlight' = InFlight /\ Parked' = Parked
  BY DEF Busy, InFlight, Parked
<1>2. CallerInv'
  BY <1>1 DEF SafeInv, CallerInv, TypeOK, TickBound, CallersAccounted
<1> QED BY <1>2, SeqsStand DEF SafeInv

--------------------------------------------------------------------------------
(***************************************************************************)
(* The tick.  After the requests on the sequences in done have ended, and  *)
(* before the parked callers are served, pin is session_seq, Pool the free *)
(* sequences and Kept the cells.                                           *)
(***************************************************************************)
Pool(done) == idleSeqs \cup Released(done)
Kept(done) == [q \in Seqs |-> IF q \in Released(done) THEN {} ELSE cells[q]]

Settled(done, pin) ==
    /\ \A q \in Pool(done) : /\ q \in Seqs \ (Busy \ done)
                             /\ Kept(done)[q] = {}
                             /\ \A s \in Sessions : pin[s] # q
    /\ \A s, t \in Sessions : pin[s] = pin[t] /\ pin[s] # NoSeq => s = t
    /\ \A s \in Sessions : pin[s] \in Busy \ done => of[table[pin[s]]] = s
    /\ \A s \in Sessions : pin[s] # NoSeq => Kept(done)[pin[s]] \subseteq {s}
    /\ \A q \in Busy \ done : Kept(done)[q] = cells[q]

\* A session has the pin it had, or one of its requests that ended.
LEMMA PinnedEither ==
    ASSUME NEW done, NEW pin, PinnedBy(done, pin), NEW s \in Sessions
    PROVE  \/ pin[s] = session[s] /\ \A q \in done : of[table[q]] # s
           \/ pin[s] \in done /\ of[table[pin[s]]] = s
BY DEF PinnedBy

LEMMA EndedSettled ==
    ASSUME SafeInv, NEW done \in SUBSET Busy, NEW pin \in [Sessions -> Seqs \cup {NoSeq}],
           PinnedBy(done, pin)
    PROVE  Settled(done, pin)
<1>1. /\ TypeOK /\ IdleApart /\ PinsApart /\ PinOwner /\ CellsOwned
      /\ NoSession \notin Sessions /\ NoSeq \notin Seqs
  BY SchedulerAssumption DEF SafeInv, CallerInv
<1>2. Busy \subseteq Seqs /\ Released(done) \subseteq done /\ Released(done) \subseteq Seqs
  BY DEF Busy, Released
<1>3. ASSUME NEW q \in Pool(done)
      PROVE  /\ q \in Seqs \ (Busy \ done) /\ Kept(done)[q] = {}
             /\ \A s \in Sessions : pin[s] # q
  <2>1. CASE q \in Released(done)
    <3>1. q \in done /\ of[table[q]] = NoSession
      BY <2>1 DEF Released
    <3>2. \A s \in Sessions : session[s] # q
      BY <1>1, <1>2, <3>1 DEF PinOwner, Pins
    <3> QED BY <1>1, <1>2, <2>1, <3>1, <3>2, PinnedEither DEF Kept
  <2>2. CASE q \in idleSeqs
    <3>1. q \in Seqs /\ q \notin Busy /\ cells[q] = {} /\ \A s \in Sessions : session[s] # q
      BY <1>1, <2>2 DEF TypeOK, IdleApart, CellsOwned
    <3> QED BY <1>2, <3>1, PinnedEither DEF Kept
  <2> QED BY <2>1, <2>2 DEF Pool
<1>4. ASSUME NEW s \in Sessions, NEW t \in Sessions, pin[s] = pin[t], pin[s] # NoSeq
      PROVE  s = t
  <2>1. CASE pin[s] \in done /\ of[table[pin[s]]] = s
    <3>1. CASE pin[t] \in done /\ of[table[pin[t]]] = t
      BY <1>4, <2>1, <3>1
    <3>2. CASE pin[t] = session[t]
      BY <1>1, <1>2, <1>4, <2>1, <3>2 DEF PinOwner, Pins
    <3> QED BY <3>1, <3>2, PinnedEither
  <2>2. CASE pin[s] = session[s]
    <3>1. CASE pin[t] \in done /\ of[table[pin[t]]] = t
      BY <1>1, <1>2, <1>4, <2>2, <3>1 DEF PinOwner, Pins
    <3>2. CASE pin[t] = session[t]
      BY <1>1, <1>4, <2>2, <3>2 DEF PinsApart, Pins
    <3> QED BY <3>1, <3>2, PinnedEither
  <2> QED BY <2>1, <2>2, PinnedEither
<1>5. ASSUME NEW s \in Sessions, pin[s] \in Busy \ done
      PROVE  of[table[pin[s]]] = s
  BY <1>1, <1>2, <1>5, PinnedEither DEF PinOwner, Pins
<1>6. ASSUME NEW s \in Sessions, pin[s] # NoSeq
      PROVE  Kept(done)[pin[s]] \subseteq {s}
  <2>1. pin[s] \in Seqs
    BY <1>6
  <2>2. Kept(done)[pin[s]] \subseteq cells[pin[s]]
    BY <2>1 DEF Kept
  <2>3. cells[pin[s]] \subseteq {s}
    <3>1. CASE pin[s] = session[s]
      BY <1>1, <1>6, <3>1 DEF CellsOwned, Pins
    <3>2. CASE pin[s] \in done /\ of[table[pin[s]]] = s
      BY <1>1, <3>2 DEF CellsOwned, Owner
    <3> QED BY <3>1, <3>2, PinnedEither
  <2> QED BY <2>2, <2>3
<1>7. \A q \in Busy \ done : Kept(done)[q] = cells[q]
  BY <1>2 DEF Kept
<1> QED BY <1>3, <1>4, <1>5, <1>6, <1>7 DEF Settled

\* The first k callers leave the FIFO.
LEMMA ServedLeave ==
    ASSUME pending \in Seq(Requests), NEW k \in 0 .. Len(pending),
           pending' = SubSeq(pending, k + 1, Len(pending)),
           \A i, j \in DOMAIN pending : pending[i] = pending[j] => i = j
    PROVE  /\ pending' \in Seq(Requests)
           /\ Parked' = Parked \ {pending[i] : i \in 1 .. k}
           /\ \A i, j \in DOMAIN pending' : pending'[i] = pending'[j] => i = j
           /\ {pending[i] : i \in 1 .. k} \subseteq Parked
           /\ pending' = <<>> <=> k = Len(pending)
<1> DEFINE n == Len(pending)
<1>1. n \in Nat /\ k \in Nat /\ k <= n /\ DOMAIN pending = 1 .. n
      /\ \A i \in 1 .. n : pending[i] \in Requests
  OBVIOUS
<1>0. pending' = SubSeq(pending, k + 1, n)
  OBVIOUS
<1> HIDE DEF n
<1>2. /\ pending' \in Seq(Requests) /\ Len(pending') = n - k
      /\ \A i \in 1 .. n - k : pending'[i] = pending[k + i]
  <2>1. \A i \in k + 1 .. n : pending[i] \in Requests
    BY <1>1
  <2>2. /\ SubSeq(pending, k + 1, n) \in Seq(Requests)
        /\ Len(SubSeq(pending, k + 1, n)) = IF k + 1 <= n THEN n - (k + 1) + 1 ELSE 0
        /\ \A i \in 1 .. n - (k + 1) + 1 : SubSeq(pending, k + 1, n)[i] = pending[k + 1 + i - 1]
    <3>1. k + 1 \in Int /\ n \in Int
      BY <1>1
    <3> QED BY <2>1, <3>1, SubSeqProperties
  <2>3. \A i \in 1 .. n - k : k + 1 + i - 1 = k + i /\ i \in 1 .. n - (k + 1) + 1
    BY <1>1
  <2>4. (IF k + 1 <= n THEN n - (k + 1) + 1 ELSE 0) = n - k
    BY <1>1
  <2>5. \A i \in 1 .. n - k : pending'[i] = pending[k + i]
    BY <1>0, <2>2, <2>3
  <2> QED BY <1>0, <2>2, <2>4, <2>5
<1>3. DOMAIN pending' = 1 .. n - k
  BY <1>2
<1>4. \A i \in DOMAIN pending' : k + i \in DOMAIN pending /\ k + i > k
  BY <1>1, <1>3
<1>5. \A i \in DOMAIN pending \ (1 .. k) : i - k \in DOMAIN pending' /\ pending'[i - k] = pending[i]
  <2> SUFFICES ASSUME NEW i \in DOMAIN pending \ (1 .. k)
               PROVE  i - k \in DOMAIN pending' /\ pending'[i - k] = pending[i]
    OBVIOUS
  <2>1. i - k \in 1 .. n - k /\ k + (i - k) = i
    BY <1>1
  <2>2. pending'[i - k] = pending[k + (i - k)]
    BY <1>2, <2>1
  <2> QED BY <1>3, <2>1, <2>2
<1>6. \A i \in 1 .. k : i \in DOMAIN pending
  BY <1>1
<1>7. Parked' \subseteq Parked \ {pending[i] : i \in 1 .. k}
  <2>1. \A i \in DOMAIN pending', j \in 1 .. k : pending[k + i] # pending[j]
    <3> SUFFICES ASSUME NEW i \in DOMAIN pending', NEW j \in 1 .. k
                 PROVE  pending[k + i] # pending[j]
      OBVIOUS
    <3>1. k + i \in DOMAIN pending /\ j \in DOMAIN pending
      BY <1>4, <1>6
    <3>2. k + i # j
      BY <1>1, <1>4
    <3> QED BY <1>1, <3>1, <3>2
  <2> QED BY <1>2, <1>3, <1>4, <2>1 DEF Parked
<1>8. Parked \ {pending[i] : i \in 1 .. k} \subseteq Parked'
  BY <1>5 DEF Parked
<1>9. \A i, j \in DOMAIN pending' : pending'[i] = pending'[j] => i = j
  <2> SUFFICES ASSUME NEW i \in DOMAIN pending', NEW j \in DOMAIN pending', pending'[i] = pending'[j]
               PROVE  i = j
    OBVIOUS
  <2>1. pending[k + i] = pending[k + j]
    BY <1>2, <1>3
  <2>2. k + i = k + j
    BY <1>4, <2>1
  <2> QED BY <1>1, <1>3, <2>2
<1>10. pending' = <<>> <=> k = n
  BY <1>1, <1>2
<1> QED BY <1>2, <1>6, <1>7, <1>8, <1>9, <1>10 DEF Parked, n

(***************************************************************************)
(* Serving the parked callers.  The sequences in avail are those of the    *)
(* pool and of the pins taken; those in used have a new request.           *)
(***************************************************************************)
Avail(done, pin, taken) == Pool(done) \cup {pin[s] : s \in taken}

Used(done, pin, taken, new) == {q \in Avail(done, pin, taken) : new[q] # NoRequest}

Serves(done, pin, k, failed, taken, new) ==
    /\ done \in SUBSET Busy
    /\ pin \in [Sessions -> Seqs \cup {NoSeq}]
    /\ Settled(done, pin)
    /\ k \in 0 .. Len(pending)
    /\ failed \in SUBSET Parked
    /\ taken \in SUBSET Reclaimable(pin, Busy \ done)
    /\ new \in [Avail(done, pin, taken) -> Parked \cup {NoRequest}]
    /\ Dispatch(done, Pool(done), pin, Kept(done), k, failed, taken, new)

\* No sequence of avail is in flight still, or keeps a pin.
LEMMA AvailFree ==
    ASSUME SafeInv, NEW done, NEW pin, NEW k, NEW failed, NEW taken, NEW new,
           Serves(done, pin, k, failed, taken, new)
    PROVE  /\ Avail(done, pin, taken) \subseteq Seqs \ (Busy \ done)
           /\ taken \subseteq Sessions
           /\ \A s \in Sessions \ taken : pin[s] \notin Avail(done, pin, taken)
<1>1. /\ taken \in SUBSET Reclaimable(pin, Busy \ done) /\ Settled(done, pin)
      /\ pin \in [Sessions -> Seqs \cup {NoSeq}]
  BY DEF Serves
<1>2. \A s \in taken : s \in Sessions /\ pin[s] # NoSeq /\ pin[s] \in Seqs \ (Busy \ done)
  BY <1>1 DEF Reclaimable
<1>3. ASSUME NEW s \in Sessions \ taken
      PROVE  pin[s] \notin Avail(done, pin, taken)
  BY <1>1, <1>2 DEF Settled, Avail
<1>4. Avail(done, pin, taken) \subseteq Seqs \ (Busy \ done)
  BY <1>1, <1>2 DEF Settled, Avail
<1> QED BY <1>2, <1>3, <1>4

\* Which sequences are in flight afterwards, and which requests.
LEMMA DispatchFlight ==
    ASSUME SafeInv, NEW done, NEW pin, NEW k, NEW failed, NEW taken, NEW new,
           Serves(done, pin, k, failed, taken, new)
    PROVE  LET avail == Avail(done, pin, taken)
               used  == Used(done, pin, taken, new)
           IN
           /\ used \subseteq avail
           /\ idleSeqs' = avail \ used
           /\ Busy' = (Busy \ done) \cup used
           /\ \A q \in used : table'[q] = new[q] /\ new[q] \in Parked
           /\ \A q \in Busy \ done : table'[q] = table[q] /\ q \notin avail
           /\ \A p, q \in used : new[p] = new[q] => p = q
           /\ {new[q] : q \in used} = {pending[i] : i \in 1 .. k} \ failed
           /\ failed \subseteq {pending[i] : i \in 1 .. k}
           /\ table' \in [Seqs -> Requests \cup {NoRequest}]
<1> DEFINE avail == Avail(done, pin, taken)
           used  == Used(done, pin, taken, new)
           left  == {q \in avail : new[q] = NoRequest}
<1>1. /\ done \in SUBSET Busy /\ new \in [avail -> Parked \cup {NoRequest}]
      /\ Dispatch(done, Pool(done), pin, Kept(done), k, failed, taken, new)
  BY DEF Serves
<1>2. avail \subseteq Seqs \ (Busy \ done)
  BY AvailFree
<1>3. used = avail \ left /\ used \subseteq avail /\ left = avail \ used
  BY DEF Used
<1>4. /\ idleSeqs' = left
      /\ failed \subseteq {pending[i] : i \in 1 .. k}
      /\ {new[q] : q \in avail \ left} = {pending[i] : i \in 1 .. k} \ failed
      /\ \A p, q \in avail \ left : new[p] = new[q] => p = q
      /\ table' = [q \in Seqs |-> IF q \in avail THEN new[q]
                                  ELSE IF q \in done THEN NoRequest ELSE table[q]]
  BY <1>1 DEF Dispatch, Avail
<1>5. Parked \subseteq Requests /\ NoRequest \notin Requests /\ TypeOK
  BY Standing, SchedulerAssumption DEF SafeInv, CallerInv
<1> HIDE DEF avail, used, left
<1>6. \A q \in used : table'[q] = new[q] /\ new[q] \in Parked
  <2>1. \A q \in used : q \in avail /\ q \in Seqs /\ new[q] # NoRequest
    BY <1>2, <1>3 DEF left
  <2> QED BY <1>1, <1>4, <2>1
<1>7. \A q \in Busy \ done : table'[q] = table[q] /\ q \notin avail
  BY <1>2, <1>4 DEF Busy
<1>8. Busy' = (Busy \ done) \cup used
  BY <1>1, <1>2, <1>3, <1>4, <1>5, <1>6, <1>7 DEF Busy, left
<1>9. table' \in [Seqs -> Requests \cup {NoRequest}]
  BY <1>1, <1>4, <1>5 DEF TypeOK
<1> QED BY <1>3, <1>4, <1>6, <1>7, <1>8, <1>9 DEF avail, used

LEMMA DispatchSafe ==
    ASSUME SafeInv, NEW done, NEW pin, NEW k, NEW failed, NEW taken, NEW new,
           Serves(done, pin, k, failed, taken, new),
           mode' \in {"idle", "running"}, ticks' \in Nat, ticks' <= MaxTicks
    PROVE  SafeInv'
<1> DEFINE avail == Avail(done, pin, taken)
           used  == Used(done, pin, taken, new)
           over  == {table[q] : q \in done}
           served == {pending[i] : i \in 1 .. k}
           started == {new[q] : q \in used}
<1>1. /\ done \in SUBSET Busy /\ Settled(done, pin) /\ k \in 0 .. Len(pending)
      /\ pin \in [Sessions -> Seqs \cup {NoSeq}]
      /\ Dispatch(done, Pool(done), pin, Kept(done), k, failed, taken, new)
  BY DEF Serves
<1>2. /\ TypeOK /\ TickBound /\ CallersAccounted /\ IdleApart /\ PinsApart /\ PinOwner
      /\ CellsOwned /\ NoRequest \notin Requests /\ NoSeq \notin Seqs
  BY SchedulerAssumption DEF SafeInv, CallerInv
<1>3. /\ InFlight \subseteq Requests /\ Parked \subseteq Requests /\ InFlight \cap Parked = {}
      /\ Busy \subseteq Seqs /\ \A q \in Busy : table[q] \in Requests
  BY Standing DEF SafeInv
<1>4. /\ used \subseteq avail
      /\ idleSeqs' = avail \ used
      /\ Busy' = (Busy \ done) \cup used
      /\ \A q \in used : table'[q] = new[q] /\ new[q] \in Parked
      /\ \A q \in Busy \ done : table'[q] = table[q] /\ q \notin avail
      /\ \A p, q \in used : new[p] = new[q] => p = q
      /\ started = served \ failed
      /\ failed \subseteq served
      /\ table' \in [Seqs -> Requests \cup {NoRequest}]
  BY DispatchFlight
<1>5. /\ avail \subseteq Seqs \ (Busy \ done) /\ taken \subseteq Sessions
      /\ \A s \in Sessions \ taken : pin[s] \notin avail
  BY AvailFree
<1>6. /\ pending' \in Seq(Requests)
      /\ Parked' = Parked \ served
      /\ \A i, j \in DOMAIN pending' : pending'[i] = pending'[j] => i = j
      /\ served \subseteq Parked
  <2>1. pending' = SubSeq(pending, k + 1, Len(pending))
    BY <1>1 DEF Dispatch
  <2> QED BY <1>1, <1>2, <2>1, ServedLeave DEF TypeOK, CallersAccounted
<1>7. /\ cancelled' = cancelled \ over
      /\ proc' = [r \in Requests |-> IF r \in started THEN "running"
                                     ELSE IF r \in over \cup failed THEN "idle" ELSE proc[r]]
      /\ of' = [r \in Requests |-> IF r \in over \cup failed THEN NoSession ELSE of[r]]
      /\ session' = [s \in Sessions |-> IF s \in taken THEN NoSeq ELSE pin[s]]
  <2>1. used = avail \ {q \in avail : new[q] = NoRequest}
    BY DEF Used
  <2> QED BY <1>1, <2>1 DEF Dispatch, Avail
<1>8. /\ cells' \in [Seqs -> SUBSET Owners]
      /\ \A q \in Seqs : LET kept == IF q \in avail \ Pool(done) THEN {} ELSE Kept(done)[q] IN
            IF q \in used
            THEN LET o == Owner(new[q], of[new[q]]) IN cells'[q] \in {{o}, kept \cup {o}}
            ELSE cells'[q] = kept
  <2> DEFINE Held(q, warm) ==
               LET kept == IF q \in avail \ Pool(done) THEN {} ELSE Kept(done)[q] IN
               IF q \notin used THEN kept
               ELSE {Owner(new[q], of[new[q]])} \cup (IF q \in warm THEN kept ELSE {})
  <2>1. used = avail \ {q \in avail : new[q] = NoRequest}
    BY DEF Used
  <2>2. PICK warm \in SUBSET used : cells' = [q \in Seqs |-> Held(q, warm)]
    <3> DEFINE idle == {q \in avail : new[q] = NoRequest}
    <3>1. PICK warm \in SUBSET (avail \ idle) :
             cells' = [q \in Seqs |->
                         LET kept == IF q \in avail \ Pool(done) THEN {} ELSE Kept(done)[q] IN
                         IF q \notin avail \ idle THEN kept
                         ELSE {Owner(new[q], of[new[q]])} \cup (IF q \in warm THEN kept ELSE {})]
      BY <1>1 DEF Dispatch, Avail
    <3>2. avail \ idle = used
      BY <2>1
    <3> HIDE DEF idle, avail, used
    <3>3. cells' = [q \in Seqs |-> Held(q, warm)]
      BY <3>1, <3>2
    <3> QED BY <3>1, <3>2, <3>3
  <2>3. \A q \in Seqs : Kept(done)[q] \in SUBSET Owners
    BY <1>2 DEF Kept, TypeOK
  <2>4. \A q \in used : Owner(new[q], of[new[q]]) \in Owners
    BY <1>2, <1>3, <1>4 DEF TypeOK, Owner, Owners
  <2>5. \A q \in Seqs : Held(q, warm) \in SUBSET Owners
    BY <2>3, <2>4
  <2>6. cells' \in [Seqs -> SUBSET Owners] /\ \A q \in Seqs : cells'[q] = Held(q, warm)
    BY <2>2, <2>5
  <2> QED BY <2>6
<1>9. over \subseteq InFlight
  BY <1>1 DEF InFlight
<1> HIDE DEF avail, used
<1>10. InFlight' = (InFlight \ over) \cup started
  <2>1. \A q \in Busy \ done : table[q] \in InFlight \ over
    BY <1>1, <1>2, <1>3 DEF InFlight, CallersAccounted
  <2>2. \A r \in InFlight \ over : \E q \in Busy \ done : table[q] = r
    BY DEF InFlight
  <2>3. InFlight' \subseteq (InFlight \ over) \cup started
    BY <1>4, <2>1 DEF InFlight
  <2>4. InFlight \ over \subseteq InFlight'
    <3> SUFFICES ASSUME NEW r \in InFlight \ over PROVE r \in InFlight'
      OBVIOUS
    <3>1. PICK q \in Busy \ done : table[q] = r
      BY <2>2
    <3>2. q \in Busy' /\ table'[q] = r
      BY <1>4, <3>1
    <3> QED BY <3>2 DEF InFlight
  <2>5. started \subseteq InFlight'
    <3> SUFFICES ASSUME NEW q \in used PROVE new[q] \in InFlight'
      OBVIOUS
    <3>1. q \in Busy' /\ table'[q] = new[q]
      BY <1>4
    <3> QED BY <3>1 DEF InFlight
  <2> QED BY <2>3, <2>4, <2>5
<1>11. TypeOK'
  <2>1. idleSeqs' \subseteq Seqs /\ cancelled' \subseteq Requests
    BY <1>2, <1>4, <1>5, <1>7 DEF TypeOK
  <2>2. session' \in [Sessions -> Seqs \cup {NoSeq}]
    BY <1>1, <1>7
  <2>3. /\ proc' \in [Requests -> {"idle", "parked", "running"}]
        /\ of' \in [Requests -> Sessions \cup {NoSession}]
    <3> HIDE DEF over, started
    <3> QED BY <1>2, <1>7 DEF TypeOK
  <2> QED BY <1>4, <1>6, <1>8, <2>1, <2>2, <2>3 DEF TypeOK
<1> HIDE DEF over, started, served
<1>12. CallersAccounted'
  <2>1. \A r \in Requests : proc'[r] = "parked" <=> r \in Parked'
    BY <1>2, <1>3, <1>4, <1>6, <1>7, <1>9 DEF CallersAccounted
  <2>2. \A r \in Requests : proc'[r] = "running" <=> r \in InFlight'
    BY <1>2, <1>3, <1>4, <1>6, <1>7, <1>9, <1>10 DEF CallersAccounted
  <2>3. \A p, q \in Busy' : table'[p] = table'[q] => p = q
    <3>1. \A p \in Busy \ done : table'[p] = table[p] /\ table[p] \in InFlight
      BY <1>4 DEF InFlight
    <3>2. \A p \in used : table'[p] = new[p] /\ new[p] \notin InFlight
      BY <1>3, <1>4
    <3> QED BY <1>2, <1>4, <3>1, <3>2 DEF CallersAccounted
  <2>4. cancelled' \subseteq InFlight'
    BY <1>2, <1>7, <1>10 DEF CallersAccounted
  <2> QED BY <1>6, <2>1, <2>2, <2>3, <2>4 DEF CallersAccounted
<1>13. \A s \in Pins' : /\ s \in Sessions \ taken /\ session'[s] = pin[s] /\ pin[s] # NoSeq
                        /\ pin[s] \in Seqs \ avail
  BY <1>1, <1>5, <1>7 DEF Pins
<1>14. IdleApart'
  <2>1. ASSUME NEW q \in avail \ used PROVE q \notin Busy'
    BY <1>4, <2>1
  <2>2. ASSUME NEW q \in avail, NEW s \in Sessions PROVE session'[s] # q
    BY <1>2, <1>5, <1>7, <2>2
  <2> QED BY <1>4, <2>1, <2>2 DEF IdleApart
<1>15. PinsApart'
  BY <1>1, <1>13 DEF PinsApart, Settled
<1>16. \A q \in Busy \ done : of'[table[q]] = of[table[q]]
  <2>1. ASSUME NEW q \in Busy \ done PROVE table[q] \notin over \cup failed
    <3>1. table[q] \in InFlight /\ q \in Busy
      BY <2>1 DEF InFlight
    <3>2. table[q] \notin over
      BY <1>1, <1>2, <2>1, <3>1 DEF over, CallersAccounted
    <3>3. table[q] \notin failed
      BY <1>3, <1>4, <1>6, <3>1
    <3> QED BY <3>2, <3>3
  <2> QED BY <1>3, <1>7, <2>1
<1>17. PinOwner'
  <2> SUFFICES ASSUME NEW s \in Pins', session'[s] \in Busy'
               PROVE  of'[table'[session'[s]]] = s
    BY DEF PinOwner
  <2>1. s \in Sessions /\ session'[s] = pin[s] /\ pin[s] \in Busy \ done
    BY <1>4, <1>13
  <2> QED BY <1>1, <1>4, <1>16, <2>1 DEF Settled
<1>18. CellsOwned'
  <2>1. \A q \in idleSeqs' : cells'[q] = {}
    BY <1>1, <1>4, <1>5, <1>8 DEF Settled
  <2>2. \A s \in Pins' : cells'[session'[s]] \subseteq {s}
    BY <1>1, <1>4, <1>8, <1>13 DEF Settled
  <2>3. ASSUME NEW q \in Busy' PROVE cells'[q] \subseteq {Owner(table'[q], of'[table'[q]])}
    <3>1. CASE q \in used
      <4>1. q \in avail /\ q \in Seqs
        BY <1>4, <1>5, <3>1
      <4>2. (IF q \in avail \ Pool(done) THEN {} ELSE Kept(done)[q]) = {}
        BY <1>1, <4>1 DEF Settled
      <4>3. cells'[q] = {Owner(new[q], of[new[q]])}
        BY <1>8, <3>1, <4>1, <4>2
      <4>4. new[q] \in started /\ table'[q] = new[q] /\ new[q] \in Requests
        BY <1>3, <1>4, <3>1 DEF started
      <4>5. of'[new[q]] = of[new[q]]
        BY <1>3, <1>4, <1>6, <1>7, <1>9, <4>4
      <4> QED BY <4>3, <4>4, <4>5
    <3>2. CASE q \in Busy \ done
      <4>1. q \in Seqs /\ q \notin avail /\ q \notin used
        BY <1>3, <1>4, <3>2
      <4>2. cells'[q] = cells[q]
        BY <1>1, <1>8, <3>2, <4>1 DEF Settled
      <4> QED BY <1>2, <1>4, <1>16, <3>2, <4>2 DEF CellsOwned
    <3> QED BY <1>4, <3>1, <3>2
  <2> QED BY <2>1, <2>2, <2>3 DEF CellsOwned
<1> QED BY <1>11, <1>12, <1>14, <1>15, <1>17, <1>18 DEF SafeInv, CallerInv, TickBound

\* What a step that ends the requests on done amounts to.
LEMMA StepServes ==
    ASSUME SafeInv, NEW done \in SUBSET Busy, StepDone(done)
    PROVE  \E pin, k, failed, taken, new :
               Serves(done, pin, k, failed, taken, new) /\ PinnedBy(done, pin)
<1>1. PICK pin \in [Sessions -> Seqs \cup {NoSeq}] :
          /\ PinnedBy(done, pin)
          /\ \E k \in 0 .. Len(pending), failed \in SUBSET Parked,
                taken \in SUBSET Reclaimable(pin, Busy \ done) :
                \E new \in [Avail(done, pin, taken) -> Parked \cup {NoRequest}] :
                   Dispatch(done, Pool(done), pin, Kept(done), k, failed, taken, new)
  BY DEF StepDone, Avail, Pool, Kept
<1>2. Settled(done, pin)
  BY <1>1, EndedSettled
<1> QED BY <1>1, <1>2 DEF Serves

LEMMA StepDoneSafe ==
    ASSUME SafeInv, NEW done \in SUBSET Busy, StepDone(done)
    PROVE  SafeInv'
<1>1. PICK pin, k, failed, taken, new : Serves(done, pin, k, failed, taken, new)
  BY StepServes
<1>2. mode' \in {"idle", "running"} /\ ticks' \in Nat /\ ticks' <= MaxTicks
  BY TicksStay DEF StepDone, Rearm, SafeInv, CallerInv, TypeOK, TickBound
<1> QED BY <1>1, <1>2, DispatchSafe

LEMMA InitSafe == Init => SafeInv
<1> SUFFICES ASSUME Init PROVE SafeInv
  OBVIOUS
<1>1. CallerInv
  BY InitCallers
<1>2. Busy = {} /\ Pins = {} /\ \A s \in Sessions : session[s] = NoSeq
  BY DEF Init, Busy, Pins
<1>3. IdleApart /\ PinsApart /\ PinOwner /\ CellsOwned
  BY <1>2, SchedulerAssumption DEF Init, IdleApart, PinsApart, PinOwner, CellsOwned
<1> QED BY <1>1, <1>3 DEF SafeInv

LEMMA NextSafe == SafeInv /\ [Next]_vars => SafeInv'
<1> SUFFICES ASSUME SafeInv, [Next]_vars PROVE SafeInv'
  OBVIOUS
<1>1. ASSUME NEW r \in Requests, NEW s \in Sessions \cup {NoSession}, Admit(r, s) PROVE SafeInv'
  BY <1>1, AdmitStickySafe, AdmitDivergedSafe, AdmitFreshSafe, AdmitReclaimSafe, AdmitParkSafe
     DEF Admit
<1>2. ASSUME NEW r \in Requests, Cancel(r) PROVE SafeInv'
  BY <1>2, CancelSafe
<1>3. ASSUME NEW s \in Sessions, EndSession(s) PROVE SafeInv'
  BY <1>3, EndSessionSafe
<1>4. ASSUME NEW s \in Sessions, ResetSession(s) PROVE SafeInv'
  BY <1>4, ResetSessionSafe
<1>5. ASSUME NEW done \in SUBSET Busy, StepDone(done) PROVE SafeInv'
  BY <1>5, StepDoneSafe
<1>6. CASE Recover
  BY <1>6, RecoverSafe
<1>7. CASE StrayTick
  <2>1. ticks' \in Nat /\ ticks' <= MaxTicks
    BY <1>7, TicksStay DEF StrayTick, SafeInv, CallerInv, TypeOK
  <2> QED BY <1>7, <2>1, QuietSafe DEF StrayTick
<1>8. CASE Stop
  BY <1>8, StopSafe
<1>9. CASE Load
  <2>1. ticks \in Nat /\ ticks <= MaxTicks
    BY DEF SafeInv, CallerInv, TypeOK, TickBound
  <2> QED BY <1>9, <2>1, QuietSafe DEF Load
<1>10. CASE UNCHANGED vars
  <2>1. mode \in {"idle", "running", "stopped"} /\ ticks \in Nat /\ ticks <= MaxTicks
    BY DEF SafeInv, CallerInv, TypeOK, TickBound
  <2> QED BY <1>10, <2>1, QuietSafe DEF vars
<1> QED BY <1>1, <1>2, <1>3, <1>4, <1>5, <1>6, <1>7, <1>8, <1>9, <1>10 DEF Next, Tick

LEMMA Safe == Spec => []SafeInv
<1>1. Init => SafeInv
  BY InitSafe
<1>2. SafeInv /\ [Next]_vars => SafeInv'
  BY NextSafe
<1> QED BY <1>1, <1>2, PTL DEF Spec

\* The scheduler's state has its type.
THEOREM TypeCorrect == Spec => []TypeOK
<1>1. SafeInv => TypeOK
  BY DEF SafeInv, CallerInv
<1> QED BY <1>1, Safe, PTL

\* Every caller that waits is parked once or in flight once, whatever the
\* callers overlap.
THEOREM CallersAreAccounted == Spec => []CallersAccounted
<1>1. SafeInv => CallersAccounted
  BY DEF SafeInv, CallerInv
<1> QED BY <1>1, Safe, PTL

\* No request decodes over cells of another: a free sequence is empty, and
\* one in use holds its own session's or request's cells.
THEOREM CellsAreOwned == Spec => []CellsOwned
<1>1. SafeInv => CellsOwned
  BY DEF SafeInv
<1> QED BY <1>1, Safe, PTL

--------------------------------------------------------------------------------
(***************************************************************************)
(* Ticks, whatever the callers overlap.  A sequence may be lost then, but  *)
(* never the last one: there is always one that is free, pinned or in      *)
(* flight, so a parked caller has something to wait for and a tick that    *)
(* will look at it.                                                        *)
(***************************************************************************)
SomeLeft == idleSeqs # {} \/ Pins # {} \/ Busy # {}

ArmedInv == SomeLeft /\ TickArmed

LEMMA FromPoolArmed ==
    ASSUME SafeInv, ArmedInv, NEW r \in Requests, NEW s, NEW pool \in SUBSET Seqs, NEW cs,
           pool # {}, FromPool(r, s, pool, cs)
    PROVE  ArmedInv'
<1>1. CASE Rejected /\ idleSeqs' = pool
  BY <1>1 DEF Rejected, ArmedInv, SomeLeft, TickArmed, Busy
<1>2. ASSUME NEW q \in pool, Start(r, s, q) PROVE ArmedInv'
  <2>1. table' = [table EXCEPT ![q] = r] /\ mode' = "running" /\ ticks' = TickCast
    BY <1>2 DEF Start
  <2>2. q \in Busy'
    BY <2>1, SchedulerAssumption DEF Busy, SafeInv, CallerInv, TypeOK
  <2>3. ticks' > 0
    BY <2>1, TicksStay DEF SafeInv, CallerInv, TypeOK
  <2> QED BY <2>1, <2>2, <2>3 DEF ArmedInv, SomeLeft, TickArmed
<1> QED BY <1>1, <1>2 DEF FromPool

LEMMA AdmitArmed ==
    ASSUME SafeInv, ArmedInv, NEW r \in Requests, NEW s \in Sessions \cup {NoSession},
           Admit(r, s)
    PROVE  ArmedInv'
<1>1. TypeOK /\ idleSeqs \in SUBSET Seqs
  BY DEF SafeInv, CallerInv, TypeOK
<1>2. \A v \in IdlePins : session[v] \in Seqs
  BY <1>1, SchedulerAssumption DEF IdlePins, Reclaimable, TypeOK
<1>3. CASE AdmitSticky(r, s)
  <2>1. /\ table' = [table EXCEPT ![session[s]] = r] /\ session[s] \in Seqs
        /\ mode' = "running" /\ ticks' = TickCast
    BY <1>2, <1>3 DEF AdmitSticky, Start
  <2>2. session[s] \in Busy'
    BY <1>1, <2>1, SchedulerAssumption DEF Busy, TypeOK
  <2>3. ticks' > 0
    BY <2>1, TicksStay DEF SafeInv, CallerInv, TypeOK
  <2> QED BY <2>1, <2>2, <2>3 DEF ArmedInv, SomeLeft, TickArmed
<1>4. CASE AdmitDiverged(r, s)
  <2> DEFINE pool == idleSeqs \cup {session[s]}
             cs   == Cleared(session[s])
  <2>1. FromPool(r, s, pool, cs) /\ pool \in SUBSET Seqs /\ pool # {}
    BY <1>1, <1>2, <1>4 DEF AdmitDiverged
  <2> HIDE DEF pool, cs
  <2> QED BY <2>1, FromPoolArmed
<1>5. CASE AdmitFresh(r, s)
  BY <1>1, <1>5, FromPoolArmed DEF AdmitFresh
<1>6. CASE AdmitReclaim(r, s)
  <2>1. PICK v \in IdlePins : FromPool(r, s, {session[v]}, Cleared(session[v]))
    BY <1>6 DEF AdmitReclaim
  <2> DEFINE pool == {session[v]}
             cs   == Cleared(session[v])
  <2>2. FromPool(r, s, pool, cs) /\ pool \in SUBSET Seqs /\ pool # {}
    BY <1>2, <2>1
  <2> HIDE DEF pool, cs
  <2> QED BY <2>2, FromPoolArmed
<1>7. CASE AdmitPark(r, s)
  <2>1. Busy # {}
    BY <1>1, <1>7 DEF AdmitPark, ArmedInv, SomeLeft, IdlePins, Reclaimable, Pins, TypeOK
  <2>2. Busy' = Busy /\ mode' = mode /\ ticks' = ticks
    BY <1>7, <2>1 DEF AdmitPark, Busy
  <2> QED BY <2>1, <2>2 DEF ArmedInv, SomeLeft, TickArmed
<1> QED BY <1>3, <1>4, <1>5, <1>6, <1>7 DEF Admit

LEMMA DropArmed ==
    ASSUME SafeInv, ArmedInv, NEW s \in Sessions, EndSession(s) \/ ResetSession(s)
    PROVE  ArmedInv'
<1>1. /\ session[s] \in idleSeqs'
      /\ Busy' \subseteq Busy
      /\ UNCHANGED <<mode, pending, ticks>>
  BY DEF EndSession, ResetSession, DropSession, Busy, SafeInv, CallerInv, TypeOK
<1> QED BY <1>1 DEF ArmedInv, SomeLeft, TickArmed

\* The requests on done end.  Something to serve the parked callers with is
\* left, or in flight still; and who stays parked waits for what is in flight.
LEMMA StepDoneArmed ==
    ASSUME SafeInv, ArmedInv, NEW done \in SUBSET Busy, StepDone(done)
    PROVE  ArmedInv' /\ (pending' = <<>> \/ (idleSeqs' = {} /\ IdlePins' = {}))
<1>1. PICK pin, k, failed, taken, new :
          Serves(done, pin, k, failed, taken, new) /\ PinnedBy(done, pin)
  BY StepServes
<1> DEFINE avail == Avail(done, pin, taken)
           used  == Used(done, pin, taken, new)
<1>2. /\ TypeOK /\ CallersAccounted /\ NoSession \notin Sessions /\ NoSeq \notin Seqs
      /\ Busy \subseteq Seqs /\ \A q \in Busy : table[q] \in Requests
  BY Standing, SchedulerAssumption DEF SafeInv, CallerInv, Busy
<1>3. /\ used \subseteq avail
      /\ idleSeqs' = avail \ used
      /\ Busy' = (Busy \ done) \cup used
  BY <1>1, DispatchFlight
<1>4. /\ session' = [s \in Sessions |-> IF s \in taken THEN NoSeq ELSE pin[s]]
      /\ pending' = SubSeq(pending, k + 1, Len(pending))
      /\ k < Len(pending) => avail \ used = {} /\ taken = Reclaimable(pin, Busy \ done)
      /\ k \in 0 .. Len(pending)
  <2>1. avail \ used = {q \in avail : new[q] = NoRequest}
    BY DEF Used
  <2>2. Dispatch(done, Pool(done), pin, Kept(done), k, failed, taken, new)
        /\ k \in 0 .. Len(pending)
    BY <1>1 DEF Serves
  <2> QED BY <2>1, <2>2 DEF Dispatch, Avail
<1>5. \/ avail # {} \/ Busy \ done # {}
      \/ \E s \in Sessions : pin[s] # NoSeq
  <2> SUFFICES ASSUME avail = {}, done = Busy, \A s \in Sessions : pin[s] = NoSeq
               PROVE  FALSE
    BY <1>1 DEF Serves
  <2>1. idleSeqs = {} /\ Released(done) = {}
    BY DEF Avail, Pool
  <2>2. CASE Busy # {}
    <3>1. PICK q \in done : of[table[q]] \in Sessions
      BY <1>2, <2>1, <2>2 DEF Released, TypeOK
    <3>2. \E p \in done : pin[of[table[q]]] = p
      BY <1>1, <3>1, PinnedEither
    <3> QED BY <1>2, <3>1, <3>2
  <2>3. CASE Busy = {}
    <3>1. \A s \in Sessions : session[s] = NoSeq
      BY <1>1, <2>3, PinnedEither
    <3> QED BY <2>1, <2>3, <3>1 DEF ArmedInv, SomeLeft, Pins
  <2> QED BY <2>2, <2>3
<1>6. pending' = <<>> <=> k = Len(pending)
  BY <1>2, <1>4, ServedLeave DEF TypeOK, CallersAccounted
<1>7. \A s \in taken : pin[s] \in avail
  BY DEF Avail
<1>8. taken \subseteq Sessions
  BY <1>1, AvailFree
<1> HIDE DEF avail, used
<1>9. SomeLeft'
  <2>1. CASE avail # {} \/ Busy \ done # {}
    BY <1>3, <2>1 DEF SomeLeft
  <2>2. CASE avail = {} /\ \E s \in Sessions : pin[s] # NoSeq
    BY <1>4, <1>7, <2>2 DEF SomeLeft, Pins
  <2> QED BY <1>5, <2>1, <2>2
<1>10. ASSUME pending' # <<>>
       PROVE  Busy' # {} /\ idleSeqs' = {} /\ IdlePins' = {}
  <2>1. k < Len(pending)
    BY <1>2, <1>4, <1>6, <1>10 DEF TypeOK
  <2>2. avail = used /\ taken = Reclaimable(pin, Busy \ done)
    BY <1>3, <1>4, <2>1
  <2>3. ASSUME NEW s \in Sessions, session'[s] # NoSeq PROVE session'[s] \in Busy'
    BY <1>3, <1>4, <2>2, <2>3 DEF Reclaimable
  <2>4. IdlePins' = {}
    BY <2>3 DEF IdlePins, Reclaimable
  <2>5. Busy' # {}
    BY <1>3, <1>9, <2>2, <2>3 DEF SomeLeft, Pins
  <2> QED BY <1>3, <2>2, <2>4, <2>5
<1>11. TickArmed'
  BY <1>10 DEF StepDone, Rearm, TickArmed
<1> QED BY <1>9, <1>10, <1>11 DEF ArmedInv

LEMMA RenewedArmed ==
    ASSUME Renewed PROVE ArmedInv' /\ pending' = <<>>
<1>1. Busy' = {} /\ pending' = <<>> /\ idleSeqs' = Seqs
  BY DEF Renewed, Busy
<1> QED BY <1>1, SchedulerAssumption DEF ArmedInv, SomeLeft, TickArmed

LEMMA NextArmed ==
    ASSUME SafeInv, ArmedInv, [Next]_vars
    PROVE  /\ ArmedInv'
           /\ Tick => pending' = <<>> \/ (idleSeqs' = {} /\ IdlePins' = {})
<1> DEFINE Served == pending' = <<>> \/ (idleSeqs' = {} /\ IdlePins' = {})
<1>1. ASSUME NEW done \in SUBSET Busy, StepDone(done) PROVE ArmedInv' /\ Served
  BY <1>1, StepDoneArmed
<1>2. ASSUME Recover \/ Stop PROVE ArmedInv' /\ Served
  BY <1>2, RenewedArmed DEF Recover, Stop
<1>3. ASSUME StrayTick \/ Load PROVE ArmedInv' /\ Served
  <2>1. /\ UNCHANGED <<idleSeqs, table, pending, session>>
        /\ mode # "running"
    BY <1>3 DEF StrayTick, Load
  <2>2. Busy = {} /\ pending = <<>>
    BY <2>1 DEF ArmedInv, TickArmed
  <2> QED BY <2>1, <2>2 DEF ArmedInv, SomeLeft, TickArmed, Busy, Pins
<1>4. ASSUME mode' = mode, idleSeqs' = idleSeqs, table' = table, pending' = pending,
             session' = session, ticks' = ticks
      PROVE  ArmedInv'
  BY <1>4 DEF ArmedInv, SomeLeft, TickArmed, Busy, Pins
<1>5. Tick => Served
  BY <1>1, <1>2, <1>3 DEF Tick
<1>6. CASE Next
  <2>1. ASSUME NEW r \in Requests, Cancel(r) PROVE ArmedInv'
    BY <1>4, <2>1 DEF Cancel
  <2> QED BY <1>1, <1>2, <1>3, <1>6, <2>1, AdmitArmed, DropArmed DEF Next, Tick
<1>7. CASE UNCHANGED vars
  BY <1>4, <1>5, <1>7 DEF vars
<1> QED BY <1>5, <1>6, <1>7

LEMMA Armed == Spec => [](SafeInv /\ ArmedInv)
<1>1. Init => ArmedInv
  BY SchedulerAssumption DEF Init, ArmedInv, SomeLeft, TickArmed, Busy
<1>2. SafeInv /\ ArmedInv /\ [Next]_vars => ArmedInv'
  BY NextArmed
<1> QED BY Safe, <1>1, <1>2, PTL DEF Spec

(***************************************************************************)
(* While anything is in flight or parked, a tick is on its way, even if    *)
(* callers overlap the first turns of a session: nobody hangs for want of  *)
(* a tick.                                                                 *)
(***************************************************************************)
THEOREM TicksAreArmed == Spec => []TickArmed
<1>1. ArmedInv => TickArmed
  BY DEF ArmedInv
<1> QED BY <1>1, Armed, PTL

(***************************************************************************)
(* A tick leaves a caller parked only if no sequence is free and no pin    *)
(* can be reclaimed, even if callers overlap the first turns of a session. *)
(***************************************************************************)
DispatchLeavesNone == [][Tick => pending' = <<>> \/ (idleSeqs' = {} /\ IdlePins' = {})]_vars

\* The dispatch after a tick serves every caller that it has a sequence for.
THEOREM NothingIdleBesideParked == Spec => DispatchLeavesNone
<1>1. SafeInv /\ ArmedInv /\ [Next]_vars =>
         [Tick => pending' = <<>> \/ (idleSeqs' = {} /\ IdlePins' = {})]_vars
  BY NextArmed
<1> QED BY <1>1, Armed, PTL DEF Spec, DispatchLeavesNone

--------------------------------------------------------------------------------
(***************************************************************************)
(* When callers do not overlap the first turns of a session, a session has *)
(* one request outstanding, and its pin is never overwritten by another's: *)
(* no sequence is lost, so a parked caller always has one to wait for.     *)
(***************************************************************************)
NoneLost ==
    \A q \in Seqs : q \notin Busy /\ (\A s \in Sessions : session[s] # q) => q \in idleSeqs

OneTurn ==
    \A r, t \in Requests :
        proc[r] # "idle" /\ proc[t] # "idle" /\ of[r] = of[t] /\ of[r] # NoSession => r = t

OwnSeq ==
    \A q \in Busy : of[table[q]] \in Sessions => session[of[table[q]]] \in {q, NoSeq}

ParkedUnpinned == \A r \in Parked : of[r] \notin Pins

TurnInv == NoneLost /\ OneTurn /\ OwnSeq /\ ParkedUnpinned /\ TickArmed

\* A session whose sequence is idle has no request outstanding.
LEMMA IdleSession ==
    ASSUME SafeInv, TurnInv, NEW s \in IdlePins
    PROVE  ~Outstanding(s)
<1> SUFFICES ASSUME NEW r \in Requests, proc[r] # "idle", of[r] = s
             PROVE  FALSE
  BY DEF Outstanding
<1>1. s \in Sessions /\ session[s] # NoSeq /\ session[s] \notin Busy /\ s \in Pins
  BY DEF IdlePins, Reclaimable, Pins
<1>2. TypeOK /\ CallersAccounted
  BY DEF SafeInv, CallerInv
<1>3. proc[r] = "parked" \/ proc[r] = "running"
  BY <1>2 DEF TypeOK
<1>4. CASE r \in Parked
  BY <1>1, <1>4 DEF TurnInv, ParkedUnpinned
<1>5. CASE r \in InFlight
  <2>1. PICK q \in Busy : table[q] = r
    BY <1>5 DEF InFlight
  <2> QED BY <1>1, <2>1 DEF TurnInv, OwnSeq
<1> QED BY <1>2, <1>3, <1>4, <1>5 DEF CallersAccounted

\* An outstanding request keeps its session; a new one is the only one of its.
LEMMA NewTurn ==
    ASSUME SafeInv, OneTurn, NEW r \in Requests, NEW s \in Sessions \cup {NoSession},
           s \in Sessions => ~Outstanding(s),
           NEW p \in {"parked", "running"}, proc[r] = "idle",
           proc' = [proc EXCEPT ![r] = p], of' = [of EXCEPT ![r] = s]
    PROVE  OneTurn'
<1>1. proc \in [Requests -> {"idle", "parked", "running"}]
      /\ of \in [Requests -> Sessions \cup {NoSession}]
  BY DEF SafeInv, CallerInv, TypeOK
<1>2. \A x \in Requests : /\ proc'[x] = IF x = r THEN p ELSE proc[x]
                          /\ of'[x] = IF x = r THEN s ELSE of[x]
  BY <1>1
<1> SUFFICES ASSUME NEW x \in Requests, NEW y \in Requests, proc'[x] # "idle", proc'[y] # "idle",
                    of'[x] = of'[y], of'[x] # NoSession
             PROVE  x = y
  BY DEF OneTurn
<1>3. CASE x = r /\ y # r
  BY <1>1, <1>2, <1>3 DEF Outstanding
<1>4. CASE x # r /\ y = r
  BY <1>1, <1>2, <1>4 DEF Outstanding
<1>5. CASE x # r /\ y # r
  BY <1>2, <1>5 DEF OneTurn
<1> QED BY <1>3, <1>4, <1>5

\* Requests end, and no other starts or changes its session.
LEMMA FewerTurns ==
    ASSUME OneTurn,
           \A x \in Requests : proc'[x] # "idle" => proc[x] # "idle" /\ of'[x] = of[x]
    PROVE  OneTurn'
BY DEF OneTurn

LEMMA FromPoolTurn ==
    ASSUME SafeInv, TurnInv, NEW r \in Requests, NEW s \in Sessions \cup {NoSession},
           proc[r] = "idle", s \in Sessions => ~Outstanding(s) /\ session'[s] = NoSeq,
           NEW pool \in SUBSET Seqs, NEW cs,
           \A t \in Sessions : session'[t] \in {session[t], NoSeq},
           \A q \in pool : q \notin Busy,
           \A q \in Seqs \ Busy : (\A t \in Sessions : session'[t] # q) => q \in pool,
           FromPool(r, s, pool, cs)
    PROVE  TurnInv'
<1>0. CallerInv /\ TypeOK /\ NoSession \notin Sessions
  BY SchedulerAssumption DEF SafeInv, CallerInv
<1>1. Pins' \subseteq Pins
  BY DEF Pins
<1>2. ASSUME NEW q \in pool, Start(r, s, q), idleSeqs' = pool \ {q}
      PROVE  TurnInv'
  <2>1. /\ table' = [table EXCEPT ![q] = r] /\ of' = [of EXCEPT ![r] = s]
        /\ proc' = [proc EXCEPT ![r] = "running"] /\ pending' = pending
        /\ mode' = "running" /\ ticks' = TickCast
    BY <1>2 DEF Start
  <2>2. r \notin InFlight /\ r \notin Parked /\ r # NoRequest /\ Parked \subseteq Requests
    BY <1>0, Standing, SchedulerAssumption
  <2>3. Busy' = Busy \cup {q} /\ \A x \in Busy : table'[x] = table[x]
    BY <1>0, <2>1, <2>2 DEF Busy, TypeOK
  <2>4. table'[q] = r /\ of'[r] = s
    BY <1>0, <2>1 DEF TypeOK
  <2>5. \A x \in Busy : of'[table'[x]] = of[table[x]]
    BY <1>0, <2>1, <2>2, <2>3 DEF InFlight, Busy, TypeOK
  <2>6. NoneLost'
    BY <1>2, <2>3 DEF NoneLost
  <2>7. OneTurn'
    BY <2>1, NewTurn DEF TurnInv
  <2>8. OwnSeq'
    BY <2>3, <2>4, <2>5 DEF TurnInv, OwnSeq
  <2>9. ParkedUnpinned'
    <3>1. \A x \in Parked : of'[x] = of[x]
      BY <1>0, <2>1, <2>2 DEF TypeOK
    <3>2. Parked' = Parked
      BY <2>1 DEF Parked
    <3> QED BY <1>1, <3>1, <3>2 DEF TurnInv, ParkedUnpinned
  <2>10. TickArmed'
    BY <2>1, TicksStay DEF TickArmed, SafeInv, CallerInv, TypeOK
  <2> QED BY <2>6, <2>7, <2>8, <2>9, <2>10 DEF TurnInv
<1>3. ASSUME Rejected, idleSeqs' = pool
      PROVE  TurnInv'
  <2>1. Busy' = Busy /\ Parked' = Parked
    BY <1>3 DEF Rejected, Busy, Parked
  <2>2. NoneLost'
    BY <1>3, <2>1 DEF NoneLost, Busy
  <2>3. OneTurn' /\ ParkedUnpinned' /\ TickArmed'
    BY <1>1, <1>3, <2>1 DEF Rejected, TurnInv, OneTurn, ParkedUnpinned, TickArmed
  <2>4. OwnSeq'
    BY <1>3, <2>1 DEF Rejected, TurnInv, OwnSeq
  <2> QED BY <2>2, <2>3, <2>4 DEF TurnInv
<1> QED BY <1>2, <1>3 DEF FromPool

LEMMA AdmitStickyTurn ==
    ASSUME SafeInv, TurnInv, NEW r \in Requests, NEW s \in Sessions \cup {NoSession},
           AdmitSticky(r, s)
    PROVE  TurnInv'
<1> DEFINE q == session[s]
<1>1. /\ s \in IdlePins /\ s \in Sessions /\ q \in Seqs \ Busy /\ proc[r] = "idle"
      /\ Start(r, s, q) /\ idleSeqs' = idleSeqs /\ session' = session
  BY DEF AdmitSticky, Calls, IdlePins, Reclaimable, SafeInv, CallerInv, TypeOK
<1> HIDE DEF q
<1>2. /\ table' = [table EXCEPT ![q] = r] /\ of' = [of EXCEPT ![r] = s]
      /\ proc' = [proc EXCEPT ![r] = "running"] /\ pending' = pending
      /\ mode' = "running" /\ ticks' = TickCast
  BY <1>1 DEF Start
<1>3. CallerInv /\ TypeOK
  BY DEF SafeInv, CallerInv
<1>4. r \notin InFlight /\ r \notin Parked /\ r # NoRequest /\ Parked \subseteq Requests
  BY <1>1, <1>3, Standing, SchedulerAssumption
<1>5. Busy' = Busy \cup {q} /\ \A x \in Busy : table'[x] = table[x]
  BY <1>1, <1>2, <1>3, <1>4 DEF Busy, TypeOK
<1>6. table'[q] = r /\ of'[r] = s
  BY <1>1, <1>2, <1>3 DEF TypeOK
<1>7. \A x \in Busy : of'[table'[x]] = of[table[x]]
  BY <1>2, <1>3, <1>4, <1>5 DEF InFlight, Busy, TypeOK
<1>8. NoneLost'
  BY <1>1, <1>5 DEF TurnInv, NoneLost
<1>9. OneTurn'
  BY <1>1, <1>2, IdleSession, NewTurn DEF TurnInv
<1>10. OwnSeq'
  BY <1>1, <1>5, <1>6, <1>7 DEF TurnInv, OwnSeq, q
<1>11. ParkedUnpinned'
  <2>1. \A x \in Parked : of'[x] = of[x]
    BY <1>2, <1>3, <1>4 DEF TypeOK
  <2>2. Parked' = Parked /\ Pins' = Pins
    BY <1>1, <1>2 DEF Parked, Pins
  <2> QED BY <2>1, <2>2 DEF TurnInv, ParkedUnpinned
<1>12. TickArmed'
  BY <1>2, <1>3, TicksStay DEF TickArmed, CallerInv, TypeOK
<1> QED BY <1>8, <1>9, <1>10, <1>11, <1>12 DEF TurnInv

\* Callers who do not overlap first turns have no request outstanding for a
\* session without a pin.
LEMMA Unpinned ==
    ASSUME Serialised, NEW r \in Requests, NEW s \in Sessions \cup {NoSession},
           Calls(r, s), s \notin Pins
    PROVE  s \in Sessions => ~Outstanding(s) /\ session[s] = NoSeq
BY DEF Calls, Pins

LEMMA AdmitTurn ==
    ASSUME Serialised, SafeInv, TurnInv,
           NEW r \in Requests, NEW s \in Sessions \cup {NoSession}, Admit(r, s)
    PROVE  TurnInv'
<1>1. /\ TypeOK /\ IdleApart /\ NoneLost /\ OneTurn /\ OwnSeq /\ ParkedUnpinned /\ TickArmed
      /\ Seqs # {} /\ NoSession \notin Sessions
  BY SchedulerAssumption DEF SafeInv, CallerInv, TurnInv
<1>2. CASE AdmitSticky(r, s)
  BY <1>2, AdmitStickyTurn
<1>3. CASE AdmitDiverged(r, s)
  <2>1. /\ s \in IdlePins /\ session' = [session EXCEPT ![s] = NoSeq] /\ proc[r] = "idle"
        /\ FromPool(r, s, idleSeqs \cup {session[s]}, Cleared(session[s]))
    BY <1>3 DEF AdmitDiverged, Calls
  <2>2. /\ s \in Sessions /\ session[s] \in Seqs \ Busy /\ session'[s] = NoSeq
        /\ \A t \in Sessions : session'[t] \in {session[t], NoSeq} /\ session'[t] # session[s]
    BY <2>1, GiveUpPin
  <2> DEFINE pool == idleSeqs \cup {session[s]}
             cs == Cleared(session[s])
  <2>3. pool \in SUBSET Seqs /\ \A q \in pool : q \notin Busy
    BY <1>1, <2>2 DEF TypeOK, IdleApart
  <2>4. \A q \in Seqs \ Busy : (\A t \in Sessions : session'[t] # q) => q \in pool
    <3>1. \A t \in Sessions \ {s} : session'[t] = session[t]
      BY <1>1, <2>1, <2>2 DEF TypeOK
    <3> QED BY <1>1, <3>1 DEF NoneLost
  <2>5. ~Outstanding(s)
    BY <2>1, IdleSession
  <2>6. FromPool(r, s, pool, cs)
    BY <2>1
  <2> HIDE DEF pool, cs
  <2> QED BY <2>1, <2>2, <2>3, <2>4, <2>5, <2>6, FromPoolTurn
<1>4. CASE AdmitFresh(r, s)
  <2>1. /\ proc[r] = "idle" /\ session' = session /\ FromPool(r, s, idleSeqs, cells)
        /\ s \notin Pins /\ Calls(r, s)
    BY <1>4 DEF AdmitFresh, Calls
  <2>2. s \in Sessions => ~Outstanding(s) /\ session'[s] = NoSeq
    BY <2>1, Unpinned
  <2>3. idleSeqs \in SUBSET Seqs /\ \A q \in idleSeqs : q \notin Busy
    BY <1>1 DEF TypeOK, IdleApart
  <2>4. \A q \in Seqs \ Busy : (\A t \in Sessions : session'[t] # q) => q \in idleSeqs
    BY <1>1, <2>1 DEF NoneLost
  <2> QED BY <2>1, <2>2, <2>3, <2>4, FromPoolTurn
<1>5. CASE AdmitReclaim(r, s)
  <2>1. PICK v \in IdlePins : /\ session' = [session EXCEPT ![v] = NoSeq]
                              /\ FromPool(r, s, {session[v]}, Cleared(session[v]))
    BY <1>5 DEF AdmitReclaim
  <2>2. proc[r] = "idle" /\ Calls(r, s) /\ s \notin Pins /\ idleSeqs = {}
    BY <1>5 DEF AdmitReclaim, Calls
  <2>3. /\ v \in Sessions /\ session[v] \in Seqs \ Busy
        /\ \A t \in Sessions : session'[t] \in {session[t], NoSeq}
    BY <2>1, GiveUpPin
  <2>4. s \in Sessions => ~Outstanding(s) /\ session'[s] = NoSeq
    BY <2>2, <2>3, Unpinned
  <2>5. \A q \in Seqs \ Busy : (\A t \in Sessions : session'[t] # q) => q \in {session[v]}
    <3>1. \A t \in Sessions \ {v} : session'[t] = session[t]
      BY <1>1, <2>1, <2>3 DEF TypeOK
    <3> QED BY <1>1, <2>2, <3>1 DEF NoneLost
  <2> DEFINE pool == {session[v]}
             cs == Cleared(session[v])
  <2>6. /\ FromPool(r, s, pool, cs) /\ pool \in SUBSET Seqs /\ \A q \in pool : q \notin Busy
        /\ \A q \in Seqs \ Busy : (\A t \in Sessions : session'[t] # q) => q \in pool
    BY <2>1, <2>3, <2>5
  <2> HIDE DEF pool, cs
  <2> QED BY <2>2, <2>3, <2>4, <2>6, FromPoolTurn
<1>6. CASE AdmitPark(r, s)
  <2>1. /\ pending' = Append(pending, r) /\ proc' = [proc EXCEPT ![r] = "parked"]
        /\ of' = [of EXCEPT ![r] = s] /\ mode' = IF Busy = {} THEN "idle" ELSE mode
        /\ idleSeqs = {} /\ IdlePins = {} /\ s \notin Pins /\ Calls(r, s) /\ proc[r] = "idle"
        /\ UNCHANGED <<idleSeqs, table, cancelled, session, ticks, cells>>
    BY <1>6 DEF AdmitPark, Calls
  <2>2. /\ r \notin InFlight /\ r \notin Parked /\ Parked \subseteq Requests
        /\ \A q \in Busy : table[q] \in Requests
    BY <2>1, Standing DEF SafeInv
  <2>3. Parked' = Parked \cup {r}
    BY <1>1, <2>1, <2>2, AppendParked DEF TypeOK, SafeInv, CallerInv, CallersAccounted
  <2>4. Busy' = Busy /\ Pins' = Pins
    BY <2>1 DEF Busy, Pins
  <2>5. Busy # {}
    BY <1>1, <2>1, SchedulerAssumption DEF NoneLost, IdlePins, Reclaimable
  <2>6. NoneLost'
    BY <1>1, <2>1, <2>4 DEF NoneLost
  <2>7. OneTurn'
    BY <1>1, <2>1, Unpinned, NewTurn
  <2>8. OwnSeq'
    <3>1. \A q \in Busy : of'[table[q]] = of[table[q]]
      BY <1>1, <2>1, <2>2 DEF InFlight, TypeOK
    <3> QED BY <1>1, <2>1, <2>4, <3>1 DEF OwnSeq
  <2>9. ParkedUnpinned'
    <3>1. of'[r] = s /\ \A x \in Parked : of'[x] = of[x]
      BY <1>1, <2>1, <2>2 DEF TypeOK
    <3> QED BY <1>1, <2>1, <2>3, <2>4, <3>1 DEF ParkedUnpinned
  <2>10. TickArmed'
    BY <1>1, <2>1, <2>5 DEF TickArmed
  <2> QED BY <2>6, <2>7, <2>8, <2>9, <2>10 DEF TurnInv
<1> QED BY <1>2, <1>3, <1>4, <1>5, <1>6 DEF Admit

LEMMA EndSessionTurn ==
    ASSUME SafeInv, TurnInv, NEW s \in Sessions, EndSession(s)
    PROVE  TurnInv'
<1>1. /\ s \in Pins /\ session' = [session EXCEPT ![s] = NoSeq]
      /\ idleSeqs' = idleSeqs \cup {session[s]} /\ TypeOK
      /\ UNCHANGED <<mode, table, cancelled, pending, ticks, proc, of>>
  BY DEF EndSession, DropSession, IdlePins, Reclaimable, Pins, SafeInv, CallerInv
<1>2. Busy' = Busy /\ Parked' = Parked
  BY <1>1 DEF Busy, Parked
<1>3. \A t \in Sessions : session'[t] = IF t = s THEN NoSeq ELSE session[t]
  BY <1>1 DEF TypeOK
<1>4. Pins' \subseteq Pins
  BY <1>3 DEF Pins
<1>5. NoneLost'
  BY <1>1, <1>2, <1>3 DEF TurnInv, NoneLost
<1>6. OwnSeq'
  BY <1>1, <1>2, <1>3 DEF TurnInv, OwnSeq
<1>7. OneTurn' /\ ParkedUnpinned' /\ TickArmed'
  BY <1>1, <1>2, <1>4 DEF TurnInv, OneTurn, ParkedUnpinned, TickArmed
<1> QED BY <1>5, <1>6, <1>7 DEF TurnInv

LEMMA ResetSessionTurn ==
    ASSUME SafeInv, TurnInv, NEW s \in Sessions, ResetSession(s)
    PROVE  TurnInv'
<1> DEFINE q == session[s]
           r == table[q]
<1>1. /\ s \in Pins /\ session' = [session EXCEPT ![s] = NoSeq]
      /\ idleSeqs' = idleSeqs \cup {q} /\ table' = [table EXCEPT ![q] = NoRequest]
      /\ Answered({r}) /\ UNCHANGED <<mode, pending, ticks>>
  BY DEF ResetSession, DropSession
<1>2. TypeOK /\ CallersAccounted /\ NoRequest \notin Requests
  BY SchedulerAssumption DEF SafeInv, CallerInv
<1>3. q \in Seqs
  BY <1>1, <1>2 DEF Pins, TypeOK
<1>4. Busy' = Busy \ {q} /\ \A x \in Busy' : table'[x] = table[x]
  BY <1>1, <1>2, <1>3 DEF Busy, TypeOK
<1>5. \A t \in Sessions : session'[t] = IF t = s THEN NoSeq ELSE session[t]
  BY <1>1, <1>2 DEF TypeOK
<1>6. \A x \in Requests : /\ proc'[x] = IF x = r THEN "idle" ELSE proc[x]
                          /\ of'[x] = IF x = r THEN NoSession ELSE of[x]
  BY <1>1 DEF Answered
<1>7. \A x \in Busy' : table[x] \in Requests /\ table[x] # r
  BY <1>2, <1>3, <1>4 DEF Busy, TypeOK, CallersAccounted
<1>8. Parked' = Parked /\ Parked \subseteq Requests /\ r \notin Parked
  <2>1. Parked \subseteq Requests /\ InFlight \cap Parked = {}
    BY Standing DEF SafeInv
  <2>2. r = NoRequest \/ r \in InFlight
    BY <1>3 DEF InFlight, Busy
  <2> QED BY <1>1, <1>2, <2>1, <2>2 DEF Parked
<1> HIDE DEF r
<1>9. NoneLost'
  BY <1>1, <1>4, <1>5 DEF TurnInv, NoneLost, q
<1>10. OneTurn'
  BY <1>6, FewerTurns DEF TurnInv
<1>11. OwnSeq'
  <2>1. \A x \in Busy' : of'[table'[x]] = of[table[x]] /\ x \in Busy
    BY <1>4, <1>6, <1>7
  <2> QED BY <1>5, <2>1 DEF TurnInv, OwnSeq
<1>12. ParkedUnpinned'
  <2>1. \A x \in Parked : of'[x] = of[x]
    BY <1>6, <1>8
  <2>2. Pins' \subseteq Pins
    BY <1>5 DEF Pins
  <2> QED BY <1>8, <2>1, <2>2 DEF TurnInv, ParkedUnpinned
<1>13. TickArmed'
  BY <1>1, <1>4 DEF TurnInv, TickArmed
<1> QED BY <1>9, <1>10, <1>11, <1>12, <1>13 DEF TurnInv

LEMMA RenewedTurn ==
    ASSUME Renewed, Busy' = {}, Pins' = {}, \A r \in Requests : proc'[r] = "idle"
    PROVE  TurnInv'
<1>1. Parked' = {} /\ pending' = <<>> /\ idleSeqs' = Seqs
  BY DEF Renewed, Parked
<1> QED BY <1>1 DEF TurnInv, NoneLost, OneTurn, OwnSeq, ParkedUnpinned, TickArmed

(***************************************************************************)
(* What the end of the requests on done leaves pinned: the sequence of the *)
(* one request of the session that ended, or what was pinned before.       *)
(***************************************************************************)
LEMMA EndedPins ==
    ASSUME SafeInv, TurnInv, NEW done \in SUBSET Busy, NEW pin, PinnedBy(done, pin)
    PROVE  /\ \A q \in done : of[table[q]] \in Sessions => pin[of[table[q]]] = q
           /\ \A q \in Busy \ done : of[table[q]] \in Sessions =>
                  pin[of[table[q]]] = session[of[table[q]]]
           /\ \A r \in Parked : of[r] \in Sessions => pin[of[r]] = session[of[r]]
           /\ \A s \in Sessions : session[s] \in Seqs \ Busy => pin[s] = session[s]
<1>1. TypeOK /\ CallersAccounted /\ OneTurn /\ OwnSeq /\ NoSession \notin Sessions
      /\ NoSeq \notin Seqs
  BY SchedulerAssumption DEF SafeInv, CallerInv, TurnInv
<1>2. \A q \in Busy : table[q] \in Requests /\ proc[table[q]] = "running"
  BY <1>1 DEF Busy, InFlight, TypeOK, CallersAccounted
<1>3. \A r \in Parked : r \in Requests /\ proc[r] = "parked"
  BY <1>1, Standing DEF SafeInv, CallersAccounted
<1>4. \A p, q \in Busy : of[table[p]] \in Sessions /\ of[table[p]] = of[table[q]] => p = q
  <2> SUFFICES ASSUME NEW p \in Busy, NEW q \in Busy,
                      of[table[p]] \in Sessions, of[table[p]] = of[table[q]]
               PROVE  p = q
    OBVIOUS
  <2>1. table[p] = table[q]
    BY <1>1, <1>2 DEF OneTurn
  <2> QED BY <1>1, <2>1 DEF CallersAccounted
<1>5. \A q \in Busy, r \in Parked : of[r] \in Sessions => of[table[q]] # of[r]
  <2> SUFFICES ASSUME NEW q \in Busy, NEW r \in Parked, of[r] \in Sessions, of[table[q]] = of[r]
               PROVE  FALSE
    OBVIOUS
  <2>1. table[q] = r
    BY <1>1, <1>2, <1>3 DEF OneTurn
  <2> QED BY <1>2, <1>3, <2>1
<1>6. ASSUME NEW q \in done, of[table[q]] \in Sessions
      PROVE  pin[of[table[q]]] = q
  BY <1>4, <1>6, PinnedEither
<1>7. ASSUME NEW q \in Busy \ done, of[table[q]] \in Sessions
      PROVE  pin[of[table[q]]] = session[of[table[q]]]
  BY <1>4, <1>7, PinnedEither
<1>8. ASSUME NEW r \in Parked, of[r] \in Sessions
      PROVE  pin[of[r]] = session[of[r]]
  BY <1>5, <1>8, PinnedEither
<1>9. ASSUME NEW s \in Sessions, session[s] \in Seqs \ Busy
      PROVE  pin[s] = session[s]
  <2>1. CASE pin[s] \in done /\ of[table[pin[s]]] = s
    BY <1>1, <1>9, <2>1 DEF OwnSeq
  <2> QED BY <2>1, PinnedEither
<1> QED BY <1>6, <1>7, <1>8, <1>9

LEMMA ServesTurn ==
    ASSUME SafeInv, TurnInv, NEW done, NEW pin, NEW k, NEW failed, NEW taken, NEW new,
           Serves(done, pin, k, failed, taken, new), PinnedBy(done, pin)
    PROVE  /\ NoneLost' /\ OneTurn' /\ OwnSeq' /\ ParkedUnpinned'
           /\ pending' = <<>> \/ Busy' = Seqs
<1> DEFINE avail == Avail(done, pin, taken)
           used  == Used(done, pin, taken, new)
           over  == {table[q] : q \in done}
           served == {pending[i] : i \in 1 .. k}
           started == {new[q] : q \in used}
<1>1. /\ done \in SUBSET Busy /\ Settled(done, pin) /\ k \in 0 .. Len(pending)
      /\ pin \in [Sessions -> Seqs \cup {NoSeq}]
      /\ taken \in SUBSET Reclaimable(pin, Busy \ done)
      /\ Dispatch(done, Pool(done), pin, Kept(done), k, failed, taken, new)
  BY DEF Serves
<1>2. /\ TypeOK /\ CallersAccounted /\ NoneLost /\ OneTurn /\ OwnSeq /\ ParkedUnpinned
      /\ NoSession \notin Sessions /\ NoSeq \notin Seqs
  BY SchedulerAssumption DEF SafeInv, CallerInv, TurnInv
<1>3. /\ InFlight \subseteq Requests /\ Parked \subseteq Requests /\ InFlight \cap Parked = {}
      /\ Busy \subseteq Seqs /\ \A q \in Busy : table[q] \in Requests
  BY Standing DEF SafeInv
<1>4. /\ used \subseteq avail
      /\ idleSeqs' = avail \ used
      /\ Busy' = (Busy \ done) \cup used
      /\ \A q \in used : table'[q] = new[q] /\ new[q] \in Parked
      /\ \A q \in Busy \ done : table'[q] = table[q] /\ q \notin avail
      /\ started = served \ failed
      /\ failed \subseteq served
  BY DispatchFlight
<1>5. /\ avail \subseteq Seqs \ (Busy \ done)
      /\ taken \subseteq Sessions
      /\ \A s \in Sessions \ taken : pin[s] \notin avail
  BY AvailFree
<1>6. pending' = SubSeq(pending, k + 1, Len(pending))
  BY <1>1 DEF Dispatch
<1>7. /\ Parked' = Parked \ served
      /\ served \subseteq Parked
      /\ pending' = <<>> <=> k = Len(pending)
  BY <1>1, <1>2, <1>6, ServedLeave DEF TypeOK, CallersAccounted
<1>8. /\ proc' = [r \in Requests |-> IF r \in started THEN "running"
                                     ELSE IF r \in over \cup failed THEN "idle" ELSE proc[r]]
      /\ of' = [r \in Requests |-> IF r \in over \cup failed THEN NoSession ELSE of[r]]
      /\ session' = [s \in Sessions |-> IF s \in taken THEN NoSeq ELSE pin[s]]
      /\ k < Len(pending) => avail \ used = {} /\ taken = Reclaimable(pin, Busy \ done)
  <2>1. used = avail \ {q \in avail : new[q] = NoRequest}
        /\ avail \ used = {q \in avail : new[q] = NoRequest}
    BY DEF Used
  <2> QED BY <1>1, <2>1 DEF Dispatch, Avail
<1>9. over \subseteq InFlight
  BY <1>1 DEF InFlight
<1> HIDE DEF avail, used
<1>10. \A q \in Busy \ done : of'[table'[q]] = of[table[q]] /\ q \in Busy
  <2> SUFFICES ASSUME NEW q \in Busy \ done PROVE of'[table'[q]] = of[table[q]] /\ q \in Busy
    OBVIOUS
  <2>1. table[q] \in InFlight /\ table[q] \notin over
    BY <1>1, <1>2 DEF InFlight, CallersAccounted
  <2>2. table[q] \notin failed
    BY <1>3, <1>4, <1>7, <2>1
  <2> QED BY <1>3, <1>4, <1>8, <2>1, <2>2
<1> HIDE DEF over, started, served
<1>11. \A r \in Parked \ failed : of'[r] = of[r]
  BY <1>3, <1>8, <1>9
<1>12. \A s \in Sessions : session'[s] = IF s \in taken THEN NoSeq ELSE pin[s]
  BY <1>8
<1>0. /\ \A q \in done : of[table[q]] \in Sessions => pin[of[table[q]]] = q
      /\ \A q \in Busy \ done : of[table[q]] \in Sessions =>
             pin[of[table[q]]] = session[of[table[q]]]
      /\ \A r \in Parked : of[r] \in Sessions => pin[of[r]] = session[of[r]]
      /\ \A s \in Sessions : session[s] \in Seqs \ Busy => pin[s] = session[s]
  <2>1. done \in SUBSET Busy /\ PinnedBy(done, pin)
    BY <1>1
  <2> QED BY ONLY SafeInv, TurnInv, <2>1, EndedPins
<1>13. \A r \in Parked : of[r] \in Sessions => pin[of[r]] = NoSeq
  BY <1>0, <1>2 DEF ParkedUnpinned, Pins
<1>14. NoneLost'
  <2> SUFFICES ASSUME NEW q \in Seqs, q \notin Busy', \A s \in Sessions : session'[s] # q,
                      q \notin avail
               PROVE  FALSE
    BY <1>4 DEF NoneLost
  <2>1. \A s \in Sessions : pin[s] # q
    <3> SUFFICES ASSUME NEW s \in Sessions, pin[s] = q PROVE FALSE
      OBVIOUS
    <3>1. s \in taken
      BY <1>12
    <3> QED BY <3>1 DEF avail, Avail
  <2>2. q \notin Pool(done) /\ q \notin Busy \ done
    BY <1>4 DEF avail, Avail
  <2>3. q \notin done
    <3> SUFFICES ASSUME q \in done PROVE FALSE
      OBVIOUS
    <3>1. of[table[q]] # NoSession
      BY <2>2 DEF Pool, Released
    <3>2. of[table[q]] \in Sessions
      BY <1>1, <1>2, <1>3, <3>1 DEF TypeOK
    <3> QED BY <1>0, <2>1, <3>2
  <2>4. PICK s \in Sessions : session[s] = q
    BY <1>2, <2>2, <2>3 DEF NoneLost, Pool
  <2>5. session[s] \in Seqs \ Busy
    BY <2>2, <2>3, <2>4
  <2> QED BY <1>0, <2>1, <2>4, <2>5
<1>15. OneTurn'
  <2>1. \A x \in Requests : proc'[x] # "idle" => proc[x] # "idle" /\ of'[x] = of[x]
    <3> SUFFICES ASSUME NEW x \in Requests, proc'[x] # "idle"
                 PROVE  proc[x] # "idle" /\ of'[x] = of[x]
      OBVIOUS
    <3>1. CASE x \in started
      <4>1. x \in Parked \ failed
        BY <1>4, <1>7, <3>1
      <4>2. proc[x] = "parked"
        BY <1>2, <4>1 DEF CallersAccounted
      <4> QED BY <1>11, <4>1, <4>2
    <3>2. CASE x \notin started
      BY <1>8, <3>2
    <3> QED BY <3>1, <3>2
  <2> QED BY <1>2, <2>1, FewerTurns
<1>16. OwnSeq'
  <2> SUFFICES ASSUME NEW q \in Busy', of'[table'[q]] \in Sessions
               PROVE  session'[of'[table'[q]]] \in {q, NoSeq}
    BY DEF OwnSeq
  <2>1. CASE q \in Busy \ done
    <3>1. pin[of[table[q]]] = session[of[table[q]]]
      BY <1>0, <1>10, <2>1
    <3> QED BY <1>2, <1>10, <1>12, <2>1, <3>1 DEF OwnSeq
  <2>2. CASE q \in used
    <3>1. new[q] \in Parked \ failed
      BY <1>4, <2>2 DEF started
    <3> QED BY <1>4, <1>11, <1>12, <1>13, <2>2, <3>1
  <2> QED BY <1>4, <2>1, <2>2
<1>17. ParkedUnpinned'
  <2> SUFFICES ASSUME NEW r \in Parked', of'[r] \in Pins' PROVE FALSE
    BY DEF ParkedUnpinned
  <2>1. r \in Parked \ failed
    BY <1>4, <1>7
  <2> QED BY <1>11, <1>12, <1>13, <2>1 DEF Pins
<1>18. ASSUME k # Len(pending) PROVE Busy' = Seqs
  <2>1. k < Len(pending)
    BY <1>1, <1>2, <1>18 DEF TypeOK
  <2>2. idleSeqs' = {} /\ taken = Reclaimable(pin, Busy \ done)
    BY <1>4, <1>8, <2>1
  <2>3. ASSUME NEW q \in Seqs PROVE q \in Busy'
    <3> SUFFICES ASSUME q \notin Busy' PROVE FALSE
      OBVIOUS
    <3>1. PICK s \in Sessions : session'[s] = q
      BY <1>14, <2>2 DEF NoneLost
    <3>2. s \notin taken /\ pin[s] = q
      BY <1>2, <1>12, <3>1
    <3>3. q \in Busy \ done
      BY <1>2, <2>2, <3>2 DEF Reclaimable
    <3> QED BY <1>4, <3>3
  <2>4. Busy' \subseteq Seqs
    BY <1>3, <1>4, <1>5
  <2> QED BY <2>3, <2>4
<1> QED BY <1>7, <1>14, <1>15, <1>16, <1>17, <1>18

LEMMA StepDoneTurn ==
    ASSUME SafeInv, TurnInv, NEW done \in SUBSET Busy, StepDone(done)
    PROVE  TurnInv' /\ (pending' = <<>> \/ Busy' = Seqs)
<1>1. PICK pin, k, failed, taken, new :
          Serves(done, pin, k, failed, taken, new) /\ PinnedBy(done, pin)
  BY StepServes
<1>2. /\ NoneLost' /\ OneTurn' /\ OwnSeq' /\ ParkedUnpinned'
      /\ pending' = <<>> \/ Busy' = Seqs
  BY <1>1, ServesTurn
<1>3. TickArmed'
  BY <1>2, SchedulerAssumption DEF StepDone, Rearm, TickArmed
<1> QED BY <1>2, <1>3 DEF TurnInv

\* Only the mode or the ticks change, and TickArmed stands.
LEMMA QuietTurn ==
    ASSUME TurnInv, TickArmed',
           UNCHANGED <<idleSeqs, table, cancelled, pending, session, cells, proc, of>>
    PROVE  TurnInv'
<1>1. Busy' = Busy /\ Parked' = Parked /\ Pins' = Pins
  BY DEF Busy, Parked, Pins
<1>2. NoneLost' /\ OneTurn' /\ OwnSeq' /\ ParkedUnpinned'
  BY <1>1 DEF TurnInv, NoneLost, OneTurn, OwnSeq, ParkedUnpinned
<1> QED BY <1>2 DEF TurnInv

LEMMA CancelTurn ==
    ASSUME TurnInv, NEW r \in Requests, Cancel(r)
    PROVE  TurnInv'
<1>1. UNCHANGED <<mode, idleSeqs, table, pending, session, ticks, cells, proc, of>>
  BY DEF Cancel
<1>2. Busy' = Busy /\ Parked' = Parked /\ Pins' = Pins
  BY <1>1 DEF Busy, Parked, Pins
<1> QED BY <1>1, <1>2 DEF TurnInv, NoneLost, OneTurn, OwnSeq, ParkedUnpinned, TickArmed

LEMMA InitTurn == Init => TurnInv
<1> SUFFICES ASSUME Init PROVE TurnInv
  OBVIOUS
<1>1. Busy = {} /\ Parked = {} /\ pending = <<>> /\ idleSeqs = Seqs
      /\ \A r \in Requests : proc[r] = "idle"
  BY DEF Init, Busy, Parked
<1> QED BY <1>1 DEF TurnInv, NoneLost, OneTurn, OwnSeq, ParkedUnpinned, TickArmed

LEMMA NextTurn ==
    ASSUME Serialised, SafeInv, TurnInv, [Next]_vars
    PROVE  TurnInv' /\ (Tick => pending' = <<>> \/ Busy' = Seqs)
<1> DEFINE Served == pending' = <<>> \/ Busy' = Seqs
<1>1. ASSUME NEW r \in Requests, NEW s \in Sessions \cup {NoSession}, Admit(r, s) PROVE TurnInv'
  BY <1>1, AdmitTurn
<1>2. ASSUME NEW r \in Requests, Cancel(r) PROVE TurnInv'
  BY <1>2, CancelTurn
<1>3. ASSUME NEW s \in Sessions, EndSession(s) PROVE TurnInv'
  BY <1>3, EndSessionTurn
<1>4. ASSUME NEW s \in Sessions, ResetSession(s) PROVE TurnInv'
  BY <1>4, ResetSessionTurn
<1>5. ASSUME NEW done \in SUBSET Busy, StepDone(done) PROVE TurnInv' /\ Served
  BY <1>5, StepDoneTurn
<1>6. ASSUME Recover PROVE TurnInv' /\ Served
  <2>1. Renewed
    BY <1>6 DEF Recover
  <2> QED BY <1>6, <2>1, RecoverSafe, RenewedTurn
<1>7. ASSUME StrayTick PROVE TurnInv' /\ Served
  <2>1. UNCHANGED <<mode, idleSeqs, table, cancelled, pending, session, cells, proc, of>>
        /\ mode = "idle"
    BY <1>7 DEF StrayTick
  <2>2. Busy = {} /\ pending = <<>>
    BY <2>1 DEF TurnInv, TickArmed
  <2>3. Busy' = {} /\ pending' = <<>>
    BY <2>1, <2>2 DEF Busy
  <2> QED BY <2>1, <2>3, QuietTurn DEF TickArmed
<1>8. ASSUME Stop PROVE TurnInv'
  <2>1. Renewed
    BY <1>8 DEF Stop
  <2> QED BY <1>8, <2>1, StopSafe, RenewedTurn
<1>9. ASSUME Load PROVE TurnInv'
  <2>1. UNCHANGED <<idleSeqs, table, cancelled, pending, session, ticks, cells, proc, of>>
        /\ mode = "stopped"
    BY <1>9 DEF Load
  <2>2. Busy = {} /\ pending = <<>>
    BY <2>1 DEF TurnInv, TickArmed
  <2>3. Busy' = {} /\ pending' = <<>>
    BY <2>1, <2>2 DEF Busy
  <2> QED BY <2>1, <2>3, QuietTurn DEF TickArmed
<1>10. ASSUME UNCHANGED vars PROVE TurnInv'
  <2>1. UNCHANGED <<mode, idleSeqs, table, cancelled, pending, session, ticks, cells, proc, of>>
    BY <1>10 DEF vars
  <2>2. TickArmed'
    BY <2>1 DEF TurnInv, TickArmed, Busy
  <2> QED BY <2>1, <2>2, QuietTurn
<1>11. Tick => Served
  BY <1>5, <1>6, <1>7 DEF Tick
<1>12. TurnInv'
  BY <1>1, <1>2, <1>3, <1>4, <1>5, <1>6, <1>7, <1>8, <1>9, <1>10 DEF Next, Tick
<1> QED BY <1>11, <1>12

LEMMA Turns == ASSUME Serialised PROVE Spec => [](SafeInv /\ TurnInv)
<1>1. Init => SafeInv /\ TurnInv
  BY InitSafe, InitTurn
<1>2. SafeInv /\ TurnInv /\ [Next]_vars => (SafeInv /\ TurnInv)'
  BY NextSafe, NextTurn
<1> QED BY <1>1, <1>2, PTL DEF Spec

\* A sequence is free unless it is in flight or pinned: none is lost and
\* none is freed twice, when first turns of a session do not overlap.
THEOREM SequencesConserved == ASSUME Serialised PROVE Spec => []SeqsConserved
<1>1. SafeInv /\ TurnInv => SeqsConserved
  BY DEF SafeInv, TurnInv, CallerInv, TypeOK, IdleApart, NoneLost, SeqsConserved
<1> QED BY <1>1, Turns, PTL

\* No two requests of one session are in flight together.
THEOREM SessionsExclusive == ASSUME Serialised PROVE Spec => []SessionExclusive
<1>1. SafeInv /\ TurnInv => SessionExclusive
  <2> SUFFICES ASSUME SafeInv, TurnInv, NEW p \in Busy, NEW q \in Busy,
                      of[table[p]] = of[table[q]], of[table[p]] # NoSession
               PROVE  p = q
    BY DEF SessionExclusive
  <2>1. table[p] \in Requests /\ table[q] \in Requests /\ CallersAccounted
    BY Standing DEF SafeInv, CallerInv
  <2>2. proc[table[p]] = "running" /\ proc[table[q]] = "running"
    BY <2>1 DEF CallersAccounted, InFlight
  <2>3. table[p] = table[q]
    BY <2>1, <2>2 DEF TurnInv, OneTurn
  <2> QED BY <2>1, <2>3 DEF CallersAccounted
<1> QED BY <1>1, Turns, PTL

\* A tick leaves a caller parked only when every sequence is in flight.
THEOREM DispatchIsMaximal == ASSUME Serialised PROVE Spec => DispatchMaximal
<1>1. SafeInv /\ TurnInv /\ [Next]_vars => [Tick => pending' = <<>> \/ Busy' = Seqs]_vars
  BY NextTurn
<1> QED BY <1>1, Turns, PTL DEF Spec, DispatchMaximal
================================================================================
