------------------------ MODULE ModelLifecycleProofs ------------------------
(***************************************************************************)
(* Theorems about ModelLifecycle, for every set of models and of requests, *)
(* every capacity and every choice of keep-alives.                         *)
(***************************************************************************)
EXTENDS ModelLifecycle, TLAPS, FiniteSetTheorems, SequenceTheorems

(***************************************************************************)
(* What a handler has told keepalive and keepalive has not yet heard: a    *)
(* request_begin comes first, a request_end only once the request is over, *)
(* and neither before the handler has seen its model loaded.               *)
(***************************************************************************)
Told(r) ==
    /\ pc[r] # "idle" => on[r] \in Models
    /\ pc[r] \in {"idle", "waiting"} => ~begun[r]
    /\ ~begun[r] => cast[r] = <<>>
    /\ begun[r] /\ pc[r] = "ready" => cast[r] \in {<<>>, <<"begin">>}
    /\ begun[r] /\ pc[r] = "ended" =>
          \/ cast[r] = <<>>
          \/ \E ka \in KeepAlives : cast[r] \in {<<ka>>, <<"begin", ka>>}

\* keepalive counts nothing for a model it has no entry for
Untracked == \A m \in Models : ~entry[m].tracked => entry[m].active = 0

\* nor more than there are
CountsBelow == \A m \in Models : entry[m].active <= Cardinality(Counted(m))

\* a worker that unloads has picked a model
VictimNamed == \A m \in Models : work[m] = "evict" => victim[m] \in Models

LifecycleInv ==
    /\ TypeOK /\ VictimNamed
    /\ \A r \in Requests : Told(r)
    /\ Untracked
    /\ CountsBelow
    /\ CountsExact

-----------------------------------------------------------------------------
LEMMA DropTypes ==
  ASSUME TypeOK, NEW v, DropAndUnload(v)
  PROVE  /\ running' \in [Models -> BOOLEAN]
         /\ entry' \in [Models -> [tracked : BOOLEAN, active : Nat,
                                  timer : {"none", KeptRef}]]
         /\ clock' \in [Models -> BOOLEAN]
<1>1. NoEntry \in [tracked : BOOLEAN, active : Nat, timer : {"none", KeptRef}]
  BY DEF NoEntry
<1>2. QED BY <1>1 DEF TypeOK, DropAndUnload

LEMMA DropVictimTypes ==
  ASSUME TypeOK, NEW m \in Models, DropVictim(m)
  PROVE  /\ running' \in [Models -> BOOLEAN]
         /\ entry' \in [Models -> [tracked : BOOLEAN, active : Nat,
                                  timer : {"none", KeptRef}]]
         /\ clock' \in [Models -> BOOLEAN]
         /\ victim' \in [Models -> Models \cup {None}]
         /\ dropped' \in [Models -> BOOLEAN]
         /\ UNCHANGED <<loader, sent, subs, pc, on, begun, cast, fired>>
<1>1. DropAndUnload(victim[m]) /\ UNCHANGED <<loader, sent, subs, requests, fired>>
  BY DEF DropVictim
<1>2. victim' \in [Models -> Models \cup {None}] /\ dropped' \in [Models -> BOOLEAN]
  BY DEF DropVictim, TypeOK
<1>3. QED BY <1>1, <1>2, DropTypes DEF requests

LEMMA BeginTypes ==
  ASSUME TypeOK, NEW r \in Requests, RequestBegin(r)
  PROVE  /\ cast' \in [Requests -> Seq(Casts)]
         /\ entry' \in [Models -> [tracked : BOOLEAN, active : Nat,
                                  timer : {"none", KeptRef}]]
<1>1. cast' \in [Requests -> Seq(Casts)]
  BY DEF TypeOK, RequestBegin, Pop
<1>2. entry' = [entry EXCEPT ![on[r]] =
                 [tracked |-> TRUE, active |-> entry[on[r]].active + 1, timer |-> "none"]]
  BY DEF RequestBegin
<1>3. CASE on[r] \in Models
  <2>1. [tracked |-> TRUE, active |-> entry[on[r]].active + 1, timer |-> "none"]
          \in [tracked : BOOLEAN, active : Nat, timer : {"none", KeptRef}]
    BY <1>3 DEF TypeOK
  <2>2. QED BY <1>1, <1>2, <2>1 DEF TypeOK
<1>4. CASE on[r] \notin Models
  BY <1>1, <1>2, <1>4 DEF TypeOK
<1>5. QED BY <1>3, <1>4

LEMMA ArmTypes ==
  ASSUME TypeOK, NEW m \in Models, NEW n \in Nat, NEW ka \in KeepAlives, Arm(m, n, ka)
  PROVE  /\ running' \in [Models -> BOOLEAN]
         /\ entry' \in [Models -> [tracked : BOOLEAN, active : Nat,
                                  timer : {"none", KeptRef}]]
         /\ clock' \in [Models -> BOOLEAN]
<1> DEFINE Entry == [tracked : BOOLEAN, active : Nat, timer : {"none", KeptRef}]
<1>1. entry[m] \in Entry
  BY DEF TypeOK
<1>2. CASE n > 0
  <2>1. entry' = [entry EXCEPT ![m].active = n] /\ UNCHANGED <<running, clock>>
    BY <1>2 DEF Arm
  <2>2. [entry[m] EXCEPT !.active = n] \in Entry
    BY <1>1
  <2>3. entry' \in [Models -> Entry]
    <3> HIDE DEF Entry
    <3>1. entry \in [Models -> Entry]
      BY DEF TypeOK, Entry
    <3>2. QED BY <2>1, <2>2, <3>1
  <2>4. QED BY <2>1, <2>3 DEF TypeOK
<1>3. CASE ~(n > 0)
  <2> DEFINE t == IF ka = "ttl" THEN KeptRef ELSE "none"
  <2>1. running' \in [Models -> BOOLEAN] /\ clock' \in [Models -> BOOLEAN]
    BY <1>3 DEF TypeOK, Arm
  <2>2. entry' = [entry EXCEPT ![m].active = 0, ![m].timer = t]
    BY <1>3 DEF Arm
  <2>3. t \in {"none", KeptRef}
    OBVIOUS
  <2>4. [[entry[m] EXCEPT !.active = 0] EXCEPT !.timer = t] \in Entry
    <3> HIDE DEF t
    <3>1. QED BY <1>1, <2>3
  <2>5. entry' \in [Models -> Entry]
    <3> HIDE DEF Entry, t
    <3>1. entry \in [Models -> Entry]
      BY DEF TypeOK, Entry
    <3>2. QED BY <2>2, <2>4, <3>1
  <2>6. QED BY <2>1, <2>5
<1>4. QED BY <1>2, <1>3

LEMMA TypeKept ==
  TypeOK /\ VictimNamed /\ (\A r \in Requests : Told(r)) /\ [Next]_vars
     => TypeOK' /\ VictimNamed'
<1> SUFFICES ASSUME TypeOK, VictimNamed, \A r \in Requests : Told(r), [Next]_vars
             PROVE  TypeOK' /\ VictimNamed'
  OBVIOUS
<1> USE DEF VictimNamed, loads, requests, keepalive
<1>1. ASSUME NEW m \in Models, NEW r \in Requests,
             \/ EnsureReady(r, m) \/ EnsureSubscribe(r, m)
             \/ SubscribeLoading(m, r) \/ SubscribeFailed(m, r)
      PROVE  TypeOK' /\ VictimNamed'
  <2>1. CASE EnsureReady(r, m)
    BY <2>1 DEF EnsureReady, TypeOK
  <2>2. CASE EnsureSubscribe(r, m)
    BY <2>2 DEF EnsureSubscribe, TypeOK
  <2>3. CASE SubscribeLoading(m, r)
    BY <2>3 DEF SubscribeLoading, TypeOK
  <2>4. CASE SubscribeFailed(m, r)
    BY <2>4 DEF SubscribeFailed, Done, TypeOK
  <2>5. QED BY <1>1, <2>1, <2>2, <2>3, <2>4
<1>2. ASSUME NEW m \in Models, NEW r \in Requests, SubscribeLoaded(m, r)
      PROVE  TypeOK' /\ VictimNamed'
  <2>1. pc' \in [Requests -> {"idle", "waiting", "ready", "ended"}]
    <3>1. CASE running[m]
      BY <1>2, <3>1 DEF SubscribeLoaded, Done, TypeOK
    <3>2. CASE ~running[m]
      BY <1>2, <3>2 DEF SubscribeLoaded, Done, TypeOK
    <3>3. QED BY <3>1, <3>2
  <2>2. /\ loader' \in [Models -> {"none", "loading", "loaded", "failed", "exited"}]
        /\ sent' \in [Models -> SUBSET Requests]
    <3>1. CASE running[m]
      <4>1. sent' = [sent EXCEPT ![m] = @ \ {r}] /\ UNCHANGED loader
        BY <1>2, <3>1 DEF SubscribeLoaded
      <4>2. QED BY <4>1 DEF TypeOK
    <3>2. CASE ~running[m]
      <4>1. Stop(m)
        BY <1>2, <3>2 DEF SubscribeLoaded
      <4>2. QED BY <4>1 DEF Stop, TypeOK
    <3>3. QED BY <3>1, <3>2
  <2>3. UNCHANGED <<running, subs, work, victim, tried, on, begun, cast, keepalive>>
    BY <1>2 DEF SubscribeLoaded
  <2>4. QED BY <2>1, <2>2, <2>3 DEF TypeOK
<1>3. ASSUME NEW m \in Models, ConfigDown(m) \/ Finalize(m) \/ ModelDown(m)
      PROVE  TypeOK' /\ VictimNamed'
  <2>1. CASE ConfigDown(m)
    BY <2>1 DEF ConfigDown, TypeOK
  <2>2. CASE Finalize(m)
    BY <2>2 DEF Finalize, Done, Stop, TypeOK
  <2>3. CASE ModelDown(m)
    BY <2>3 DEF ModelDown, Stop, TypeOK
  <2>4. QED BY <1>3, <2>1, <2>2, <2>3
<1>4. ASSUME NEW m \in Models,
             MakeRoom(m) \/ UnloadVictim(m) \/ LoadModel(m) \/ LoadFails(m)
      PROVE  TypeOK' /\ VictimNamed'
  <2>1. CASE MakeRoom(m)
    <3>1. Candidates(m) \subseteq Models
      BY DEF Candidates, Loaded
    <3>2. UNCHANGED <<running, loader, sent, subs, tried, requests, keepalive>>
      BY <2>1 DEF MakeRoom
    <3>3. \/ work' = [work EXCEPT ![m] = "load"] /\ UNCHANGED victim
          \/ work' = [work EXCEPT ![m] = "error"] /\ UNCHANGED victim
          \/ /\ work' = [work EXCEPT ![m] = "evict"]
             /\ \E v \in Candidates(m) : victim' = [victim EXCEPT ![m] = v]
      BY <2>1 DEF MakeRoom
    <3>4. CASE /\ UNCHANGED victim
               /\ \E x \in {"load", "error"} : work' = [work EXCEPT ![m] = x]
      <4>1. TypeOK' /\ \A k \in Models : work'[k] = "evict" => work[k] = "evict"
        BY <3>2, <3>4 DEF TypeOK
      <4>2. QED BY <3>4, <4>1
    <3>5. CASE /\ work' = [work EXCEPT ![m] = "evict"]
               /\ \E v \in Candidates(m) : victim' = [victim EXCEPT ![m] = v]
      BY <3>1, <3>2, <3>5 DEF TypeOK
    <3>6. QED BY <3>3, <3>4, <3>5
  <2>2. CASE UnloadVictim(m)
    <3>1. victim[m] \in Models
      BY <2>2 DEF UnloadVictim
    <3>2. /\ tried' \in [Models -> SUBSET Models]
          /\ work' \in [Models -> {"idle", "room", "evict", "load", "ok", "error"}]
      BY <2>2, <3>1 DEF UnloadVictim, TypeOK
    <3>3. VictimNamed'
      BY <2>2 DEF UnloadVictim, DropVictim, TypeOK
    <3>4. QED BY <2>2, <3>2, <3>3, DropVictimTypes DEF UnloadVictim, TypeOK
  <2>3. CASE LoadModel(m)
    BY <2>3 DEF LoadModel, TypeOK
  <2>4. CASE LoadFails(m)
    BY <2>4 DEF LoadFails, TypeOK
  <2>5. QED BY <1>4, <2>1, <2>2, <2>3, <2>4
<1>5. ASSUME NEW m \in Models, Unloading(m)
      PROVE  TypeOK' /\ VictimNamed'
  <2>1. CASE TimerFires(m)
    BY <2>1 DEF TimerFires, TypeOK
  <2>2. CASE UnloadTimer(m)
    <3>1. fired' \in [Models -> BOOLEAN] /\ UNCHANGED <<loads, requests, dropped>>
      BY <2>2 DEF UnloadTimer, TypeOK
    <3>2. DropAndUnload(m) \/ UNCHANGED <<running, entry, clock>>
      BY <2>2 DEF UnloadTimer
    <3>3. QED BY <3>1, <3>2, DropTypes DEF TypeOK
  <2>3. CASE UnloadIdle(m)
    BY <2>3, DropTypes DEF UnloadIdle, TypeOK
  <2>4. CASE ModelExits(m)
    BY <2>4 DEF ModelExits, TypeOK
  <2>5. CASE UnloadLate(m)
    <3>1. VictimNamed'
      BY <2>5 DEF UnloadLate, DropVictim, TypeOK
    <3>2. QED BY <2>5, <3>1, DropVictimTypes DEF UnloadLate, TypeOK
  <2>6. QED BY <1>5, <2>1, <2>2, <2>3, <2>4, <2>5 DEF Unloading
<1>6. ASSUME NEW r \in Requests, Handling(r)
      PROVE  TypeOK' /\ VictimNamed'
  <2>1. CASE LoadTimeout(r)
    BY <2>1 DEF LoadTimeout, TypeOK
  <2>2. CASE HandlerBegins(r)
    BY <2>2 DEF HandlerBegins, Casts, TypeOK
  <2>3. CASE HandlerEnds(r)
    <3>1. cast' \in [Requests -> Seq(Casts)]
      <4>1. CASE begun[r]
        <5>1. PICK ka \in KeepAlives : cast' = [cast EXCEPT ![r] = Append(@, ka)]
          BY <2>3, <4>1 DEF HandlerEnds
        <5>2. ka \in Casts /\ cast[r] \in Seq(Casts)
          BY DEF Casts, TypeOK
        <5>3. Append(cast[r], ka) \in Seq(Casts)
          BY <5>2
        <5>4. QED BY <5>1, <5>3 DEF TypeOK
      <4>2. CASE ~begun[r]
        BY <2>3, <4>2 DEF HandlerEnds, TypeOK
      <4>3. QED BY <4>1, <4>2
    <3>2. pc' \in [Requests -> {"idle", "waiting", "ready", "ended"}]
      BY <2>3 DEF HandlerEnds, TypeOK
    <3>3. QED BY <2>3, <3>1, <3>2 DEF HandlerEnds, TypeOK
  <2>4. CASE Recycle(r)
    BY <2>4 DEF Recycle, TypeOK
  <2>5. CASE RequestBegin(r)
    <3>1. clock' \in [Models -> BOOLEAN]
      BY <2>5 DEF RequestBegin, TypeOK
    <3>2. QED BY <2>5, <3>1, BeginTypes DEF RequestBegin, TypeOK
  <2>6. CASE RequestEnd(r)
    <3>1. cast[r] # <<>> /\ Head(cast[r]) \in KeepAlives
      BY <2>6 DEF RequestEnd, TypeOK, Casts
    <3>2. cast' \in [Requests -> Seq(Casts)]
      BY <3>1, <2>6 DEF RequestEnd, Pop, TypeOK
    <3>3. on[r] \in Models
      BY <3>1 DEF Told, TypeOK
    <3> DEFINE n == IF entry[on[r]].active > 0 THEN entry[on[r]].active - 1 ELSE 0
    <3>4. n \in Nat
      BY <3>3 DEF TypeOK
    <3>5. Arm(on[r], n, Head(cast[r])) \/ UNCHANGED <<running, entry, clock>>
      BY <2>6 DEF RequestEnd
    <3>6. /\ running' \in [Models -> BOOLEAN]
          /\ entry' \in [Models -> [tracked : BOOLEAN, active : Nat,
                                   timer : {"none", KeptRef}]]
          /\ clock' \in [Models -> BOOLEAN]
      <4> HIDE DEF n
      <4>1. CASE Arm(on[r], n, Head(cast[r]))
        BY <3>1, <3>3, <3>4, <4>1, ArmTypes
      <4>2. QED BY <3>5, <4>1 DEF TypeOK
    <3>7. dropped' \in [Models -> BOOLEAN]
      BY <2>6 DEF RequestEnd, TypeOK
    <3>8. QED BY <2>6, <3>2, <3>6, <3>7 DEF RequestEnd, TypeOK
  <2>7. QED BY <1>6, <2>1, <2>2, <2>3, <2>4, <2>5, <2>6 DEF Handling
<1>7. CASE UNCHANGED vars
  BY <1>7 DEF vars, TypeOK
<1>8. QED
  BY <1>1, <1>2, <1>3, <1>4, <1>5, <1>6, <1>7 DEF Next, Loading

LEMMA Mailbox ==
  ASSUME NEW x, NEW y
  PROVE  /\ Append(<<>>, x) = <<x>>
         /\ Append(<<x>>, y) = <<x, y>>
         /\ Tail(<<x>>) = <<>>
         /\ Tail(<<x, y>>) = <<y>>
         /\ Head(<<x>>) = x
         /\ Head(<<x, y>>) = x
         /\ <<x>> # <<>> /\ <<x, y>> # <<>>
<1>1. Append(<<>>, x) = <<x>>
  OBVIOUS
<1>2. Append(<<x>>, y) = <<x, y>>
  <2>1. /\ <<x>> \in Seq({x, y}) /\ Len(<<x>>) = 1 /\ <<x>>[1] = x
        /\ <<x, y>> \in Seq({x, y}) /\ Len(<<x, y>>) = 2
        /\ <<x, y>>[1] = x /\ <<x, y>>[2] = y
    OBVIOUS
  <2>2. /\ Append(<<x>>, y) \in Seq({x, y}) /\ Len(Append(<<x>>, y)) = 2
        /\ Append(<<x>>, y)[1] = x /\ Append(<<x>>, y)[2] = y
    BY <2>1, AppendProperties
  <2>3. \A i \in 1 .. 2 : Append(<<x>>, y)[i] = <<x, y>>[i]
    BY <2>1, <2>2
  <2>4. QED BY <2>1, <2>2, <2>3, SeqEqual
<1>3. Tail(<<x>>) = <<>>
  OBVIOUS
<1>4. Tail(<<x, y>>) = <<y>>
  OBVIOUS
<1>5. Head(<<x>>) = x /\ Head(<<x, y>>) = x
  OBVIOUS
<1>6. <<x>> # <<>> /\ <<x, y>> # <<>>
  OBVIOUS
<1>7. QED BY <1>1, <1>2, <1>3, <1>4, <1>5, <1>6

(***************************************************************************)
(* What the handlers have told keepalive: one step per action that touches *)
(* the requests.                                                           *)
(***************************************************************************)
LEMMA ToldKept ==
  TypeOK /\ (\A r \in Requests : Told(r)) /\ [Next]_vars => \A r \in Requests : Told(r)'
<1> SUFFICES ASSUME TypeOK, \A r \in Requests : Told(r), [Next]_vars,
                    NEW q \in Requests
             PROVE  Told(q)'
  OBVIOUS
<1> USE DEF requests
<1>1. ASSUME UNCHANGED requests PROVE Told(q)'
  BY <1>1 DEF Told
<1>2. ASSUME NEW m \in Models, NEW r \in Requests,
             EnsureReady(r, m) \/ EnsureSubscribe(r, m)
      PROVE  Told(q)'
  <2>1. /\ pc[r] = "idle"
        /\ \E s \in {"ready", "waiting"} : pc' = [pc EXCEPT ![r] = s]
        /\ on' = [on EXCEPT ![r] = m]
        /\ UNCHANGED <<begun, cast>>
    BY <1>2 DEF EnsureReady, EnsureSubscribe
  <2>2. QED BY <2>1 DEF Told, TypeOK
<1>3. ASSUME NEW R, NEW answer \in {"ready", "ended"}, Done(R, answer),
             UNCHANGED <<on, begun, cast>>
      PROVE  Told(q)'
  BY <1>3 DEF Told, Done, TypeOK
<1>4. ASSUME NEW m \in Models, NEW r \in Requests,
             SubscribeLoaded(m, r) \/ SubscribeFailed(m, r)
      PROVE  Told(q)'
  BY <1>3, <1>4 DEF SubscribeLoaded, SubscribeFailed
<1>5. ASSUME NEW m \in Models, Finalize(m)
      PROVE  Told(q)'
  BY <1>3, <1>5 DEF Finalize
<1>6. ASSUME NEW r \in Requests, LoadTimeout(r) \/ Recycle(r)
      PROVE  Told(q)'
  <2>1. CASE LoadTimeout(r)
    BY <2>1 DEF LoadTimeout, Told, TypeOK
  <2>2. CASE Recycle(r)
    BY <2>2 DEF Recycle, Told, TypeOK
  <2>3. QED BY <1>6, <2>1, <2>2
<1>7. ASSUME NEW r \in Requests, HandlerBegins(r)
      PROVE  Told(q)'
  <2>1. CASE q = r
    <3>1. cast'[r] = <<"begin">> /\ begun'[r] /\ pc'[r] = "ready" /\ on'[r] = on[r]
      <4>1. cast[r] = <<>> /\ pc[r] = "ready" /\ cast' = [cast EXCEPT ![r] = Append(@, "begin")]
        BY <1>7 DEF HandlerBegins, Told
      <4>2. cast'[r] = <<"begin">>
        BY <4>1, Mailbox DEF TypeOK
      <4>3. QED BY <1>7, <4>2 DEF HandlerBegins, TypeOK
    <3>2. QED BY <1>7, <2>1, <3>1 DEF HandlerBegins, Told
  <2>2. CASE q # r
    BY <1>7, <2>2 DEF HandlerBegins, Told, TypeOK
  <2>3. QED BY <2>1, <2>2
<1>8. ASSUME NEW r \in Requests, HandlerEnds(r)
      PROVE  Told(q)'
  <2>1. CASE q = r /\ begun[r]
    <3>1. PICK ka \in KeepAlives : cast' = [cast EXCEPT ![r] = Append(@, ka)]
      BY <1>8, <2>1 DEF HandlerEnds
    <3>2. cast[r] = <<>> \/ cast[r] = <<"begin">>
      BY <1>8, <2>1 DEF HandlerEnds, Told
    <3>3. cast'[r] = <<ka>> \/ cast'[r] = <<"begin", ka>>
      BY <3>1, <3>2, Mailbox DEF TypeOK
    <3>4. pc'[r] = "ended" /\ begun'[r] /\ on'[r] = on[r] /\ on[r] \in Models
      BY <1>8, <2>1 DEF HandlerEnds, Told, TypeOK
    <3>5. QED BY <2>1, <3>3, <3>4 DEF Told
  <2>2. CASE q # r \/ ~begun[r]
    <3>1. cast'[q] = cast[q] /\ begun'[q] = begun[q] /\ on'[q] = on[q]
      BY <1>8, <2>2 DEF HandlerEnds, TypeOK
    <3>2. pc'[q] = pc[q] \/ (q = r /\ pc[q] = "ready" /\ pc'[q] = "ended")
      BY <1>8 DEF HandlerEnds, TypeOK
    <3>3. QED BY <2>2, <3>1, <3>2 DEF Told
  <2>3. QED BY <2>1, <2>2
<1>9. ASSUME NEW r \in Requests, RequestBegin(r) \/ RequestEnd(r)
      PROVE  Told(q)'
  <2>1. cast[r] # <<>> /\ cast' = [cast EXCEPT ![r] = Tail(@)] /\ UNCHANGED <<pc, on, begun>>
    BY <1>9 DEF RequestBegin, RequestEnd, Pop
  <2>2. CASE q = r
    <3>1. cast'[q] = Tail(cast[q]) /\ begun[q] /\ pc[q] \in {"ready", "ended"}
      BY <2>1, <2>2 DEF Told, TypeOK
    <3>2. CASE pc[q] = "ready"
      <4>1. cast[q] = <<"begin">>
        BY <2>1, <2>2, <3>1, <3>2 DEF Told
      <4>2. cast'[q] = <<>>
        BY <3>1, <4>1
      <4>3. QED BY <2>1, <3>1, <3>2, <4>2 DEF Told
    <3>3. CASE pc[q] = "ended"
      <4>1. PICK ka \in KeepAlives : cast[q] \in {<<ka>>, <<"begin", ka>>}
        BY <2>1, <2>2, <3>1, <3>3 DEF Told
      <4>2. cast'[q] = <<>> \/ cast'[q] = <<ka>>
        <5>1. Tail(<<ka>>) = <<>> /\ Tail(<<"begin", ka>>) = <<ka>>
          BY Mailbox
        <5>2. QED BY <3>1, <4>1, <5>1
      <4>3. QED BY <2>1, <3>1, <3>3, <4>2 DEF Told
    <3>4. QED BY <3>1, <3>2, <3>3
  <2>3. CASE q # r
    BY <2>1, <2>3 DEF Told, TypeOK
  <2>4. QED BY <2>2, <2>3
<1>10. CASE UNCHANGED vars
  BY <1>1, <1>10 DEF vars
<1>11. QED
  <2>1. ASSUME NEW m \in Models, Loading(m) PROVE Told(q)'
    BY <2>1, <1>1, <1>2, <1>4, <1>5
       DEF Loading, SubscribeLoading, ConfigDown, ModelDown, MakeRoom, UnloadVictim,
           DropVictim, LoadModel, LoadFails
  <2>2. ASSUME NEW m \in Models, Unloading(m) PROVE Told(q)'
    BY <2>2, <1>1
       DEF Unloading, TimerFires, UnloadTimer, UnloadIdle, UnloadLate, DropVictim, ModelExits
  <2>3. ASSUME NEW r \in Requests, Handling(r) PROVE Told(q)'
    BY <2>3, <1>6, <1>7, <1>8, <1>9 DEF Handling
  <2>4. QED BY <2>1, <2>2, <2>3, <1>10 DEF Next

-----------------------------------------------------------------------------
(***************************************************************************)
(* What keepalive counts.                                                  *)
(***************************************************************************)
Handled(r) == begun[r] /\ (cast[r] = <<>> => pc[r] # "ended")
                       /\ (cast[r] # <<>> => Head(cast[r]) # "begin")

LEMMA CountedHandled ==
  ASSUME NEW m
  PROVE  /\ Counted(m) = {r \in Requests : on[r] = m /\ Handled(r)}
         /\ Counted(m)' = {r \in Requests : (on[r] = m /\ Handled(r))'}
BY DEF Counted, Handled

LEMMA CountedFinite ==
  ASSUME NEW m
  PROVE  /\ IsFiniteSet(Counted(m)) /\ Counted(m) \subseteq Requests
         /\ IsFiniteSet(Counted(m)')
BY LifecycleAssumption, FS_Subset DEF Counted

LEMMA NoneCounted == Cardinality({}) = 0
BY FS_EmptySet

(***************************************************************************)
(* The requests that keepalive counts change only when it handles a        *)
(* request_begin or a request_end.                                         *)
(***************************************************************************)
LEMMA SameCounted ==
  ASSUME TypeOK, \A r \in Requests : Told(r), [Next]_vars,
         \A r \in Requests : ~RequestBegin(r) /\ ~RequestEnd(r)
  PROVE  \A m \in Models : Counted(m)' = Counted(m)
<1> USE DEF requests
<1>1. ASSUME UNCHANGED requests PROVE \A m \in Models : Counted(m)' = Counted(m)
  BY <1>1 DEF Counted
<1>2. ASSUME \A r \in Requests : \/ ~begun[r] /\ ~begun'[r]
                                 \/ on'[r] = on[r] /\ Handled(r)' = Handled(r)
      PROVE  \A m \in Models : Counted(m)' = Counted(m)
  <2>1. \A r \in Requests, m \in Models :
          (on[r] = m /\ Handled(r))' = (on[r] = m /\ Handled(r))
    BY <1>2 DEF Handled
  <2>2. ASSUME NEW m \in Models PROVE Counted(m)' = Counted(m)
    <3>1. \A r \in Requests : (on[r] = m /\ Handled(r))' <=> (on[r] = m /\ Handled(r))
      BY <2>1
    <3>2. {r \in Requests : (on[r] = m /\ Handled(r))'}
            = {r \in Requests : on[r] = m /\ Handled(r)}
      BY <3>1
    <3>3. QED BY <3>2, CountedHandled
  <2>3. QED BY <2>2
<1>3. ASSUME NEW m \in Models, NEW r \in Requests,
             EnsureReady(r, m) \/ EnsureSubscribe(r, m)
      PROVE  \A n \in Models : Counted(n)' = Counted(n)
  <2>1. /\ pc[r] = "idle" /\ ~begun[r]
        /\ \E s \in {"ready", "waiting"} : pc' = [pc EXCEPT ![r] = s]
        /\ on' = [on EXCEPT ![r] = m]
        /\ UNCHANGED <<begun, cast>>
    BY <1>3 DEF EnsureReady, EnsureSubscribe, Told
  <2>2. QED BY <2>1, <1>2 DEF Handled, TypeOK
<1>4. ASSUME NEW R, NEW answer, Done(R, answer), UNCHANGED <<on, begun, cast>>
      PROVE  \A n \in Models : Counted(n)' = Counted(n)
  <2>1. \A r \in Requests : begun[r] => pc'[r] = pc[r]
    BY <1>4 DEF Told, Done
  <2>2. QED BY <1>2, <1>4, <2>1 DEF Handled
<1>5. ASSUME NEW r \in Requests,
             LoadTimeout(r) \/ HandlerBegins(r) \/ HandlerEnds(r) \/ Recycle(r)
      PROVE  \A n \in Models : Counted(n)' = Counted(n)
  <2>1. CASE LoadTimeout(r)
    <3>1. ~begun[r] /\ pc' = [pc EXCEPT ![r] = "ended"] /\ UNCHANGED <<on, begun, cast>>
      BY <2>1 DEF LoadTimeout, Told
    <3>2. QED BY <1>2, <3>1 DEF Handled, TypeOK
  <2>2. CASE HandlerBegins(r)
    <3>1. ~begun[r] /\ cast[r] = <<>> /\ UNCHANGED <<pc, on>>
      BY <2>2 DEF HandlerBegins, Told
    <3>2. cast'[r] = <<"begin">>
      BY <2>2, <3>1, Mailbox DEF HandlerBegins, TypeOK
    <3>3. Handled(r) = FALSE /\ Handled(r)' = FALSE
      BY <3>1, <3>2, Mailbox DEF Handled
    <3>4. ASSUME NEW q \in Requests \ {r} PROVE Handled(q)' = Handled(q)
      <4>1. cast'[q] = cast[q] /\ begun'[q] = begun[q] /\ pc'[q] = pc[q]
        BY <2>2 DEF HandlerBegins, TypeOK
      <4>2. QED BY <4>1 DEF Handled
    <3>5. QED BY <1>2, <3>1, <3>3, <3>4
  <2>3. CASE HandlerEnds(r)
    <3>1. Handled(r)' = Handled(r)
      <4>1. CASE begun[r]
        <5>1. PICK ka \in KeepAlives : cast' = [cast EXCEPT ![r] = Append(@, ka)]
          BY <2>3, <4>1 DEF HandlerEnds
        <5>2. pc[r] = "ready" /\ begun'[r] = begun[r]
          BY <2>3 DEF HandlerEnds
        <5>3. ka # "begin"
          BY LifecycleAssumption
        <5>4. CASE cast[r] = <<>>
          <6>1. cast'[r] = <<ka>>
            BY <5>1, <5>4, Mailbox DEF TypeOK
          <6>2. Head(cast'[r]) = ka /\ cast'[r] # <<>>
            BY <6>1, Mailbox
          <6>3. QED BY <4>1, <5>2, <5>3, <5>4, <6>2 DEF Handled
        <5>5. CASE cast[r] = <<"begin">>
          <6>1. cast'[r] = <<"begin", ka>>
            BY <5>1, <5>5, Mailbox DEF TypeOK
          <6>2. Head(cast'[r]) = "begin" /\ cast'[r] # <<>>
            BY <6>1, Mailbox
          <6>3. Head(cast[r]) = "begin" /\ cast[r] # <<>>
            BY <5>5, Mailbox
          <6>4. QED BY <6>2, <6>3 DEF Handled
        <5>6. QED BY <4>1, <5>2, <5>4, <5>5 DEF Told
      <4>2. CASE ~begun[r]
        BY <2>3, <4>2 DEF HandlerEnds, Handled
      <4>3. QED BY <4>1, <4>2
    <3>2. \A q \in Requests \ {r} : Handled(q)' = Handled(q)
      BY <2>3 DEF HandlerEnds, Handled, TypeOK
    <3>3. UNCHANGED on
      BY <2>3 DEF HandlerEnds
    <3>4. QED BY <1>2, <3>1, <3>2, <3>3
  <2>4. CASE Recycle(r)
    <3>1. ~Handled(r) /\ ~Handled(r)'
      BY <2>4 DEF Recycle, Handled, TypeOK
    <3>2. \A q \in Requests \ {r} : Handled(q)' = Handled(q) /\ on'[q] = on[q]
      BY <2>4 DEF Recycle, Handled, TypeOK
    <3>3. ASSUME NEW n \in Models PROVE Counted(n)' = Counted(n)
      <4>1. {q \in Requests : (on[q] = n /\ Handled(q))'}
              = {q \in Requests : on[q] = n /\ Handled(q)}
        BY <3>1, <3>2
      <4>2. QED BY <4>1, CountedHandled
    <3>4. QED BY <3>3
  <2>5. QED BY <1>5, <2>1, <2>2, <2>3, <2>4
<1>6. ASSUME NEW m \in Models, Loading(m)
      PROVE  \A n \in Models : Counted(n)' = Counted(n)
  <2>1. CASE \E r \in Requests : EnsureReady(r, m) \/ EnsureSubscribe(r, m)
    BY <1>3, <2>1
  <2>2. CASE \/ \E r \in Requests : SubscribeLoaded(m, r) \/ SubscribeFailed(m, r)
             \/ Finalize(m)
    BY <1>4, <2>2 DEF SubscribeLoaded, SubscribeFailed, Finalize
  <2>3. QED
    BY <1>1, <1>6, <2>1, <2>2
       DEF Loading, SubscribeLoading, ConfigDown, ModelDown, MakeRoom, UnloadVictim,
           DropVictim, LoadModel, LoadFails
<1>7. ASSUME NEW m \in Models, Unloading(m)
      PROVE  \A n \in Models : Counted(n)' = Counted(n)
  BY <1>1, <1>7
     DEF Unloading, TimerFires, UnloadTimer, UnloadIdle, UnloadLate, DropVictim, ModelExits
<1>8. QED
  BY <1>1, <1>5, <1>6, <1>7 DEF Next, Handling, vars

(***************************************************************************)
(* request_begin adds its request to those counted, request_end takes it   *)
(* out, each for the model of the request only.                            *)
(***************************************************************************)
LEMMA BeginCounted ==
  ASSUME TypeOK, NEW r \in Requests, Told(r), RequestBegin(r), NEW m \in Models
  PROVE  /\ r \notin Counted(on[r])
         /\ Counted(m)' = IF m = on[r] THEN Counted(m) \cup {r} ELSE Counted(m)
<1>1. /\ cast[r] # <<>> /\ Head(cast[r]) = "begin" /\ UNCHANGED <<pc, on, begun>>
      /\ cast' = [cast EXCEPT ![r] = Tail(@)]
  BY DEF RequestBegin, Pop
<1>2. begun[r] /\ ~Handled(r)
  BY <1>1 DEF Handled, Told
<1>3. Handled(r)'
  <2>1. CASE pc[r] = "ready"
    BY <1>1, <1>2, <2>1, Mailbox DEF Handled, Told, TypeOK
  <2>2. CASE pc[r] = "ended"
    <3>1. PICK ka \in KeepAlives : cast[r] \in {<<ka>>, <<"begin", ka>>}
      BY <1>1, <1>2, <2>2 DEF Told
    <3>2. Head(<<ka>>) = ka /\ ka # "begin"
      BY Mailbox, LifecycleAssumption
    <3>3. cast'[r] = Tail(<<"begin", ka>>)
      BY <1>1, <3>1, <3>2 DEF TypeOK
    <3>4. cast'[r] = <<ka>> /\ <<ka>> # <<>>
      BY <3>3, Mailbox
    <3>5. QED BY <1>1, <1>2, <3>2, <3>4 DEF Handled
  <2>3. QED BY <1>1, <1>2, <2>1, <2>2 DEF Told, TypeOK
<1>4. ASSUME NEW q \in Requests \ {r} PROVE Handled(q)' = Handled(q)
  <2>1. cast'[q] = cast[q]
    BY <1>1 DEF TypeOK
  <2>2. QED BY <1>1, <2>1 DEF Handled
<1>5. r \notin Counted(on[r])
  BY <1>2, CountedHandled
<1>6. \A q \in Requests : (on[q] = m /\ Handled(q))' <=>
          (on[q] = m /\ Handled(q)) \/ (q = r /\ m = on[r])
  BY <1>1, <1>2, <1>3, <1>4
<1>7. QED BY <1>5, <1>6, CountedHandled

LEMMA EndCounted ==
  ASSUME TypeOK, NEW r \in Requests, Told(r), RequestEnd(r), NEW m \in Models
  PROVE  /\ on[r] \in Models /\ r \in Counted(on[r])
         /\ Counted(m)' = IF m = on[r] THEN Counted(m) \ {r} ELSE Counted(m)
<1>1. /\ cast[r] # <<>> /\ Head(cast[r]) # "begin" /\ UNCHANGED <<pc, on, begun>>
      /\ cast' = [cast EXCEPT ![r] = Tail(@)]
  BY DEF RequestEnd, Pop
<1>2. begun[r] /\ Handled(r)
  BY <1>1 DEF Handled, Told
<1>3. pc[r] = "ended"
  <2>1. pc[r] # "ready"
    BY <1>1, <1>2, Mailbox DEF Told
  <2>2. QED BY <1>2, <2>1 DEF Told, TypeOK
<1>4. cast'[r] = <<>>
  <2>1. PICK ka \in KeepAlives : cast[r] \in {<<ka>>, <<"begin", ka>>}
    BY <1>1, <1>2, <1>3 DEF Told
  <2>2. Head(<<"begin", ka>>) = "begin" /\ Tail(<<ka>>) = <<>>
    BY Mailbox
  <2>3. QED BY <1>1, <2>1, <2>2 DEF TypeOK
<1>5. Handled(r)' = FALSE
  BY <1>1, <1>3, <1>4 DEF Handled
<1>6. ASSUME NEW q \in Requests \ {r} PROVE Handled(q)' = Handled(q)
  <2>1. cast'[q] = cast[q]
    BY <1>1 DEF TypeOK
  <2>2. QED BY <1>1, <2>1 DEF Handled
<1>7. on[r] \in Models /\ r \in Counted(on[r])
  BY <1>2, <1>3, CountedHandled DEF Told
<1>8. \A q \in Requests : (on[q] = m /\ Handled(q))' <=>
          (on[q] = m /\ Handled(q)) /\ ~(q = r /\ m = on[r])
  BY <1>1, <1>2, <1>5, <1>6
<1>9. QED BY <1>7, <1>8, CountedHandled

(***************************************************************************)
(* The last step of an entry: what Arm leaves of the count and of the run. *)
(***************************************************************************)
LEMMA ArmLeaves ==
  ASSUME TypeOK, NEW m \in Models, NEW n \in Nat, NEW ka, Arm(m, n, ka)
  PROVE  /\ entry'[m].active = n /\ entry'[m].tracked = entry[m].tracked
         /\ \A k \in Models \ {m} : entry'[k] = entry[k] /\ running'[k] = running[k]
         /\ n > 0 => running'[m] = running[m]
<1>1. CASE n > 0
  BY <1>1 DEF Arm, TypeOK
<1>2. CASE ~(n > 0)
  <2>1. n = 0
    BY <1>2
  <2>2. running' = [running EXCEPT ![m] = @ /\ ka # "zero"]
    BY <1>2 DEF Arm
  <2> DEFINE t == IF ka = "ttl" THEN KeptRef ELSE "none"
  <2>3. entry' = [entry EXCEPT ![m].active = 0, ![m].timer = t]
    BY <1>2 DEF Arm
  <2>4. entry'[m] = [[entry[m] EXCEPT !.active = 0] EXCEPT !.timer = t]
    BY <2>3 DEF TypeOK
  <2>5. entry'[m].active = 0 /\ entry'[m].tracked = entry[m].tracked
    <3> HIDE DEF t
    <3>1. entry[m] \in [tracked : BOOLEAN, active : Nat, timer : {"none", KeptRef}]
      BY DEF TypeOK
    <3>2. QED BY <2>4, <3>1
  <2>6. \A k \in Models \ {m} : entry'[k] = entry[k] /\ running'[k] = running[k]
    BY <2>2, <2>3 DEF TypeOK
  <2>7. QED BY <1>2, <2>1, <2>5, <2>6
<1>3. QED BY <1>1, <1>2

(***************************************************************************)
(* How keepalive's own steps change an entry.                              *)
(***************************************************************************)
LEMMA DropLeaves ==
  ASSUME TypeOK, NEW v, DropAndUnload(v), NEW m \in Models
  PROVE  /\ m # v => entry'[m] = entry[m] /\ running'[m] = running[m]
         /\ m = v => entry'[m].active = 0 /\ ~entry'[m].tracked
<1>1. NoEntry.active = 0 /\ ~NoEntry.tracked
  BY DEF NoEntry
<1>2. CASE m = v
  BY <1>1, <1>2 DEF DropAndUnload, TypeOK
<1>3. CASE m # v
  BY <1>3 DEF DropAndUnload, TypeOK
<1>4. QED BY <1>2, <1>3

LEMMA TrackedKept ==
  TypeOK /\ (\A r \in Requests : Told(r)) /\ Untracked /\ [Next]_vars => Untracked'
<1> SUFFICES ASSUME TypeOK, \A r \in Requests : Told(r), Untracked, [Next]_vars,
                    NEW m \in Models, ~entry'[m].tracked
             PROVE  entry'[m].active = 0
  BY DEF Untracked
<1>1. CASE entry'[m] = entry[m]
  BY <1>1 DEF Untracked
<1>2. CASE \E k \in Models : UnloadTimer(k) \/ UnloadIdle(k)
  <2>1. (\E k \in Models : DropAndUnload(k)) \/ UNCHANGED entry
    BY <1>2 DEF UnloadTimer, UnloadIdle
  <2>2. QED BY <1>1, <2>1, DropLeaves
<1>3. CASE \E k \in Models : UnloadVictim(k) \/ UnloadLate(k)
  <2>1. \E v : DropAndUnload(v)
    BY <1>3 DEF UnloadVictim, UnloadLate, DropVictim
  <2>2. QED BY <1>1, <2>1, DropLeaves
<1>4. ASSUME NEW r \in Requests, RequestBegin(r)
      PROVE  entry'[m] = entry[m]
  <2>1. entry' = [entry EXCEPT ![on[r]] =
                   [tracked |-> TRUE, active |-> entry[on[r]].active + 1, timer |-> "none"]]
    BY <1>4 DEF RequestBegin
  <2>2. on[r] # m
    BY <2>1 DEF TypeOK
  <2>3. QED BY <2>1, <2>2 DEF TypeOK
<1>5. ASSUME NEW r \in Requests, RequestEnd(r)
      PROVE  entry'[m] = entry[m]
  <2> DEFINE n == IF entry[on[r]].active > 0 THEN entry[on[r]].active - 1 ELSE 0
  <2>1. on[r] \in Models
    BY <1>5, EndCounted
  <2>2. n \in Nat
    BY <2>1 DEF TypeOK
  <2>3. \/ entry[on[r]].tracked /\ Arm(on[r], n, Head(cast[r]))
        \/ UNCHANGED entry
    BY <1>5 DEF RequestEnd
  <2> HIDE DEF n
  <2>4. QED BY <2>1, <2>2, <2>3, ArmLeaves
<1>6. QED
  BY ZenonT(40), <1>1, <1>2, <1>3, <1>4, <1>5
     DEF Next, Loading, Unloading, Handling, vars, keepalive, loads, requests, EnsureReady,
         EnsureSubscribe, SubscribeLoading, SubscribeLoaded, SubscribeFailed, ConfigDown,
         Finalize, ModelDown, MakeRoom, LoadModel, LoadFails, TimerFires, ModelExits,
         LoadTimeout, HandlerBegins, HandlerEnds, Recycle

-----------------------------------------------------------------------------
(***************************************************************************)
(* What a step does to the count of a model, to the requests that are to   *)
(* be counted and to what is noted of them.  Unloads apart from the forced *)
(* one find the count at zero.                                             *)
(***************************************************************************)
CountMoves(m) ==
    LET a == entry[m].active
        n == Cardinality(Counted(m))
    IN
    \/ entry'[m].active = a /\ Cardinality(Counted(m)') = n /\ dropped'[m] = dropped[m]
    \/ /\ entry'[m].active = 0 /\ Cardinality(Counted(m)') = n
       /\ ~dropped'[m] => n = 0
    \/ entry'[m].active = a + 1 /\ Cardinality(Counted(m)') = n + 1 /\ dropped'[m] = dropped[m]
    \/ /\ n > 0 /\ Cardinality(Counted(m)') = n - 1
       /\ entry'[m].active = IF a > 0 THEN a - 1 ELSE 0
       /\ ~dropped'[m] => ~dropped[m] \/ n = 1

LEMMA CountsMove ==
  ASSUME LifecycleInv, [Next]_vars, NEW m \in Models
  PROVE  CountMoves(m)
<1>1. TypeOK /\ (\A r \in Requests : Told(r)) /\ Untracked
  BY DEF LifecycleInv
<1>2. entry[m].active \in Nat /\ Cardinality(Counted(m)) \in Nat
  BY <1>1, CountedFinite, FS_CardinalityType DEF TypeOK
<1>3. ASSUME entry'[m].active = entry[m].active, dropped'[m] = dropped[m],
             Counted(m)' = Counted(m)
      PROVE  CountMoves(m)
  BY <1>3 DEF CountMoves
<1>4. ASSUME UNCHANGED <<entry, dropped>>,
             \A r \in Requests : ~RequestBegin(r) /\ ~RequestEnd(r)
      PROVE  CountMoves(m)
  BY <1>1, <1>3, <1>4, SameCounted
<1>5. CASE \E k \in Models : UnloadTimer(k) \/ UnloadIdle(k)
  <2>1. PICK k \in Models : UnloadTimer(k) \/ UnloadIdle(k)
    BY <1>5
  <2>2. UNCHANGED dropped /\ UNCHANGED requests
    BY <2>1 DEF UnloadTimer, UnloadIdle
  <2>3. Counted(m)' = Counted(m)
    BY <2>2 DEF Counted, requests
  <2>4. UNCHANGED entry \/ (entry[k].active = 0 /\ DropAndUnload(k))
    BY <2>1 DEF UnloadTimer, UnloadIdle
  <2>5. entry'[m].active = entry[m].active
    BY <1>1, <2>4, DropLeaves
  <2>6. QED BY <1>3, <2>2, <2>3, <2>5
<1>6. CASE \E k \in Models : UnloadVictim(k) \/ UnloadLate(k)
  <2>1. PICK k \in Models : DropVictim(k)
    BY <1>6 DEF UnloadVictim, UnloadLate
  <2> DEFINE v == victim[k]
  <2>2. /\ DropAndUnload(v) /\ UNCHANGED requests
        /\ dropped' = [dropped EXCEPT ![v] = Counted(v) # {}]
    BY <2>1 DEF DropVictim
  <2>3. Counted(m)' = Counted(m)
    BY <2>2 DEF Counted, requests
  <2>4. CASE m = v
    <3>1. dropped'[m] = (Counted(m) # {}) /\ entry'[m].active = 0
      BY <1>1, <2>2, <2>4, DropLeaves DEF TypeOK
    <3>2. ~dropped'[m] => Cardinality(Counted(m)) = 0
      BY <3>1, NoneCounted
    <3>3. QED BY <2>3, <3>1, <3>2 DEF CountMoves
  <2>5. CASE m # v
    <3>1. dropped'[m] = dropped[m] /\ entry'[m] = entry[m]
      BY <1>1, <2>2, <2>5, DropLeaves DEF TypeOK
    <3>2. QED BY <1>3, <2>3, <3>1
  <2>6. QED BY <2>4, <2>5
<1>7. ASSUME NEW r \in Requests, RequestBegin(r)
      PROVE  CountMoves(m)
  <2>1. /\ UNCHANGED dropped
        /\ entry' = [entry EXCEPT ![on[r]] =
             [tracked |-> TRUE, active |-> entry[on[r]].active + 1, timer |-> "none"]]
    BY <1>7 DEF RequestBegin
  <2>2. CASE m = on[r]
    <3>1. r \notin Counted(m) /\ Counted(m)' = Counted(m) \cup {r}
      BY <1>1, <1>7, <2>2, BeginCounted
    <3>2. Cardinality(Counted(m)') = Cardinality(Counted(m)) + 1
      BY <3>1, CountedFinite, FS_AddElement
    <3>3. entry'[m].active = entry[m].active + 1
      BY <1>1, <2>1, <2>2 DEF TypeOK
    <3>4. QED BY <2>1, <3>2, <3>3 DEF CountMoves
  <2>3. CASE m # on[r]
    <3>1. Counted(m)' = Counted(m)
      BY <1>1, <1>7, <2>3, BeginCounted
    <3>2. entry'[m] = entry[m]
      BY <1>1, <2>1, <2>3 DEF TypeOK
    <3>3. QED BY <1>3, <2>1, <3>1, <3>2
  <2>4. QED BY <2>2, <2>3
<1>8. ASSUME NEW r \in Requests, RequestEnd(r)
      PROVE  CountMoves(m)
  <2> DEFINE n == IF entry[on[r]].active > 0 THEN entry[on[r]].active - 1 ELSE 0
  <2>1. /\ on[r] \in Models /\ r \in Counted(on[r])
        /\ dropped' = [dropped EXCEPT ![on[r]] = @ /\ Counted(on[r]) # {r}]
    BY <1>1, <1>8, EndCounted DEF RequestEnd
  <2>2. IF entry[on[r]].tracked THEN Arm(on[r], n, Head(cast[r]))
                                ELSE UNCHANGED <<running, entry, clock>>
    BY <1>8 DEF RequestEnd
  <2>3. n \in Nat
    BY <1>1, <2>1 DEF TypeOK
  <2>4. CASE m = on[r]
    <3>1. Counted(m)' = Counted(m) \ {r}
      BY <1>1, <1>8, <2>4, EndCounted
    <3>2. Cardinality(Counted(m)') = Cardinality(Counted(m)) - 1
      BY <2>1, <2>4, <3>1, CountedFinite, FS_RemoveElement
    <3>3. Cardinality(Counted(m)) > 0
      <4>1. Cardinality(Counted(m)) # 0
        BY <2>1, <2>4, CountedFinite, FS_EmptySet
      <4>2. QED BY <1>2, <4>1
    <3>4. entry'[m].active = n
      <4>1. CASE entry[m].tracked
        <5> HIDE DEF n
        <5>1. QED BY <1>1, <2>1, <2>2, <2>3, <2>4, <4>1, ArmLeaves
      <4>2. CASE ~entry[m].tracked
        <5>1. entry[m].active = 0 /\ entry' = entry
          BY <1>1, <2>2, <2>4, <4>2 DEF Untracked
        <5>2. QED BY <2>4, <5>1
      <4>3. QED BY <4>1, <4>2
    <3>5. ~dropped'[m] => ~dropped[m] \/ Cardinality(Counted(m)) = 1
      <4>1. ~dropped'[m] => ~dropped[m] \/ Counted(m) = {r}
        BY <1>1, <2>1, <2>4 DEF TypeOK
      <4>2. QED BY <4>1, FS_Singleton
    <3>6. QED BY <2>4, <3>2, <3>3, <3>4, <3>5 DEF CountMoves
  <2>5. CASE m # on[r]
    <3>1. Counted(m)' = Counted(m)
      BY <1>1, <1>8, <2>5, EndCounted
    <3>2. entry'[m] = entry[m] /\ dropped'[m] = dropped[m]
      <4> HIDE DEF n
      <4>1. entry'[m] = entry[m]
        BY <1>1, <2>1, <2>2, <2>3, <2>5, ArmLeaves
      <4>2. QED BY <1>1, <2>1, <2>5, <4>1 DEF TypeOK
    <3>3. QED BY <1>3, <3>1, <3>2
  <2>6. QED BY <2>4, <2>5
<1>9. CASE /\ ~(\E k \in Models : UnloadTimer(k) \/ UnloadIdle(k) \/ UnloadVictim(k) \/ UnloadLate(k))
           /\ \A r \in Requests : ~RequestBegin(r) /\ ~RequestEnd(r)
  <2>1. UNCHANGED <<entry, dropped>>
    BY ZenonT(40), <1>9
       DEF Next, Loading, Unloading, Handling, vars, keepalive, loads, requests, EnsureReady,
           EnsureSubscribe, SubscribeLoading, SubscribeLoaded, SubscribeFailed, ConfigDown,
           Finalize, ModelDown, MakeRoom, LoadModel, LoadFails, TimerFires, ModelExits,
           LoadTimeout, HandlerBegins, HandlerEnds, Recycle
  <2>2. QED BY <1>4, <1>9, <2>1
<1>10. QED BY <1>5, <1>6, <1>7, <1>8, <1>9

(***************************************************************************)
(* The counts stay exact.  A count that is behind, of an entry dropped     *)
(* under requests, is never ahead: it is zero when the last of them ends.  *)
(***************************************************************************)
LEMMA CountsKept == LifecycleInv /\ [Next]_vars => CountsBelow' /\ CountsExact'
<1> SUFFICES ASSUME LifecycleInv, [Next]_vars, NEW m \in Models
             PROVE  /\ entry'[m].active <= Cardinality(Counted(m)')
                    /\ ~dropped'[m] => entry'[m].active = Cardinality(Counted(m)')
  BY DEF CountsBelow, CountsExact
<1>1. entry[m].active \in Nat /\ Cardinality(Counted(m)) \in Nat
  BY CountedFinite, FS_CardinalityType DEF LifecycleInv, TypeOK
<1>2. /\ entry[m].active <= Cardinality(Counted(m))
      /\ ~dropped[m] => entry[m].active = Cardinality(Counted(m))
  BY DEF LifecycleInv, CountsBelow, CountsExact
<1>3. CountMoves(m)
  BY CountsMove
<1>4. QED BY <1>1, <1>2, <1>3 DEF CountMoves

LEMMA LifecycleStarts == Init => LifecycleInv
<1> SUFFICES ASSUME Init PROVE LifecycleInv
  OBVIOUS
<1>1. TypeOK /\ VictimNamed
  BY DEF Init, TypeOK, VictimNamed, NoEntry
<1>2. \A r \in Requests : Told(r)
  BY DEF Init, Told
<1>3. \A m \in Models : entry[m].active = 0
  BY DEF Init, NoEntry
<1>4. \A m \in Models : Counted(m) = {}
  BY DEF Init, Counted
<1>5. \A m \in Models : entry[m].active <= Cardinality(Counted(m))
                      /\ entry[m].active = Cardinality(Counted(m))
  BY <1>3, <1>4, NoneCounted
<1>6. QED BY <1>1, <1>2, <1>3, <1>5 DEF LifecycleInv, Untracked, CountsBelow, CountsExact

(***************************************************************************)
(* The inductive invariant: the counts, what the handlers still have to    *)
(* tell keepalive, and the victims that the workers have picked.           *)
(***************************************************************************)
THEOREM LifecycleInvariant == Spec => []LifecycleInv
<1>1. LifecycleInv /\ [Next]_vars => LifecycleInv'
  <2>1. SUFFICES ASSUME LifecycleInv, [Next]_vars PROVE LifecycleInv'
    OBVIOUS
  <2>2. TypeOK /\ VictimNamed /\ (\A r \in Requests : Told(r)) /\ Untracked
    BY <2>1 DEF LifecycleInv
  <2>3. TypeOK' /\ VictimNamed'
    BY <2>1, <2>2, TypeKept
  <2>4. \A r \in Requests : Told(r)'
    BY <2>1, <2>2, ToldKept
  <2>5. Untracked' /\ CountsBelow' /\ CountsExact'
    BY <2>1, <2>2, TrackedKept, CountsKept
  <2>6. QED BY <2>3, <2>4, <2>5 DEF LifecycleInv
<1>2. QED BY <1>1, LifecycleStarts, PTL DEF Spec

(***************************************************************************)
(* The variables of the loaders, the handlers and keepalive keep their     *)
(* types.                                                                  *)
(***************************************************************************)
THEOREM TypeCorrect == Spec => []TypeOK
<1>1. LifecycleInv => TypeOK
  BY DEF LifecycleInv
<1>2. QED BY <1>1, LifecycleInvariant, PTL

(***************************************************************************)
(* Keepalive's count of a model is that of the requests between their      *)
(* begin and their end, and after a forced unload again once those are     *)
(* over.                                                                   *)
(***************************************************************************)
THEOREM KeepaliveCounts == Spec => []CountsExact
<1>1. LifecycleInv => CountsExact
  BY DEF LifecycleInv
<1>2. QED BY <1>1, LifecycleInvariant, PTL

(***************************************************************************)
(* Neither the evictor nor the end of one request unloads a model under    *)
(* another request that keepalive counts.                                  *)
(***************************************************************************)
THEOREM IdleOnly == Spec => IdleUnloadSpares
<1>1. LifecycleInv /\ LifecycleInv' /\ [Next]_vars =>
        [\A m \in Models :
           /\ ~dropped[m] /\ running[m] /\ ~running'[m]
           /\ UnloadIdle(m) \/ \E r \in Requests : RequestEnd(r)
           => Counted(m)' = {}]_vars
  <2>1. SUFFICES ASSUME LifecycleInv, LifecycleInv', NEW m \in Models,
                        ~dropped[m], running[m], ~running'[m],
                        UnloadIdle(m) \/ \E r \in Requests : RequestEnd(r)
                 PROVE  Counted(m)' = {}
    OBVIOUS
  <2>2. TypeOK /\ \A r \in Requests : Told(r)
    BY <2>1 DEF LifecycleInv
  <2>3. ~dropped'[m]
    BY <2>1, <2>2 DEF UnloadIdle, RequestEnd, TypeOK
  <2>4. entry'[m].active = 0
    <3>1. CASE UnloadIdle(m)
      <4>1. DropAndUnload(m)
        BY <3>1 DEF UnloadIdle
      <4>2. QED BY <2>2, <4>1, DropLeaves
    <3>2. ASSUME NEW r \in Requests, RequestEnd(r)
          PROVE  entry'[m].active = 0
      <4> DEFINE n == IF entry[on[r]].active > 0 THEN entry[on[r]].active - 1 ELSE 0
      <4>1. on[r] \in Models
        BY <2>2, <3>2, EndCounted
      <4>2. n \in Nat
        BY <2>2, <4>1 DEF TypeOK
      <4>3. Arm(on[r], n, Head(cast[r])) \/ UNCHANGED running
        BY <3>2 DEF RequestEnd
      <4> HIDE DEF n
      <4>4. m = on[r] /\ n = 0 /\ Arm(on[r], n, Head(cast[r]))
        BY <2>1, <2>2, <4>1, <4>2, <4>3, ArmLeaves
      <4>5. QED BY <2>2, <4>1, <4>2, <4>4, ArmLeaves
    <3>3. QED BY <2>1, <3>1, <3>2
  <2>5. Cardinality(Counted(m)') = 0
    BY <2>1, <2>3, <2>4 DEF LifecycleInv, CountsExact
  <2>6. QED BY <2>5, CountedFinite, FS_EmptySet
<1>2. QED BY <1>1, LifecycleInvariant, PTL DEF Spec, IdleUnloadSpares

\* An entry's timer is never the reference that a timer's message carries: in
\* every instance the keep-alive timer of a model unloads nothing, and its
\* entry stays armed.
THEOREM TimersUnloadNothing ==
  Spec => [][\A m \in Models : UnloadTimer(m) => UNCHANGED <<running, entry, clock>>]_vars
<1>1. KeptRef # CarriedRef /\ CarriedRef # "none"
  BY DEF KeptRef, CarriedRef
<1>2. TypeOK => \A m \in Models : UnloadTimer(m) => UNCHANGED <<running, entry, clock>>
  BY <1>1 DEF TypeOK, UnloadTimer
<1>3. QED BY <1>2, TypeCorrect, PTL DEF Spec

-----------------------------------------------------------------------------
(***************************************************************************)
(* What a loader owes.  It has a worker, or its result, exactly while it   *)
(* is loading; only then does it keep subscribers.  A cast waits only in   *)
(* the mailbox of a loader that lives, and every cast and subscription is  *)
(* of a request that asked for this model and is there once.               *)
(***************************************************************************)
LoadersAttend ==
    \A m \in Models :
        /\ work[m] # "idle" <=> loader[m] = "loading"
        /\ subs[m] # {} => loader[m] = "loading"
        /\ sent[m] # {} => loader[m] \in {"loading", "loaded", "failed"}
        /\ sent[m] \cap subs[m] = {}
        /\ \A r \in sent[m] \cup subs[m] : on[r] = m /\ pc[r] # "idle"

LEMMA AttendKept ==
  ASSUME TypeOK, LoadersAttend, [Next]_vars
  PROVE  LoadersAttend'
<1> USE DEF loads, requests, keepalive
<1>1. CASE UNCHANGED <<loader, sent, subs, work, on, pc>>
  BY <1>1 DEF LoadersAttend
<1>2. ASSUME NEW m \in Models, NEW r \in Requests, EnsureReady(r, m)
      PROVE  LoadersAttend'
  BY <1>2 DEF EnsureReady, LoadersAttend, TypeOK
<1>3. ASSUME NEW m \in Models, NEW r \in Requests, EnsureSubscribe(r, m)
      PROVE  LoadersAttend'
  BY <1>3 DEF EnsureSubscribe, LoadersAttend, TypeOK
<1>4. ASSUME NEW m \in Models, ConfigDown(m) \/ ModelDown(m)
      PROVE  LoadersAttend'
  BY <1>4 DEF ConfigDown, ModelDown, Stop, LoadersAttend, TypeOK
<1>5. ASSUME NEW m \in Models, Finalize(m)
      PROVE  LoadersAttend'
  BY <1>5 DEF Finalize, Done, Stop, LoadersAttend, TypeOK
<1>6. ASSUME NEW m \in Models, NEW r \in Requests, SubscribeLoading(m, r)
      PROVE  LoadersAttend'
  BY <1>6 DEF SubscribeLoading, LoadersAttend, TypeOK
<1>7. ASSUME NEW m \in Models, NEW r \in Requests, SubscribeLoaded(m, r)
      PROVE  LoadersAttend'
  <2>1. /\ r \in sent[m] /\ loader[m] = "loaded"
        /\ UNCHANGED <<subs, work, on>>
        /\ \E answer \in {"ready", "ended"} : Done({r}, answer)
    BY <1>7 DEF SubscribeLoaded
  <2>2. \A q \in Requests : pc'[q] = "idle" => pc[q] = "idle"
    BY <2>1 DEF Done, TypeOK
  <2>3. CASE running[m]
    <3>1. sent' = [sent EXCEPT ![m] = @ \ {r}] /\ UNCHANGED loader
      BY <1>7, <2>3 DEF SubscribeLoaded
    <3>2. QED BY <2>1, <2>2, <3>1 DEF LoadersAttend, TypeOK
  <2>4. CASE ~running[m]
    <3>1. Stop(m)
      BY <1>7, <2>4 DEF SubscribeLoaded
    <3>2. QED BY <2>1, <2>2, <3>1 DEF Stop, LoadersAttend, TypeOK
  <2>5. QED BY <2>3, <2>4
<1>8. ASSUME NEW m \in Models, NEW r \in Requests, SubscribeFailed(m, r)
      PROVE  LoadersAttend'
  BY <1>8 DEF SubscribeFailed, Done, LoadersAttend, TypeOK
<1>9. ASSUME NEW m \in Models, MakeRoom(m) \/ UnloadVictim(m) \/ LoadModel(m) \/ LoadFails(m)
      PROVE  LoadersAttend'
  <2>1. /\ work[m] # "idle" /\ UNCHANGED <<loader, sent, subs, on, pc>>
        /\ \E w \in {"room", "evict", "load", "ok", "error"} : work' = [work EXCEPT ![m] = w]
    BY <1>9 DEF MakeRoom, UnloadVictim, DropVictim, LoadModel, LoadFails
  <2>2. QED BY <2>1 DEF LoadersAttend, TypeOK
<1>10. ASSUME NEW r \in Requests, LoadTimeout(r) \/ HandlerEnds(r)
       PROVE  LoadersAttend'
  <2>1. /\ pc' = [pc EXCEPT ![r] = "ended"]
        /\ UNCHANGED <<loader, sent, subs, work, on>>
    BY <1>10 DEF LoadTimeout, HandlerEnds
  <2>2. QED BY <2>1 DEF LoadersAttend, TypeOK
<1>11. ASSUME NEW r \in Requests, Recycle(r)
       PROVE  LoadersAttend'
  BY <1>11 DEF Recycle, LoadersAttend, TypeOK
<1>12. QED
  BY <1>1, <1>2, <1>3, <1>4, <1>5, <1>6, <1>7, <1>8, <1>9, <1>10, <1>11
     DEF Next, Loading, Unloading, Handling, vars, TimerFires, UnloadTimer, UnloadIdle,
         UnloadLate, DropVictim, ModelExits, HandlerBegins, RequestBegin, RequestEnd

(***************************************************************************)
(* Nobody subscribes to a loader that has nothing to hand out: as long as  *)
(* it keeps a subscriber it has a worker or its result.                    *)
(***************************************************************************)
THEOREM LoadersAttended == Spec => []LoadersAttend
<1>1. Init => LoadersAttend
  BY DEF Init, LoadersAttend
<1>2. TypeOK /\ LoadersAttend /\ [Next]_vars => LoadersAttend'
  BY AttendKept
<1>3. QED BY <1>1, <1>2, TypeCorrect, PTL DEF Spec

-----------------------------------------------------------------------------
(***************************************************************************)
(* Liveness.  The provers know nothing of ENABLED: that the loaders and    *)
(* the config server can take the steps fairness speaks of is a hypothesis *)
(* of the theorem, the invariant NobodyStuck.                              *)
(***************************************************************************)
Gone(m)   == loader[m] = "loaded" /\ ~running[m]
Exited(m) == loader[m] = "exited"
Fresh(m)  == loader[m] = "none" \/ running[m]

GoneSeen(m)   == Gone(m) => ENABLED <<Finalize(m) \/ ModelDown(m)>>_vars
ExitedSeen(m) == Exited(m) => ENABLED <<ConfigDown(m)>>_vars

\* The states a loader goes through.
LEMMA LoaderMoves ==
  ASSUME TypeOK, [Next]_vars, NEW m \in Models
  PROVE  \/ loader'[m] = loader[m]
         \/ loader[m] = "none" /\ loader'[m] = "loading"
         \/ loader[m] = "exited" /\ loader'[m] = "none"
         \/ loader[m] = "loading" /\ loader'[m] \in {"loaded", "failed", "exited"}
         \/ loader[m] = "loaded" /\ loader'[m] = "exited"
<1>1. CASE UNCHANGED loader
  BY <1>1
<1>2. ASSUME NEW n \in Models,
             \/ ConfigDown(n) \/ Finalize(n) \/ ModelDown(n)
             \/ \E r \in Requests : EnsureSubscribe(r, n) \/ SubscribeLoaded(n, r)
      PROVE  \/ loader[n] = "none" /\ loader' = [loader EXCEPT ![n] = "loading"]
             \/ loader[n] = "exited" /\ loader' = [loader EXCEPT ![n] = "none"]
             \/ /\ loader[n] = "loading"
                /\ \E x \in {"loaded", "failed", "exited"} : loader' = [loader EXCEPT ![n] = x]
             \/ loader[n] = "loaded" /\ loader' = [loader EXCEPT ![n] = "exited"]
             \/ loader' = loader
  BY <1>2 DEF ConfigDown, Finalize, ModelDown, EnsureSubscribe, SubscribeLoaded, Stop
<1>3. CASE \E n \in Models :
              \/ ConfigDown(n) \/ Finalize(n) \/ ModelDown(n)
              \/ \E r \in Requests : EnsureSubscribe(r, n) \/ SubscribeLoaded(n, r)
  BY <1>2, <1>3 DEF TypeOK
<1>4. QED
  BY <1>1, <1>3
     DEF Next, Loading, Unloading, Handling, vars, keepalive, loads, requests, EnsureReady,
         SubscribeLoading, SubscribeFailed, MakeRoom, LoadModel, LoadFails, TimerFires,
         ModelExits, LoadTimeout, HandlerBegins, HandlerEnds, Recycle, UnloadTimer, UnloadIdle,
         UnloadVictim, UnloadLate, DropVictim, RequestBegin, RequestEnd

\* The loader of a model that is gone exits, unless the model comes back.
LEMMA GoneSteps ==
  ASSUME NEW m \in Models
  PROVE  /\ Gone(m) /\ TypeOK /\ [Next]_vars => Gone(m)' \/ Exited(m)' \/ Fresh(m)'
         /\ Gone(m) /\ TypeOK /\ <<Finalize(m) \/ ModelDown(m)>>_vars => Exited(m)'
         /\ Exited(m) /\ TypeOK /\ [Next]_vars => Exited(m)' \/ Fresh(m)'
         /\ Exited(m) /\ TypeOK /\ <<ConfigDown(m)>>_vars => Fresh(m)'
<1>1. Gone(m) /\ TypeOK /\ <<Finalize(m) \/ ModelDown(m)>>_vars => Exited(m)'
  BY DEF Gone, Exited, TypeOK, Finalize, ModelDown, Stop
<1>2. Exited(m) /\ TypeOK /\ <<ConfigDown(m)>>_vars => Fresh(m)'
  BY DEF Exited, Fresh, TypeOK, ConfigDown
<1>3. Gone(m) /\ TypeOK /\ [Next]_vars => Gone(m)' \/ Exited(m)' \/ Fresh(m)'
  BY LoaderMoves DEF Gone, Exited, Fresh
<1>4. Exited(m) /\ TypeOK /\ [Next]_vars => Exited(m)' \/ Fresh(m)'
  BY LoaderMoves DEF Exited, Fresh
<1>5. QED BY <1>1, <1>2, <1>3, <1>4

(***************************************************************************)
(* A loader does not outlive the model it loaded, if the loader and the    *)
(* config server are weakly fair and never stuck.                          *)
(***************************************************************************)
THEOREM LoadersForget == FairSpec /\ []NobodyStuck => DeadModelForgotten
<1>1. SUFFICES ASSUME NEW m \in Models
               PROVE  FairSpec /\ []NobodyStuck => (Gone(m) ~> Fresh(m))
  BY DEF DeadModelForgotten, Gone, Fresh
<1>2. Fairness => LoaderRuns(m) /\ ConfigRuns(m)
  BY DEF Fairness
<1>3. NobodyStuck => GoneSeen(m) /\ ExitedSeen(m)
  BY DEF NobodyStuck, GoneSeen, ExitedSeen, Gone, Exited
<1>4. QED
  BY <1>2, <1>3, GoneSteps, TypeCorrect, PTL
     DEF FairSpec, Spec, LoaderRuns, ConfigRuns, GoneSeen, ExitedSeen

-----------------------------------------------------------------------------
(***************************************************************************)
(* Whoever subscribed is told.  A subscriber waits while the worker makes  *)
(* room, while it loads, and while its result is in the mailbox.           *)
(***************************************************************************)
Making(m)      == work[m] \in {"room", "evict"}
AtLoad(m)      == work[m] = "load"
HasResult(m)   == work[m] \in {"ok", "error"}
Waits(m, r)    == r \in subs[m]
Answered(m, r) == ~(pc[r] = "waiting" /\ on[r] = m)

\* The load worker does not go on unloading models for ever.
RoomIsMade == \A m \in Models : Making(m) ~> ~Making(m)

\* What changes the stage of a worker
WorkSteps(n) ==
    \/ MakeRoom(n) \/ UnloadVictim(n) \/ LoadModel(n) \/ LoadFails(n) \/ Finalize(n)
    \/ \E r \in Requests : EnsureSubscribe(r, n)

LEMMA WorkStays ==
  ASSUME [Next]_vars
  PROVE  UNCHANGED work \/ \E n \in Models : WorkSteps(n)
<1>1. ASSUME NEW n \in Models, NEW q \in Requests,
             \/ EnsureReady(q, n) \/ SubscribeLoading(n, q)
             \/ SubscribeLoaded(n, q) \/ SubscribeFailed(n, q)
      PROVE  UNCHANGED work
  BY <1>1 DEF loads, EnsureReady, SubscribeLoading, SubscribeLoaded, SubscribeFailed
<1>2. ASSUME NEW n \in Models, ConfigDown(n) \/ ModelDown(n)
      PROVE  UNCHANGED work
  BY <1>2 DEF ConfigDown, ModelDown
<1>3. ASSUME NEW n \in Models, Unloading(n)
      PROVE  UNCHANGED work
  BY <1>3 DEF Unloading, loads, TimerFires, ModelExits, UnloadTimer, UnloadIdle, UnloadLate,
              DropVictim
<1>4. ASSUME NEW q \in Requests, Handling(q)
      PROVE  UNCHANGED work
  BY <1>4 DEF Handling, loads, LoadTimeout, HandlerBegins, HandlerEnds, Recycle,
              RequestBegin, RequestEnd
<1>5. CASE UNCHANGED vars
  BY <1>5 DEF vars, loads
<1>6. QED
  BY <1>1, <1>2, <1>3, <1>4, <1>5 DEF Next, Loading, WorkSteps

\* What happens to a worker while its loader has a subscriber, and to the
\* subscriber
LEMMA WorkMoves ==
  ASSUME TypeOK, LoadersAttend, [Next]_vars, NEW m \in Models, work[m] # "idle"
  PROVE  \/ work'[m] = work[m]
         \/ Making(m) /\ work'[m] \in {"room", "evict", "load", "error"}
         \/ AtLoad(m) /\ work'[m] \in {"ok", "error"}
         \/ Finalize(m)
<1>1. CASE UNCHANGED work
  BY <1>1
<1>2. ASSUME NEW n \in Models, WorkSteps(n)
      PROVE  \/ Making(n) /\ \E x \in {"room", "evict", "load", "error"} :
                                 work' = [work EXCEPT ![n] = x]
             \/ AtLoad(n) /\ \E x \in {"ok", "error"} : work' = [work EXCEPT ![n] = x]
             \/ Finalize(n) /\ work' = [work EXCEPT ![n] = "idle"]
             \/ loader[n] = "none" /\ work' = [work EXCEPT ![n] = "room"]
             \/ work' = work
  BY <1>2 DEF WorkSteps, MakeRoom, UnloadVictim, DropVictim, LoadModel, LoadFails, Finalize,
              EnsureSubscribe, Making, AtLoad
<1>3. loader[m] = "loading"
  BY DEF LoadersAttend
<1>4. CASE \E n \in Models : WorkSteps(n)
  BY <1>2, <1>3, <1>4 DEF TypeOK
<1>5. QED
  BY <1>1, <1>4, WorkStays

LEMMA FinalizeTells ==
  ASSUME TypeOK, NEW m \in Models, NEW r \in Requests, Finalize(m), Waits(m, r)
  PROVE  Answered(m, r)'
BY DEF TypeOK, Finalize, Done, Waits, Answered

\* Nobody else takes a subscriber off the list.
LEMMA WaitsOn ==
  ASSUME TypeOK, [Next]_vars, NEW m \in Models, NEW r \in Requests, Waits(m, r), ~Finalize(m)
  PROVE  Waits(m, r)'
<1>1. CASE UNCHANGED subs
  BY <1>1 DEF Waits
<1>2. ASSUME NEW n \in Models, Finalize(n)
      PROVE  Waits(m, r)'
  <2>1. subs' = [subs EXCEPT ![n] = {}] /\ n # m
    BY <1>2 DEF Finalize
  <2>2. QED BY <2>1 DEF TypeOK, Waits
<1>3. ASSUME NEW n \in Models, NEW q \in Requests, SubscribeLoading(n, q)
      PROVE  Waits(m, r)'
  BY <1>3 DEF TypeOK, SubscribeLoading, Waits
<1>4. CASE \E n \in Models : Finalize(n) \/ \E q \in Requests : SubscribeLoading(n, q)
  BY <1>2, <1>3, <1>4
<1>5. ASSUME NEW n \in Models, NEW q \in Requests,
             \/ EnsureReady(q, n) \/ EnsureSubscribe(q, n)
             \/ SubscribeLoaded(n, q) \/ SubscribeFailed(n, q)
      PROVE  UNCHANGED subs
  BY <1>5 DEF loads, EnsureReady, EnsureSubscribe, SubscribeLoaded, SubscribeFailed
<1>6. ASSUME NEW n \in Models, ConfigDown(n) \/ ModelDown(n) \/ MakeRoom(n)
                               \/ UnloadVictim(n) \/ LoadModel(n) \/ LoadFails(n)
      PROVE  UNCHANGED subs
  BY <1>6 DEF ConfigDown, ModelDown, MakeRoom, UnloadVictim, DropVictim, LoadModel, LoadFails
<1>7. ASSUME NEW n \in Models, Unloading(n)
      PROVE  UNCHANGED subs
  BY <1>7 DEF Unloading, loads, TimerFires, ModelExits, UnloadTimer, UnloadIdle, UnloadLate,
              DropVictim
<1>8. ASSUME NEW q \in Requests, Handling(q)
      PROVE  UNCHANGED subs
  BY <1>8 DEF Handling, loads, LoadTimeout, HandlerBegins, HandlerEnds, Recycle,
              RequestBegin, RequestEnd
<1>9. CASE UNCHANGED vars
  BY <1>1, <1>9 DEF vars, loads
<1>10. QED
  BY <1>1, <1>4, <1>5, <1>6, <1>7, <1>8, <1>9 DEF Next, Loading

\* The step that fairness brings about in each stage
LEMMA StageSteps ==
  ASSUME TypeOK, LoadersAttend, NEW m \in Models, NEW r \in Requests, Waits(m, r)
  PROVE  /\ Making(m) \/ AtLoad(m) \/ HasResult(m)
         /\ Making(m) /\ [Next]_vars =>
               Waits(m, r)' /\ (Making(m)' \/ AtLoad(m)' \/ HasResult(m)')
         /\ AtLoad(m) /\ [Next]_vars => Waits(m, r)' /\ (AtLoad(m)' \/ HasResult(m)')
         /\ AtLoad(m) /\ <<Worker(m)>>_vars => HasResult(m)'
         /\ HasResult(m) /\ [Next]_vars => (Waits(m, r)' /\ HasResult(m)') \/ Answered(m, r)'
         /\ HasResult(m) /\ <<Finalize(m) \/ ModelDown(m)>>_vars => Answered(m, r)'
<1>1. work[m] # "idle" /\ loader[m] = "loading"
      /\ work[m] \in {"idle", "room", "evict", "load", "ok", "error"}
  BY DEF LoadersAttend, TypeOK, Waits
<1>2. Making(m) \/ AtLoad(m) \/ HasResult(m)
  BY <1>1 DEF Making, AtLoad, HasResult
<1>3. Finalize(m) => HasResult(m)
  BY DEF Finalize, HasResult
<1>4. ASSUME [Next]_vars, ~Finalize(m)
      PROVE  /\ Waits(m, r)'
             /\ Making(m) => Making(m)' \/ AtLoad(m)' \/ HasResult(m)'
             /\ AtLoad(m) => AtLoad(m)' \/ HasResult(m)'
             /\ HasResult(m) => HasResult(m)'
  BY <1>1, <1>4, WaitsOn, WorkMoves DEF Making, AtLoad, HasResult
<1>5. AtLoad(m) /\ Worker(m) => HasResult(m)'
  BY DEF AtLoad, HasResult, Worker, MakeRoom, UnloadVictim, DropVictim, LoadModel, LoadFails, TypeOK
<1>6. ~ModelDown(m)
  BY <1>1 DEF ModelDown
<1>7. ~(HasResult(m) /\ (Making(m) \/ AtLoad(m)))
  BY DEF HasResult, Making, AtLoad
<1>8. QED BY <1>2, <1>3, <1>4, <1>5, <1>6, <1>7, FinalizeTells

\* What the invariant NobodyStuck says of these stages
WorkerGoes(m)  == Making(m) \/ AtLoad(m) => ENABLED <<Worker(m)>>_vars
ResultGoes(m)  == HasResult(m) => ENABLED <<Finalize(m) \/ ModelDown(m)>>_vars

(***************************************************************************)
(* Whoever subscribed while a model was loading is told, if the load       *)
(* worker and the loader are weakly fair and never stuck, provided the     *)
(* worker comes to an end of unloading others.                             *)
(***************************************************************************)
THEOREM SubscribersTold == FairSpec /\ []NobodyStuck /\ RoomIsMade => SubscribersAnswered
<1>1. SUFFICES ASSUME NEW m \in Models, NEW r \in Requests
               PROVE  FairSpec /\ []NobodyStuck /\ RoomIsMade => (Waits(m, r) ~> Answered(m, r))
  BY DEF SubscribersAnswered, Waits, Answered
<1>2. Fairness => LoaderRuns(m) /\ WorkerRuns(m)
  BY DEF Fairness
<1>3. NobodyStuck => WorkerGoes(m) /\ ResultGoes(m)
  BY DEF NobodyStuck, WorkerGoes, ResultGoes, Making, AtLoad, HasResult
<1>4. RoomIsMade => (Making(m) ~> ~Making(m))
  BY DEF RoomIsMade
<1>5. TypeOK /\ LoadersAttend /\ Waits(m, r) => Making(m) \/ AtLoad(m) \/ HasResult(m)
  BY StageSteps
<1>6. TypeOK /\ LoadersAttend /\ Waits(m, r) /\ Making(m) /\ [Next]_vars =>
         Waits(m, r)' /\ (Making(m)' \/ AtLoad(m)' \/ HasResult(m)')
  BY StageSteps
<1>7. TypeOK /\ LoadersAttend /\ Waits(m, r) /\ AtLoad(m) /\ [Next]_vars =>
         Waits(m, r)' /\ (AtLoad(m)' \/ HasResult(m)')
  BY StageSteps
<1>8. TypeOK /\ LoadersAttend /\ Waits(m, r) /\ AtLoad(m) /\ <<Worker(m)>>_vars => HasResult(m)'
  BY StageSteps
<1>9. TypeOK /\ LoadersAttend /\ Waits(m, r) /\ HasResult(m) /\ [Next]_vars =>
         (Waits(m, r)' /\ HasResult(m)') \/ Answered(m, r)'
  BY StageSteps
<1>10. TypeOK /\ LoadersAttend /\ Waits(m, r) /\ HasResult(m)
          /\ <<Finalize(m) \/ ModelDown(m)>>_vars => Answered(m, r)'
  BY StageSteps
<1>11. FairSpec /\ []NobodyStuck /\ RoomIsMade /\ []TypeOK /\ []LoadersAttend
          => (Waits(m, r) ~> Answered(m, r))
  BY <1>2, <1>3, <1>4, <1>5, <1>6, <1>7, <1>8, <1>9, <1>10, PTL
     DEF FairSpec, Spec, LoaderRuns, WorkerRuns, WorkerGoes, ResultGoes
<1>12. QED BY <1>11, TypeCorrect, LoadersAttended, PTL DEF FairSpec

\* Unless loading is memory-aware nothing is unloaded for a load.
NoVictims == \A m \in Models : work[m] # "evict"

LEMMA NoVictimsKept ==
  ASSUME ~MemoryAware, TypeOK, NoVictims, [Next]_vars
  PROVE  NoVictims'
<1>1. CASE UNCHANGED work
  BY <1>1 DEF NoVictims
<1>2. ASSUME NEW n \in Models, WorkSteps(n)
      PROVE  NoVictims'
  <2>1. \E x \in {"idle", "room", "load", "ok", "error"} :
           work' = [work EXCEPT ![n] = x] \/ work' = work
    BY <1>2 DEF WorkSteps, Fits, MakeRoom, UnloadVictim, DropVictim, LoadModel, LoadFails, Finalize,
                EnsureSubscribe, NoVictims
  <2>2. QED BY <2>1 DEF NoVictims, TypeOK
<1>3. QED
  BY <1>1, <1>2, WorkStays

\* With memory-aware loading off, the worker is at once done with making room.
LEMMA RoomAtOnce ==
  ASSUME ~MemoryAware
  PROVE  FairSpec /\ []NobodyStuck => RoomIsMade
<1>1. SUFFICES ASSUME NEW m \in Models
               PROVE  FairSpec /\ []NobodyStuck => (Making(m) ~> ~Making(m))
  BY DEF RoomIsMade
<1>2. Fairness => WorkerRuns(m)
  BY DEF Fairness
<1>3. NobodyStuck => WorkerGoes(m)
  BY DEF NobodyStuck, WorkerGoes, Making, AtLoad
<1>4. TypeOK /\ NoVictims /\ Making(m) /\ <<Worker(m)>>_vars => ~Making(m)'
  BY DEF NoVictims, Making, Worker, Fits, MakeRoom, UnloadVictim, DropVictim, LoadModel, LoadFails, TypeOK
<1>5. Init => NoVictims
  BY DEF Init, NoVictims
<1>6. TypeOK /\ NoVictims /\ [Next]_vars => NoVictims'
  BY NoVictimsKept
<1>7. QED BY <1>2, <1>3, <1>4, <1>5, <1>6, TypeCorrect, PTL
           DEF FairSpec, Spec, WorkerRuns, WorkerGoes

(***************************************************************************)
(* With memory_aware_loading off, its default, nothing is unloaded first   *)
(* (loader.erl:213): every subscriber of a load is told how it ended once  *)
(* the load has returned or its worker has died.                           *)
(***************************************************************************)
THEOREM SubscribersToldUnaware ==
  ASSUME ~MemoryAware
  PROVE  FairSpec /\ []NobodyStuck => SubscribersAnswered
BY RoomAtOnce, SubscribersTold, PTL
=============================================================================
