--------------------------- MODULE ServerQueueProofs ---------------------------
(***************************************************************************)
(* The admission queue for any number of requests, slots and waiters:      *)
(* slots are counted right and belong to somebody who gives them back,     *)
(* nobody is parked beside a free slot, who is let in keeps its slot, and  *)
(* the queue implements the pool of slots of SlotPool.                     *)
(***************************************************************************)
EXTENDS ServerQueue, FiniteSetTheorems, TLAPS

\* e occurs at most once in s
Once(s, e) == \A i, j \in DOMAIN s : s[i] = e /\ s[j] = e => i = j

--------------------------------------------------------------------------------
(***************************************************************************)
(* Sequences.                                                              *)
(***************************************************************************)
LEMMA ConcatElems ==
    ASSUME NEW S, NEW s \in Seq(S), NEW t \in Seq(S)
    PROVE  s \o t \in Seq(S) /\ Elems(s \o t) = Elems(s) \cup Elems(t)
<1>1. s \o t \in Seq(S) /\ Len(s \o t) = Len(s) + Len(t)
  OBVIOUS
<1>2. Elems(s \o t) \subseteq Elems(s) \cup Elems(t)
  BY <1>1 DEF Elems
<1>3. ASSUME NEW i \in DOMAIN s PROVE s[i] \in Elems(s \o t)
  <2>1. i \in DOMAIN (s \o t) /\ (s \o t)[i] = s[i]
    BY <1>1
  <2> QED BY <2>1 DEF Elems
<1>4. ASSUME NEW i \in DOMAIN t PROVE t[i] \in Elems(s \o t)
  <2>1. Len(s) + i \in DOMAIN (s \o t) /\ (s \o t)[Len(s) + i] = t[i]
    BY <1>1
  <2> QED BY <2>1 DEF Elems
<1> QED BY <1>1, <1>2, <1>3, <1>4 DEF Elems

LEMMA AppendElems ==
    ASSUME NEW S, NEW s \in Seq(S), NEW e \in S
    PROVE  Append(s, e) \in Seq(S) /\ Elems(Append(s, e)) = Elems(s) \cup {e}
<1>1. Append(s, e) \in Seq(S) /\ Len(Append(s, e)) = Len(s) + 1
  OBVIOUS
<1>2. Elems(Append(s, e)) \subseteq Elems(s) \cup {e}
  BY <1>1 DEF Elems
<1>3. ASSUME NEW i \in DOMAIN s PROVE s[i] \in Elems(Append(s, e))
  <2>1. i \in DOMAIN Append(s, e) /\ Append(s, e)[i] = s[i]
    BY <1>1
  <2> QED BY <2>1 DEF Elems
<1>4. e \in Elems(Append(s, e))
  <2>1. Len(s) + 1 \in DOMAIN Append(s, e) /\ Append(s, e)[Len(s) + 1] = e
    BY <1>1
  <2> QED BY <2>1 DEF Elems
<1> QED BY <1>1, <1>2, <1>3, <1>4 DEF Elems

LEMMA AppendMessage ==
    ASSUME NEW s \in Seq(Message), NEW e \in Message
    PROVE  Append(s, e) \in Seq(Message) /\ Elems(Append(s, e)) = Elems(s) \cup {e}
BY AppendElems

LEMMA TailElems ==
    ASSUME NEW S, NEW s \in Seq(S), s # <<>>
    PROVE  /\ Tail(s) \in Seq(S)
           /\ Head(s) \in S
           /\ Elems(s) = {Head(s)} \cup Elems(Tail(s))
<1>1. Tail(s) \in Seq(S) /\ Len(Tail(s)) = Len(s) - 1 /\ Len(s) > 0 /\ Head(s) = s[1]
      /\ Head(s) \in S
  OBVIOUS
<1>2. ASSUME NEW i \in DOMAIN s PROVE s[i] \in {Head(s)} \cup Elems(Tail(s))
  <2>1. CASE i = 1
    BY <1>1, <2>1
  <2>2. CASE i # 1
    <3>1. i - 1 \in DOMAIN Tail(s) /\ Tail(s)[i - 1] = s[i]
      BY <1>1, <2>2
    <3> QED BY <3>1 DEF Elems
  <2> QED BY <2>1, <2>2
<1>3. ASSUME NEW i \in DOMAIN Tail(s) PROVE Tail(s)[i] \in Elems(s)
  <2>1. i + 1 \in DOMAIN s /\ Tail(s)[i] = s[i + 1]
    BY <1>1
  <2> QED BY <2>1 DEF Elems
<1>4. Head(s) \in Elems(s)
  BY <1>1 DEF Elems
<1> QED BY <1>1, <1>2, <1>3, <1>4 DEF Elems

LEMMA WithoutAtElems ==
    ASSUME NEW S, NEW s \in Seq(S), NEW i \in DOMAIN s
    PROVE  /\ WithoutAt(s, i) \in Seq(S)
           /\ Elems(WithoutAt(s, i)) \subseteq Elems(s)
           /\ Elems(s) \subseteq {s[i]} \cup Elems(WithoutAt(s, i))
           /\ Once(s, s[i]) => s[i] \notin Elems(WithoutAt(s, i))
           /\ \A e : Once(s, e) => Once(WithoutAt(s, i), e)
<1> DEFINE w == WithoutAt(s, i)
<1>1. Len(s) \in Nat /\ Len(s) > 0 /\ DOMAIN s = 1 .. Len(s) /\ i \in 1 .. Len(s)
  OBVIOUS
<1>2. w \in Seq(S) /\ DOMAIN w = 1 .. Len(s) - 1
  <2>1. \A j \in 1 .. Len(s) - 1 : (IF j < i THEN s[j] ELSE s[j + 1]) \in S
    BY <1>1
  <2>2. w \in [1 .. Len(s) - 1 -> S]
    BY <2>1 DEF WithoutAt
  <2>3. Len(s) - 1 \in Nat
    BY <1>1
  <2> QED BY <2>2, <2>3
<1>3. \A j \in DOMAIN w : w[j] = IF j < i THEN s[j] ELSE s[j + 1]
  BY <1>2 DEF WithoutAt
<1> HIDE DEF w
<1>4. ASSUME NEW j \in DOMAIN w
      PROVE  \E k \in DOMAIN s : k # i /\ w[j] = s[k] /\ k = IF j < i THEN j ELSE j + 1
  BY <1>1, <1>2, <1>3
<1>5. ASSUME NEW k \in DOMAIN s, k # i
      PROVE  \E j \in DOMAIN w : w[j] = s[k]
  <2>1. CASE k < i
    <3>1. k \in DOMAIN w /\ w[k] = s[k]
      BY <1>1, <1>2, <1>3, <2>1
    <3> QED BY <3>1
  <2>2. CASE ~(k < i)
    <3>1. k - 1 \in DOMAIN w /\ ~(k - 1 < i) /\ w[k - 1] = s[k]
      BY <1>1, <1>2, <1>3, <1>5, <2>2
    <3> QED BY <3>1
  <2> QED BY <2>1, <2>2
<1>6. Elems(w) \subseteq Elems(s) /\ Elems(s) \subseteq {s[i]} \cup Elems(w)
  BY <1>4, <1>5 DEF Elems
<1>7. Once(s, s[i]) => s[i] \notin Elems(w)
  BY <1>4 DEF Elems, Once
<1>8. ASSUME NEW e, Once(s, e) PROVE Once(w, e)
  <2> SUFFICES ASSUME NEW j \in DOMAIN w, NEW k \in DOMAIN w, w[j] = e, w[k] = e
               PROVE  j = k
    BY DEF Once
  <2> DEFINE At(n) == IF n < i THEN n ELSE n + 1
  <2>1. At(j) \in DOMAIN s /\ s[At(j)] = e /\ At(k) \in DOMAIN s /\ s[At(k)] = e
    BY <1>4
  <2>2. At(j) = At(k)
    BY <1>8, <2>1 DEF Once
  <2> QED BY <1>1, <1>2, <2>2
<1> QED BY <1>2, <1>6, <1>7, <1>8 DEF w

LEMMA WithoutElems ==
    ASSUME NEW S, NEW s \in Seq(S), NEW e
    PROVE  /\ Without(s, e) \in Seq(S)
           /\ Elems(Without(s, e)) \subseteq Elems(s)
           /\ Elems(s) \subseteq {e} \cup Elems(Without(s, e))
           /\ Once(s, e) => e \notin Elems(Without(s, e))
           /\ \A d : Once(s, d) => Once(Without(s, e), d)
<1>1. CASE e \notin Elems(s)
  BY <1>1 DEF Without
<1>2. CASE e \in Elems(s)
  <2> DEFINE i == CHOOSE i \in DOMAIN s : s[i] = e
  <2>1. i \in DOMAIN s /\ s[i] = e
    BY <1>2 DEF Elems
  <2>2. Without(s, e) = WithoutAt(s, i)
    BY <1>2 DEF Without
  <2> HIDE DEF i
  <2> QED BY <2>1, <2>2, WithoutAtElems
<1> QED BY <1>1, <1>2

LEMMA OnceTail ==
    ASSUME NEW S, NEW s \in Seq(S), s # <<>>, NEW e, Once(s, e)
    PROVE  Once(Tail(s), e) /\ (Head(s) = e => e \notin Elems(Tail(s)))
<1>1. Len(Tail(s)) = Len(s) - 1 /\ Len(s) > 0 /\ Head(s) = s[1]
  OBVIOUS
<1>2. \A i \in DOMAIN Tail(s) : i + 1 \in DOMAIN s /\ Tail(s)[i] = s[i + 1] /\ i + 1 # 1
  BY <1>1
<1>3. Once(Tail(s), e)
  BY <1>1, <1>2 DEF Once
<1>4. ASSUME Head(s) = e, NEW i \in DOMAIN Tail(s) PROVE Tail(s)[i] # e
  <2>1. 1 \in DOMAIN s /\ s[1] = e
    BY <1>1, <1>4
  <2> QED BY <1>2, <2>1 DEF Once
<1> QED BY <1>3, <1>4 DEF Elems

LEMMA OnceConcat ==
    ASSUME NEW S, NEW s \in Seq(S), NEW t \in Seq(S), NEW e, Once(s, e), e \notin Elems(t)
    PROVE  Once(s \o t, e)
<1>1. \A i \in DOMAIN (s \o t) : (s \o t)[i] = e => i \in DOMAIN s /\ s[i] = e
  BY DEF Elems
<1> QED BY <1>1 DEF Once

LEMMA OnceAppend ==
    ASSUME NEW S, NEW s \in Seq(S), NEW d \in S, NEW e, Once(s, e),
           d = e => e \notin Elems(s)
    PROVE  Once(Append(s, d), e)
<1>1. \A i \in DOMAIN Append(s, d) :
         \/ i \in DOMAIN s /\ Append(s, d)[i] = s[i]
         \/ i = Len(s) + 1 /\ Append(s, d)[i] = d
  OBVIOUS
<1> QED BY <1>1 DEF Once, Elems

--------------------------------------------------------------------------------
(***************************************************************************)
(* The inductive invariant.  What the properties need besides each other:  *)
(* a request is nowhere before it calls, it calls once, and it is parked   *)
(* or holds a slot, once, and only after its call has been handled.        *)
(***************************************************************************)
Apart        == Waiting \cap holders = {}
ParkedOnce   == \A r \in Requests : Once(waiters, r)
AcquireFresh == \A r \in Requests : <<"acquire", r>> \in Elems(inbox) => r \notin Monitored
AcquireOnce  == \A r \in Requests : Once(inbox, <<"acquire", r>>)
IdleUnknown  ==
    \A r \in Requests : proc[r] = "idle" =>
        /\ r \notin Monitored \cup timer \cup running
        /\ \A m \in Elems(inbox) : m[2] # r

QueueInv ==
    /\ TypeOK
    /\ Apart
    /\ ParkedOnce
    /\ AcquireFresh
    /\ AcquireOnce
    /\ IdleUnknown
    /\ SlotsExact
    /\ WorkConserving
    /\ SlotAccounted
    /\ WaiterAccounted

LEMMA HoldersFinite == TypeOK => IsFiniteSet(holders)
BY QueueAssumption, FS_Subset DEF TypeOK

LEMMA WaitingRequests == TypeOK => Waiting \subseteq Requests
BY DEF TypeOK, Waiting, Elems

LEMMA Start == Init => QueueInv
<1> SUFFICES ASSUME Init PROVE QueueInv
  OBVIOUS
<1>1. Elems(inbox) = {} /\ Elems(waiters) = {}
  BY DEF Init, Elems
<1>2. TypeOK
  BY DEF Init, TypeOK, ProcState
<1>3. Apart /\ ParkedOnce /\ AcquireFresh /\ AcquireOnce /\ IdleUnknown
  BY <1>1 DEF Init, Apart, ParkedOnce, AcquireFresh, AcquireOnce, IdleUnknown, Once,
              Waiting, Monitored
<1>4. SlotsExact /\ WorkConserving
  BY FS_EmptySet, QueueAssumption DEF Init, SlotsExact, WorkConserving
<1>5. SlotAccounted /\ WaiterAccounted
  BY <1>1 DEF Init, SlotAccounted, WaiterAccounted, Waiting
<1> QED BY <1>2, <1>3, <1>4, <1>5 DEF QueueInv

--------------------------------------------------------------------------------
(***************************************************************************)
(* The callers.  A step of r's process, other than its call, sends         *)
(* messages about r, and says so with a 'DOWN' if it ends a process that   *)
(* the server watches.                                                     *)
(***************************************************************************)
Sends(r, sent) ==
    /\ sent \in Seq(Message)
    /\ inbox' = inbox \o sent
    /\ \A m \in Elems(sent) : m[2] = r /\ m[1] # "acquire"
    /\ UNCHANGED <<holders, inFlight, waiters, depthMax>>
    /\ timer' \subseteq timer
    /\ \A q \in timer : q \notin timer' => q = r /\ <<"timeout", r>> \in Elems(sent)
    /\ proc[r] # "idle"
    /\ proc' \in [Requests -> ProcState]
    /\ \A q \in Requests : q # r => proc'[q] = proc[q]
    /\ \/ proc'[r] = proc[r]
       \/ proc'[r] = "exited" /\ (r \in Monitored => <<"down", r>> \in Elems(sent))
    /\ running' \subseteq running \cup {r}

LEMMA SendsKeep ==
    ASSUME QueueInv, NEW r \in Requests, NEW sent, Sends(r, sent)
    PROVE  QueueInv'
<1>1. Elems(inbox') = Elems(inbox) \cup Elems(sent) /\ inbox' \in Seq(Message)
  BY ConcatElems DEF QueueInv, TypeOK, Sends
<1>2. TypeOK'
  BY <1>1 DEF QueueInv, TypeOK, Sends
<1>3. Waiting' = Waiting /\ Monitored' = Monitored
  BY DEF Sends, Waiting, Monitored
<1>4. Apart' /\ ParkedOnce' /\ SlotsExact' /\ WorkConserving'
  BY <1>3 DEF QueueInv, Sends, Apart, ParkedOnce, SlotsExact, WorkConserving
<1>5. AcquireFresh'
  <2> SUFFICES ASSUME NEW q \in Requests, <<"acquire", q>> \in Elems(inbox')
               PROVE  q \notin Monitored'
    BY DEF AcquireFresh
  <2>1. <<"acquire", q>> \notin Elems(sent)
    BY DEF Sends
  <2> QED BY <1>1, <1>3, <2>1 DEF QueueInv, AcquireFresh
<1>6. AcquireOnce'
  <2> SUFFICES ASSUME NEW q \in Requests PROVE Once(inbox', <<"acquire", q>>)
    BY DEF AcquireOnce
  <2>1. <<"acquire", q>> \notin Elems(sent)
    BY DEF Sends
  <2>2. Once(inbox \o sent, <<"acquire", q>>)
    BY <2>1, OnceConcat DEF QueueInv, TypeOK, AcquireOnce, Sends
  <2> QED BY <2>2 DEF Sends
<1>7. IdleUnknown'
  <2> SUFFICES ASSUME NEW q \in Requests, proc'[q] = "idle"
               PROVE  /\ q \notin Monitored' \cup timer' \cup running'
                      /\ \A m \in Elems(inbox') : m[2] # q
    BY DEF IdleUnknown
  <2>1. q # r /\ proc[q] = "idle"
    BY DEF Sends
  <2>2. \A m \in Elems(sent) : m[2] # q
    BY <2>1 DEF Sends
  <2>3. /\ q \notin Monitored \cup timer \cup running
        /\ \A m \in Elems(inbox) : m[2] # q
    BY <2>1 DEF QueueInv, IdleUnknown
  <2>4. timer' \subseteq timer /\ running' \subseteq running \cup {r}
    BY DEF Sends
  <2>5. q \notin Monitored' \cup timer' \cup running'
    BY <1>3, <2>1, <2>3, <2>4
  <2>6. \A m \in Elems(inbox') : m[2] # q
    BY <1>1, <2>2, <2>3
  <2> QED BY <2>5, <2>6
<1>8. SlotAccounted'
  <2> SUFFICES ASSUME NEW q \in holders
               PROVE  \/ proc'[q] = "granted"
                      \/ <<"release", q>> \in Elems(inbox')
                      \/ <<"down", q>> \in Elems(inbox')
    BY DEF SlotAccounted, Sends
  <2>1. q \in Requests /\ q \in Monitored
    BY DEF QueueInv, TypeOK, Monitored
  <2>2. proc'[q] = proc[q] \/ <<"down", q>> \in Elems(sent)
    BY <2>1 DEF Sends
  <2> QED BY <1>1, <2>2 DEF QueueInv, SlotAccounted
<1>9. WaiterAccounted'
  BY <1>1, <1>3, WaitingRequests DEF QueueInv, WaiterAccounted, Sends, Monitored
<1> QED BY <1>2, <1>4, <1>5, <1>6, <1>7, <1>8, <1>9 DEF QueueInv

\* What Exit(r, sent) adds to the mailbox
Farewell(r, sent) == sent \o (IF r \in Monitored THEN << <<"down", r>> >> ELSE <<>>)

LEMMA MessageOne ==
    ASSUME NEW kind \in Kind, NEW r \in Requests, NEW s \in Seq(Message)
    PROVE  LET m == <<kind, r>> IN
           /\ <<m>> \in Seq(Message)
           /\ Elems(<<m>>) = {m}
           /\ s \o <<m>> = Append(s, m)
<1> DEFINE m == <<kind, r>>
<1>1. m \in Message
  BY DEF Message
<1> HIDE DEF m
<1>2. <<m>> \in Seq(Message) /\ Elems(<<m>>) = {m}
  BY <1>1 DEF Elems
<1>3. s \o <<m>> = Append(s, m)
  <2>1. Len(s \o <<m>>) = Len(Append(s, m)) /\ s \o <<m>> \in Seq(Message)
        /\ Append(s, m) \in Seq(Message)
    BY <1>1, <1>2
  <2>2. \A i \in 1 .. Len(s) + 1 : (s \o <<m>>)[i] = Append(s, m)[i]
    BY <1>1
  <2> QED BY <1>1, <2>1, <2>2
<1> QED BY <1>2, <1>3 DEF m

LEMMA FarewellMessages ==
    ASSUME QueueInv, NEW r \in Requests, NEW sent \in {<<>>, << <<"release", r>> >>}
    PROVE  /\ Farewell(r, sent) \in Seq(Message)
           /\ Exit(r, sent) = inbox \o Farewell(r, sent)
           /\ \A m \in Elems(Farewell(r, sent)) : m[2] = r /\ m[1] # "acquire"
           /\ r \in Monitored => <<"down", r>> \in Elems(Farewell(r, sent))
<1> DEFINE down == IF r \in Monitored THEN << <<"down", r>> >> ELSE <<>>
<1>1. sent \in Seq(Message) /\ down \in Seq(Message) /\ inbox \in Seq(Message)
  <2>1. << <<"release", r>> >> \in Seq(Message) /\ << <<"down", r>> >> \in Seq(Message)
    BY MessageOne DEF QueueInv, TypeOK, Kind
  <2>2. <<>> \in Seq(Message) /\ inbox \in Seq(Message)
    BY DEF QueueInv, TypeOK
  <2> QED BY <2>1, <2>2
<1>2. Elems(sent) \subseteq {<<"release", r>>}
  BY DEF Elems
<1>3. Elems(down) = IF r \in Monitored THEN {<<"down", r>>} ELSE {}
  BY DEF Elems
<1>4. Farewell(r, sent) = sent \o down
  BY DEF Farewell
<1> HIDE DEF down
<1>5. Farewell(r, sent) \in Seq(Message) /\ Elems(Farewell(r, sent)) = Elems(sent) \cup Elems(down)
  BY <1>1, <1>4, ConcatElems
<1>6. Exit(r, sent) = inbox \o (sent \o down)
  BY <1>1 DEF Exit, down
<1> QED BY <1>2, <1>3, <1>4, <1>5, <1>6

LEMMA CallKeeps == ASSUME QueueInv, NEW r \in Requests, Call(r) PROVE QueueInv'
<1>1. <<"acquire", r>> \in Message
  BY DEF Message, Kind
<1>2. Elems(inbox') = Elems(inbox) \cup {<<"acquire", r>>} /\ inbox' \in Seq(Message)
  <2>1. inbox \in Seq(Message) /\ inbox' = Append(inbox, <<"acquire", r>>)
    BY DEF QueueInv, TypeOK, Call
  <2>2. /\ Append(inbox, <<"acquire", r>>) \in Seq(Message)
        /\ Elems(Append(inbox, <<"acquire", r>>)) = Elems(inbox) \cup {<<"acquire", r>>}
    BY <1>1, <2>1, AppendMessage
  <2> QED BY <2>1, <2>2
<1>3. proc' \in [Requests -> ProcState] /\ proc'[r] = "calling"
      /\ \A q \in Requests : q # r => proc'[q] = proc[q]
  BY DEF QueueInv, TypeOK, Call, ProcState
<1>4. r \notin Monitored \cup timer \cup running /\ \A m \in Elems(inbox) : m[2] # r
  BY DEF QueueInv, IdleUnknown, Call
<1>5. Waiting' = Waiting /\ Monitored' = Monitored
  BY DEF Call, Waiting, Monitored
<1>6. TypeOK' /\ Apart' /\ ParkedOnce' /\ SlotsExact' /\ WorkConserving'
  BY <1>2, <1>3, <1>5
     DEF QueueInv, TypeOK, Call, Apart, ParkedOnce, SlotsExact, WorkConserving
<1>7. AcquireFresh'
  <2> SUFFICES ASSUME NEW q \in Requests, <<"acquire", q>> \in Elems(inbox')
               PROVE  q \notin Monitored
    BY <1>5 DEF AcquireFresh
  <2>1. CASE q = r
    BY <1>4, <2>1
  <2>2. CASE q # r
    BY <1>2, <2>2 DEF QueueInv, AcquireFresh
  <2> QED BY <2>1, <2>2
<1>8. AcquireOnce'
  <2> SUFFICES ASSUME NEW q \in Requests PROVE Once(inbox', <<"acquire", q>>)
    BY DEF AcquireOnce
  <2>1. <<"acquire", r>> = <<"acquire", q>> => <<"acquire", q>> \notin Elems(inbox)
    BY <1>4
  <2>2. Once(Append(inbox, <<"acquire", r>>), <<"acquire", q>>)
    BY <1>1, <2>1, OnceAppend DEF QueueInv, TypeOK, AcquireOnce
  <2> QED BY <2>2 DEF Call
<1>9. IdleUnknown'
  <2> SUFFICES ASSUME NEW q \in Requests, proc'[q] = "idle"
               PROVE  /\ q \notin Monitored' \cup timer' \cup running'
                      /\ \A m \in Elems(inbox') : m[2] # q
    BY DEF IdleUnknown
  <2>1. q # r /\ proc[q] = "idle"
    BY <1>3
  <2>2. /\ q \notin Monitored \cup timer \cup running
        /\ \A m \in Elems(inbox) : m[2] # q
    BY <2>1 DEF QueueInv, IdleUnknown
  <2>3. UNCHANGED <<timer, running, depthMax>>
    BY DEF Call
  <2> QED BY <1>2, <1>5, <2>1, <2>2, <2>3
<1>10. SlotAccounted'
  BY <1>2, <1>3, <1>4 DEF QueueInv, TypeOK, SlotAccounted, Call, Monitored
<1>11. WaiterAccounted'
  BY <1>2, <1>3, <1>4, <1>5, WaitingRequests
     DEF QueueInv, WaiterAccounted, Call, Monitored
<1> QED BY <1>6, <1>7, <1>8, <1>9, <1>10, <1>11 DEF QueueInv

LEMMA RecycleKeeps == ASSUME QueueInv, NEW r \in Requests, Recycle(r) PROVE QueueInv'
<1>1. proc' \in [Requests -> ProcState] /\ proc'[r] = "idle"
      /\ \A q \in Requests : q # r => proc'[q] = proc[q]
  BY DEF QueueInv, TypeOK, Recycle, ProcState
<1>2. Waiting' = Waiting /\ Monitored' = Monitored
  BY DEF Recycle, Waiting, Monitored
<1>3. r \notin Monitored \cup timer \cup running /\ \A m \in Elems(inbox) : m[2] # r
  BY DEF Recycle, Forgotten, Elems
<1>4. TypeOK'
  BY <1>1 DEF QueueInv, TypeOK, Recycle
<1>5. IdleUnknown'
  BY <1>1, <1>2, <1>3 DEF QueueInv, IdleUnknown, Recycle
<1>6. SlotAccounted' /\ WaiterAccounted'
  BY <1>1, <1>2, <1>3, WaitingRequests
     DEF QueueInv, TypeOK, SlotAccounted, WaiterAccounted, Recycle, Monitored
<1>7. Apart' /\ ParkedOnce' /\ AcquireFresh' /\ AcquireOnce' /\ SlotsExact' /\ WorkConserving'
  BY <1>2 DEF QueueInv, Recycle, Apart, ParkedOnce, AcquireFresh, AcquireOnce, SlotsExact,
              WorkConserving
<1> QED BY <1>4, <1>5, <1>6, <1>7 DEF QueueInv

LEMMA CallerKeeps ==
    ASSUME QueueInv, NEW r \in Requests, CallerStep(r) \/ TimerFires(r)
    PROVE  QueueInv'
<1> DEFINE release == << <<"release", r>> >>
<1>1. CASE Call(r)
  BY <1>1, CallKeeps
<1>2. CASE Recycle(r)
  BY <1>2, RecycleKeeps
<1>3. CASE GiveUp(r)
  <2>1. Sends(r, Farewell(r, <<>>))
    BY <1>3, FarewellMessages DEF GiveUp, Sends, QueueInv, TypeOK, ProcState
  <2> QED BY <2>1, SendsKeep
<1>4. CASE AdmitFails(r)
  <2>1. Sends(r, Farewell(r, release))
    BY <1>4, FarewellMessages DEF AdmitFails, Sends, QueueInv, TypeOK, ProcState
  <2> QED BY <2>1, SendsKeep
<1>5. inbox \o <<>> = inbox /\ <<>> \in Seq(Message) /\ Elems(<<>>) = {}
  BY DEF QueueInv, TypeOK, Elems
<1>6. /\ release \in Seq(Message) /\ inbox \o release = Append(inbox, <<"release", r>>)
      /\ Elems(release) = {<<"release", r>>}
  BY MessageOne DEF QueueInv, TypeOK, Kind
<1>7. r \in running => proc[r] # "idle"
  BY DEF QueueInv, IdleUnknown
<1>8. CASE Admit(r)
  <2>1. CASE r \in Pipelined
    <3>1. Sends(r, Farewell(r, <<>>))
      BY ZenonT(40), <1>8, <2>1, FarewellMessages DEF Admit, Sends, QueueInv, TypeOK, ProcState
    <3> QED BY <3>1, SendsKeep
  <2>2. CASE r \notin Pipelined
    <3>1. Sends(r, <<>>)
      BY <1>5, <1>8, <2>2 DEF Admit, Sends, QueueInv, TypeOK
    <3> QED BY <3>1, SendsKeep
  <2> QED BY <2>1, <2>2
<1>9. CASE Finish(r)
  <2>1. CASE r \in Pipelined
    <3> HIDE DEF release
    <3>1. \A m \in Elems(release) : m[2] = r /\ m[1] # "acquire"
      BY <1>6
    <3>2. Sends(r, release)
      BY <1>6, <1>7, <1>9, <2>1, <3>1 DEF Finish, Sends, QueueInv, TypeOK
    <3> QED BY <3>2, SendsKeep
  <2>2. CASE r \notin Pipelined
    <3>1. Sends(r, Farewell(r, release))
      BY <1>7, <1>9, <2>2, FarewellMessages
         DEF Finish, Sends, QueueInv, TypeOK, ProcState
    <3> QED BY <3>1, SendsKeep
  <2> QED BY <2>1, <2>2
<1>10. CASE HandlerKilled(r)
  <2>1. CASE r \in Pipelined
    <3>1. Sends(r, <<>>)
      BY <1>5, <1>7, <1>10, <2>1 DEF HandlerKilled, Sends, QueueInv, TypeOK
    <3> QED BY <3>1, SendsKeep
  <2>2. CASE r \notin Pipelined
    <3>1. Sends(r, Farewell(r, <<>>))
      BY <1>7, <1>10, <2>2, FarewellMessages
         DEF HandlerKilled, Sends, QueueInv, TypeOK, ProcState
    <3> QED BY <3>1, SendsKeep
  <2> QED BY <2>1, <2>2
<1>11. CASE TimerFires(r)
  <2> DEFINE timeout == << <<"timeout", r>> >>
  <2>1. /\ timeout \in Seq(Message) /\ inbox \o timeout = Append(inbox, <<"timeout", r>>)
        /\ Elems(timeout) = {<<"timeout", r>>}
    BY MessageOne DEF QueueInv, TypeOK, Kind
  <2>2. proc[r] # "idle"
    BY <1>11 DEF QueueInv, IdleUnknown, TimerFires
  <2> HIDE DEF timeout
  <2>3. \A m \in Elems(timeout) : m[2] = r /\ m[1] # "acquire"
    BY <2>1
  <2>4. Sends(r, timeout)
    BY <1>11, <2>1, <2>2, <2>3 DEF TimerFires, Sends, QueueInv, TypeOK
  <2> QED BY <2>4, SendsKeep
<1> QED BY <1>1, <1>2, <1>3, <1>4, <1>8, <1>9, <1>10, <1>11 DEF CallerStep

--------------------------------------------------------------------------------
(***************************************************************************)
(* The server.  Handling a message about r takes messages about r out of   *)
(* the mailbox and leaves the others, in their order.                      *)
(***************************************************************************)
Consumed(r, rest) ==
    /\ rest \in Seq(Message)
    /\ Elems(rest) \subseteq Elems(inbox)
    /\ \A m \in Elems(inbox) : m[2] # r => m \in Elems(rest)
    /\ \A e : Once(inbox, e) => Once(rest, e)

LEMMA HeadConsumed ==
    ASSUME TypeOK, NEW kind, NEW r, Receive(kind, r)
    PROVE  /\ Consumed(r, Tail(inbox))
           /\ Elems(inbox) = {<<kind, r>>} \cup Elems(Tail(inbox))
           /\ Once(inbox, <<kind, r>>) => <<kind, r>> \notin Elems(Tail(inbox))
<1>1. inbox \in Seq(Message) /\ inbox # <<>> /\ Head(inbox) = <<kind, r>>
  BY DEF TypeOK, Receive
<1>2. Tail(inbox) \in Seq(Message) /\ Elems(inbox) = {<<kind, r>>} \cup Elems(Tail(inbox))
  BY <1>1, TailElems
<1>3. \A e : Once(inbox, e) => Once(Tail(inbox), e)
  BY <1>1, OnceTail
<1>4. Once(inbox, <<kind, r>>) => <<kind, r>> \notin Elems(Tail(inbox))
  BY <1>1, OnceTail
<1> QED BY <1>2, <1>3, <1>4 DEF Consumed

LEMMA FlushConsumed ==
    ASSUME TypeOK, NEW kind, NEW r, Receive(kind, r)
    PROVE  Consumed(r, Flushed(r))
<1>1. Consumed(r, Tail(inbox))
  BY HeadConsumed
<1>2. /\ Flushed(r) \in Seq(Message)
      /\ Elems(Flushed(r)) \subseteq Elems(Tail(inbox))
      /\ Elems(Tail(inbox)) \subseteq {<<"down", r>>} \cup Elems(Flushed(r))
      /\ \A e : Once(Tail(inbox), e) => Once(Flushed(r), e)
  BY <1>1, WithoutElems DEF Consumed, Flushed
<1> QED BY <1>1, <1>2 DEF Consumed

\* What a step that handles a message about r keeps by itself
LEMMA ConsumedKeeps ==
    ASSUME QueueInv, NEW r \in Requests, NEW rest, Consumed(r, rest), inbox' = rest
    PROVE  /\ inbox' \in Seq(Message)
           /\ AcquireOnce'
           /\ \A m \in Elems(inbox') : m \in Elems(inbox)
<1> QED BY DEF QueueInv, Consumed, AcquireOnce

LEMMA ReplyKeeps ==
    ASSUME QueueInv, NEW r \in Requests, NEW state \in {"granted", "exited"}, Reply(r, state)
    PROVE  /\ proc' \in [Requests -> ProcState]
           /\ \A q \in Requests : q # r => proc'[q] = proc[q]
           /\ proc'[r] = IF proc[r] = "calling" THEN state ELSE proc[r]
           /\ \A q \in Requests : proc'[q] = "idle" => proc[q] = "idle"
<1> QED BY DEF QueueInv, TypeOK, Reply, ProcState

\* A slot is freed, or handed to the longest waiter.
LEMMA FreeKeeps ==
    ASSUME QueueInv, NEW r \in holders, NEW rest, Consumed(r, rest), Free(r, rest),
           UNCHANGED <<running, depthMax>>
    PROVE  QueueInv'
<1>1. r \in Requests /\ inbox' = rest
  BY DEF QueueInv, TypeOK, Free
<1>2. inbox' \in Seq(Message) /\ AcquireOnce' /\ \A m \in Elems(inbox') : m \in Elems(inbox)
  BY <1>1, ConsumedKeeps
<1>3. \A m \in Elems(inbox) : m[2] # r => m \in Elems(inbox')
  BY <1>1 DEF Consumed
<1>4. IsFiniteSet(holders) /\ Cardinality(holders \ {r}) = Cardinality(holders) - 1
      /\ IsFiniteSet(holders \ {r}) /\ Cardinality(holders) \in Nat
      /\ Cardinality(holders) > 0
  <2>1. IsFiniteSet(holders)
    BY HoldersFinite DEF QueueInv
  <2>2. Cardinality(holders) \in Nat /\ Cardinality(holders \ {r}) = Cardinality(holders) - 1
        /\ IsFiniteSet(holders \ {r})
    BY <2>1, FS_RemoveElement, FS_CardinalityType
  <2>3. Cardinality(holders) # 0
    BY <2>1, FS_EmptySet
  <2> QED BY <2>1, <2>2, <2>3
<1>5. CASE waiters = <<>>
  <2>1. /\ holders' = holders \ {r} /\ inFlight' = inFlight - 1
        /\ UNCHANGED <<waiters, timer, proc, running, depthMax>>
    BY <1>5 DEF Free
  <2>2. Waiting' = {} /\ Waiting = {}
    BY <1>5, <2>1 DEF Waiting, Elems
  <2>3. TypeOK' /\ SlotsExact' /\ WorkConserving'
    <3>1. SlotsExact' /\ inFlight' \in Nat
      BY <1>4, <2>1, QueueAssumption DEF QueueInv, SlotsExact
    <3>2. TypeOK'
      BY <1>2, <2>1, <3>1 DEF QueueInv, TypeOK
    <3>3. WorkConserving'
      BY <1>5, <2>1 DEF WorkConserving
    <3> QED BY <3>1, <3>2, <3>3
  <2>4. Apart' /\ ParkedOnce' /\ WaiterAccounted'
    BY <2>1, <2>2 DEF QueueInv, Apart, ParkedOnce, WaiterAccounted
  <2>5. AcquireFresh' /\ IdleUnknown'
    BY <1>2, <2>1, <2>2 DEF QueueInv, AcquireFresh, IdleUnknown, Monitored
  <2>6. SlotAccounted'
    BY <1>3, <2>1 DEF QueueInv, SlotAccounted
  <2> QED BY <1>2, <2>3, <2>4, <2>5, <2>6 DEF QueueInv
<1>6. CASE waiters # <<>>
  <2> DEFINE w == Head(waiters)
  <2>1. /\ holders' = (holders \ {r}) \cup {w} /\ waiters' = Tail(waiters)
        /\ timer' = timer \ {w} /\ UNCHANGED <<inFlight, running, depthMax>> /\ Reply(w, "granted")
    BY <1>6 DEF Free
  <2>2. waiters \in Seq(Requests)
    BY DEF QueueInv, TypeOK
  <2>3. /\ Tail(waiters) \in Seq(Requests) /\ w \in Requests
        /\ Waiting = {w} \cup Elems(Tail(waiters))
    BY <1>6, <2>2, TailElems DEF Waiting
  <2>4. \A q \in Requests : Once(Tail(waiters), q)
    BY <1>6, <2>2, OnceTail DEF QueueInv, ParkedOnce
  <2>5. w \notin Elems(Tail(waiters))
    BY <1>6, <2>2, <2>3, OnceTail DEF QueueInv, ParkedOnce
  <2>6. Waiting' = Waiting \ {w} /\ w \in Waiting
    BY <2>1, <2>3, <2>5 DEF Waiting
  <2>7. w \notin holders /\ w # r
    BY <2>6 DEF QueueInv, Apart
  <2> HIDE DEF w
  <2>8. /\ proc' \in [Requests -> ProcState]
        /\ \A q \in Requests : q # w => proc'[q] = proc[q]
        /\ proc'[w] = IF proc[w] = "calling" THEN "granted" ELSE proc[w]
        /\ \A q \in Requests : proc'[q] = "idle" => proc[q] = "idle"
    BY <2>1, <2>3, ReplyKeeps
  <2>9. TypeOK'
    BY <1>2, <2>1, <2>3, <2>8 DEF QueueInv, TypeOK
  <2>10. SlotsExact'
    <3>1. Cardinality((holders \ {r}) \cup {w}) = Cardinality(holders \ {r}) + 1
      BY <1>4, <2>7, FS_AddElement
    <3>2. Cardinality((holders \ {r}) \cup {w}) = Cardinality(holders)
      BY <1>4, <3>1
    <3> QED BY <2>1, <3>2 DEF QueueInv, SlotsExact
  <2>11. WorkConserving'
    BY <1>6, <2>1 DEF QueueInv, WorkConserving
  <2>12. Apart' /\ ParkedOnce'
    BY <2>1, <2>4, <2>6 DEF QueueInv, Apart, ParkedOnce
  <2>13. Monitored' \subseteq Monitored
    BY <2>1, <2>6 DEF Monitored
  <2>14. AcquireFresh' /\ IdleUnknown'
    BY <1>2, <2>1, <2>8, <2>13 DEF QueueInv, AcquireFresh, IdleUnknown
  <2>15. SlotAccounted'
    <3> SUFFICES ASSUME NEW q \in holders'
                 PROVE  \/ proc'[q] = "granted"
                        \/ <<"release", q>> \in Elems(inbox')
                        \/ <<"down", q>> \in Elems(inbox')
      BY DEF SlotAccounted
    <3>1. CASE q = w
      <4>1. CASE proc[w] \in {"calling", "granted"}
        BY <2>8, <3>1, <4>1
      <4>2. CASE proc[w] = "exited"
        BY <1>3, <2>6, <2>7, <3>1, <4>2 DEF QueueInv, WaiterAccounted
      <4>3. proc[w] # "idle"
        BY <2>3, <2>6 DEF QueueInv, IdleUnknown, Monitored
      <4> QED BY <2>3, <4>1, <4>2, <4>3 DEF QueueInv, TypeOK, ProcState
    <3>2. CASE q # w
      <4>1. q \in holders /\ q # r /\ q \in Requests
        BY <2>1, <3>2 DEF QueueInv, TypeOK
      <4> QED BY <1>3, <2>8, <3>2, <4>1 DEF QueueInv, SlotAccounted
    <3> QED BY <3>1, <3>2
  <2>16. WaiterAccounted'
    <3> SUFFICES ASSUME NEW q \in Waiting'
                 PROVE  IF proc'[q] = "exited"
                        THEN <<"down", q>> \in Elems(inbox')
                        ELSE q \in timer' \/ <<"timeout", q>> \in Elems(inbox')
      BY DEF WaiterAccounted
    <3>1. q \in Waiting /\ q # w /\ q # r /\ q \in Requests
      BY <2>6, WaitingRequests DEF QueueInv, Apart
    <3> QED BY <1>3, <2>1, <2>8, <3>1 DEF QueueInv, WaiterAccounted
  <2> QED BY <1>2, <2>9, <2>10, <2>11, <2>12, <2>14, <2>15, <2>16 DEF QueueInv
<1> QED BY <1>5, <1>6

\* A message is dropped: nobody it is about was waiting for it.
LEMMA IgnoreKeeps ==
    ASSUME QueueInv, NEW kind \in {"release", "timeout"}, NEW r \in Requests,
           Receive(kind, r), Ignore, UNCHANGED <<running, depthMax>>,
           IF kind = "release" THEN r \notin holders ELSE r \notin Waiting
    PROVE  QueueInv'
<1>1. /\ Consumed(r, Tail(inbox)) /\ inbox' = Tail(inbox)
      /\ UNCHANGED <<holders, inFlight, waiters, timer, proc>>
      /\ Elems(inbox) = {<<kind, r>>} \cup Elems(inbox')
  BY HeadConsumed DEF QueueInv, Ignore
<1>2. inbox' \in Seq(Message) /\ AcquireOnce' /\ \A m \in Elems(inbox') : m \in Elems(inbox)
  BY <1>1, ConsumedKeeps
<1>3. Waiting' = Waiting /\ Monitored' = Monitored
  BY <1>1 DEF Waiting, Monitored
<1>4. TypeOK' /\ Apart' /\ ParkedOnce' /\ SlotsExact' /\ WorkConserving'
  BY <1>1, <1>2, <1>3
     DEF QueueInv, TypeOK, Apart, ParkedOnce, SlotsExact, WorkConserving
<1>5. AcquireFresh' /\ IdleUnknown'
  BY <1>1, <1>2, <1>3 DEF QueueInv, AcquireFresh, IdleUnknown
<1>6. \A q \in Requests : <<"down", q>> \in Elems(inbox) => <<"down", q>> \in Elems(inbox')
  BY <1>1
<1>7. SlotAccounted'
  <2> SUFFICES ASSUME NEW q \in holders
               PROVE  \/ proc[q] = "granted"
                      \/ <<"release", q>> \in Elems(inbox')
                      \/ <<"down", q>> \in Elems(inbox')
    BY <1>1 DEF SlotAccounted
  <2>1. q \in Requests
    BY DEF QueueInv, TypeOK
  <2>2. <<"release", q>> \in Elems(inbox) => <<"release", q>> \in Elems(inbox')
    <3>1. CASE kind = "release"
      <4>1. q # r
        BY <3>1
      <4> QED BY <1>1, <4>1
    <3>2. CASE kind = "timeout"
      BY <1>1, <3>2
    <3> QED BY <3>1, <3>2
  <2> QED BY <1>6, <2>1, <2>2 DEF QueueInv, SlotAccounted
<1>8. WaiterAccounted'
  <2> SUFFICES ASSUME NEW q \in Waiting
               PROVE  IF proc[q] = "exited"
                      THEN <<"down", q>> \in Elems(inbox')
                      ELSE q \in timer \/ <<"timeout", q>> \in Elems(inbox')
    BY <1>1, <1>3 DEF WaiterAccounted
  <2>1. q \in Requests
    BY WaitingRequests DEF QueueInv
  <2>2. <<"timeout", q>> \in Elems(inbox) => <<"timeout", q>> \in Elems(inbox')
    <3>1. CASE kind = "timeout"
      <4>1. q # r
        BY <3>1
      <4> QED BY <1>1, <4>1
    <3>2. CASE kind = "release"
      BY <1>1, <3>2
    <3> QED BY <3>1, <3>2
  <2> QED BY <1>6, <2>1, <2>2 DEF QueueInv, WaiterAccounted
<1> QED BY <1>2, <1>4, <1>5, <1>7, <1>8 DEF QueueInv

\* A waiter is dropped, told or not; so is a 'DOWN' of nobody the server knows.
LEMMA DropKeeps ==
    ASSUME QueueInv, NEW r \in Requests, r \notin holders, NEW rest, Consumed(r, rest),
           inbox' = rest, waiters' = Without(waiters, r),
           UNCHANGED <<holders, inFlight, timer, running, depthMax>>,
           Reply(r, "exited") \/ UNCHANGED proc
    PROVE  QueueInv'
<1>1. inbox' \in Seq(Message) /\ AcquireOnce' /\ \A m \in Elems(inbox') : m \in Elems(inbox)
  BY ConsumedKeeps
<1>2. \A m \in Elems(inbox) : m[2] # r => m \in Elems(inbox')
  BY DEF Consumed
<1>3. waiters \in Seq(Requests) /\ Once(waiters, r)
  BY DEF QueueInv, TypeOK, ParkedOnce
<1>4. /\ waiters' \in Seq(Requests)
      /\ Waiting' \subseteq Waiting /\ r \notin Waiting'
      /\ \A q \in Requests : Once(waiters, q) => Once(waiters', q)
  BY <1>3, WithoutElems DEF Waiting
<1>5. /\ proc' \in [Requests -> ProcState]
      /\ \A q \in Requests : q # r => proc'[q] = proc[q]
      /\ \A q \in Requests : proc'[q] = "idle" => proc[q] = "idle"
  BY ReplyKeeps DEF QueueInv, TypeOK
<1>6. TypeOK'
  BY <1>1, <1>4, <1>5 DEF QueueInv, TypeOK
<1>7. Apart' /\ ParkedOnce' /\ SlotsExact'
  BY <1>4 DEF QueueInv, Apart, ParkedOnce, SlotsExact
<1>8. WorkConserving'
  <2>1. waiters = <<>> => waiters' = <<>>
    BY DEF Without, Elems
  <2> QED BY <2>1 DEF QueueInv, WorkConserving
<1>9. Monitored' \subseteq Monitored
  BY <1>4 DEF Monitored
<1>10. AcquireFresh' /\ IdleUnknown'
  BY <1>1, <1>5, <1>9 DEF QueueInv, AcquireFresh, IdleUnknown
<1>11. SlotAccounted'
  <2> SUFFICES ASSUME NEW q \in holders
               PROVE  \/ proc'[q] = "granted"
                      \/ <<"release", q>> \in Elems(inbox')
                      \/ <<"down", q>> \in Elems(inbox')
    BY DEF SlotAccounted
  <2>1. q # r /\ q \in Requests
    BY DEF QueueInv, TypeOK
  <2> QED BY <1>2, <1>5, <2>1 DEF QueueInv, SlotAccounted
<1>12. WaiterAccounted'
  <2> SUFFICES ASSUME NEW q \in Waiting'
               PROVE  IF proc'[q] = "exited"
                      THEN <<"down", q>> \in Elems(inbox')
                      ELSE q \in timer \/ <<"timeout", q>> \in Elems(inbox')
    BY DEF WaiterAccounted
  <2>1. q \in Waiting /\ q # r /\ q \in Requests
    BY <1>4, WaitingRequests DEF QueueInv
  <2> QED BY <1>2, <1>5, <2>1 DEF QueueInv, WaiterAccounted
<1> QED BY <1>1, <1>6, <1>7, <1>8, <1>10, <1>11, <1>12 DEF QueueInv

\* The mailbox after an acquire has been handled: r is watched from now on.
LEMMA AcquireHandled ==
    ASSUME QueueInv, NEW r \in Requests, Receive("acquire", r),
           NEW watch \in {<<>>, Monitor(r)}, inbox' = Tail(inbox) \o watch
    PROVE  /\ inbox' \in Seq(Message)
           /\ AcquireOnce'
           /\ \A m \in Elems(inbox) : m[2] # r => m \in Elems(inbox')
           /\ \A m \in Elems(inbox') : m \in Elems(inbox) \/ m = <<"down", r>>
           /\ <<"acquire", r>> \notin Elems(inbox')
           /\ proc[r] = "exited" /\ watch = Monitor(r) => <<"down", r>> \in Elems(inbox')
           /\ proc[r] # "idle" /\ r \notin Monitored
<1>1. /\ Consumed(r, Tail(inbox))
      /\ Elems(inbox) = {<<"acquire", r>>} \cup Elems(Tail(inbox))
      /\ <<"acquire", r>> \notin Elems(Tail(inbox))
  BY HeadConsumed DEF QueueInv, AcquireOnce
<1>2. << <<"down", r>> >> \in Seq(Message) /\ Elems(<< <<"down", r>> >>) = {<<"down", r>>}
  BY MessageOne DEF Kind, QueueInv, TypeOK
<1>3. <<>> \in Seq(Message) /\ Elems(<<>>) = {}
  BY DEF Elems
<1>4. watch \in Seq(Message) /\ Elems(watch) \subseteq {<<"down", r>>}
      /\ (proc[r] = "exited" /\ watch = Monitor(r) => <<"down", r>> \in Elems(watch))
  BY <1>2, <1>3 DEF Monitor
<1>5. inbox' \in Seq(Message) /\ Elems(inbox') = Elems(Tail(inbox)) \cup Elems(watch)
  <2>1. Tail(inbox) \in Seq(Message)
    BY <1>1 DEF Consumed
  <2>2. /\ Tail(inbox) \o watch \in Seq(Message)
        /\ Elems(Tail(inbox) \o watch) = Elems(Tail(inbox)) \cup Elems(watch)
    BY ZenonT(40), <1>4, <2>1, ConcatElems
  <2> QED BY <2>2
<1>6. AcquireOnce'
  <2> SUFFICES ASSUME NEW q \in Requests PROVE Once(inbox', <<"acquire", q>>)
    BY DEF AcquireOnce
  <2>1. Once(Tail(inbox), <<"acquire", q>>) /\ Tail(inbox) \in Seq(Message)
    BY <1>1 DEF QueueInv, AcquireOnce, Consumed
  <2>2. <<"acquire", q>> \notin Elems(watch)
    BY <1>4
  <2> QED BY <1>4, <2>1, <2>2, OnceConcat
<1>7. \A m \in Elems(inbox) : m[2] # r => m \in Elems(inbox')
  BY <1>1, <1>5 DEF Consumed
<1>8. \A m \in Elems(inbox') : m \in Elems(inbox) \/ m = <<"down", r>>
  BY <1>1, <1>4, <1>5
<1>9. <<"acquire", r>> \notin Elems(inbox')
  <2>1. <<"acquire", r>> # <<"down", r>>
    OBVIOUS
  <2> QED BY <1>1, <1>4, <1>5, <2>1
<1>10. proc[r] # "idle" /\ r \notin Monitored
  BY <1>1 DEF QueueInv, IdleUnknown, AcquireFresh
<1> QED BY <1>4, <1>5, <1>6, <1>7, <1>8, <1>9, <1>10

\* The conjuncts that depend on r only through the mailbox and the processes
LEMMA AcquireKeeps ==
    ASSUME QueueInv, NEW r \in Requests, Receive("acquire", r),
           NEW watch \in {<<>>, Monitor(r)}, inbox' = Tail(inbox) \o watch,
           Monitored' \subseteq Monitored \cup {r},
           timer' \subseteq timer \cup {r}, UNCHANGED <<running, depthMax>>,
           UNCHANGED proc \/ Reply(r, "granted") \/ Reply(r, "exited")
    PROVE  /\ proc' \in [Requests -> ProcState]
           /\ \A q \in Requests : q # r => proc'[q] = proc[q]
           /\ AcquireFresh'
           /\ IdleUnknown'
<1>1. /\ proc' \in [Requests -> ProcState]
      /\ \A q \in Requests : q # r => proc'[q] = proc[q]
      /\ \A q \in Requests : proc'[q] = "idle" => proc[q] = "idle"
  BY ReplyKeeps DEF QueueInv, TypeOK
<1>2. AcquireFresh'
  <2> SUFFICES ASSUME NEW q \in Requests, <<"acquire", q>> \in Elems(inbox')
               PROVE  q \notin Monitored'
    BY DEF AcquireFresh
  <2>1. q # r
    BY AcquireHandled
  <2>2. <<"acquire", q>> \in Elems(inbox)
    <3>1. <<"acquire", q>> # <<"down", r>>
      OBVIOUS
    <3> QED BY <3>1, AcquireHandled
  <2> QED BY <2>1, <2>2 DEF QueueInv, AcquireFresh
<1>3. IdleUnknown'
  <2> SUFFICES ASSUME NEW q \in Requests, proc'[q] = "idle"
               PROVE  /\ q \notin Monitored' \cup timer' \cup running
                      /\ \A m \in Elems(inbox') : m[2] # q
    BY DEF IdleUnknown
  <2>1. proc[q] = "idle" /\ q # r
    BY <1>1, AcquireHandled
  <2>2. \A m \in Elems(inbox') : m \in Elems(inbox) \/ m = <<"down", r>>
    BY AcquireHandled
  <2> QED BY <2>1, <2>2 DEF QueueInv, IdleUnknown
<1> QED BY <1>1, <1>2, <1>3

LEMMA GrantKeeps == ASSUME QueueInv, NEW r \in Requests, Grant(r) PROVE QueueInv'
<1>1. /\ Receive("acquire", r) /\ inbox' = Tail(inbox) \o Monitor(r)
      /\ holders' = holders \cup {r} /\ inFlight' = inFlight + 1 /\ inFlight < Concurrency
      /\ UNCHANGED <<waiters, timer, running, depthMax>> /\ Reply(r, "granted")
  BY DEF Grant
<1>2. Waiting' = Waiting /\ Monitored' = Monitored \cup {r}
  BY <1>1 DEF Waiting, Monitored
<1>3. proc' \in [Requests -> ProcState] /\ (\A q \in Requests : q # r => proc'[q] = proc[q])
      /\ AcquireFresh' /\ IdleUnknown'
  BY <1>1, <1>2, AcquireKeeps
<1>4. /\ inbox' \in Seq(Message) /\ AcquireOnce'
      /\ \A m \in Elems(inbox) : m[2] # r => m \in Elems(inbox')
      /\ proc[r] = "exited" => <<"down", r>> \in Elems(inbox')
      /\ proc[r] # "idle" /\ r \notin Monitored
  BY <1>1, AcquireHandled
<1>5. TypeOK'
  BY <1>1, <1>3, <1>4 DEF QueueInv, TypeOK
<1>6. SlotsExact'
  <2>1. Cardinality(holders \cup {r}) = Cardinality(holders) + 1
    BY <1>4, HoldersFinite, FS_AddElement DEF QueueInv, Monitored
  <2> QED BY <1>1, <2>1, QueueAssumption DEF QueueInv, TypeOK, SlotsExact
<1>7. waiters = <<>>
  BY <1>1, QueueAssumption DEF QueueInv, TypeOK, WorkConserving
<1>8. Waiting = {}
  BY <1>7 DEF Waiting, Elems
<1>9. WorkConserving' /\ Apart' /\ ParkedOnce' /\ WaiterAccounted'
  BY <1>1, <1>2, <1>7, <1>8
     DEF QueueInv, WorkConserving, Apart, ParkedOnce, WaiterAccounted
<1>10. SlotAccounted'
  <2> SUFFICES ASSUME NEW q \in holders'
               PROVE  \/ proc'[q] = "granted"
                      \/ <<"release", q>> \in Elems(inbox')
                      \/ <<"down", q>> \in Elems(inbox')
    BY DEF SlotAccounted
  <2>1. CASE q = r
    BY <1>1, <1>4, <2>1, ReplyKeeps DEF QueueInv, TypeOK, ProcState
  <2>2. CASE q # r
    BY <1>1, <1>3, <1>4, <2>2 DEF QueueInv, TypeOK, SlotAccounted
  <2> QED BY <2>1, <2>2
<1> QED BY <1>3, <1>4, <1>5, <1>6, <1>9, <1>10 DEF QueueInv

LEMMA RefuseKeeps == ASSUME QueueInv, NEW r \in Requests, Refuse(r) PROVE QueueInv'
<1>1. /\ Receive("acquire", r) /\ inbox' = Tail(inbox)
      /\ UNCHANGED <<holders, inFlight, waiters, timer, running, depthMax>> /\ Reply(r, "exited")
  BY DEF Refuse
<1>2. Tail(inbox) = Tail(inbox) \o <<>>
  BY <1>1, HeadConsumed DEF QueueInv, Consumed
<1>3. Waiting' = Waiting /\ Monitored' = Monitored
  BY <1>1 DEF Waiting, Monitored
<1>4. proc' \in [Requests -> ProcState] /\ (\A q \in Requests : q # r => proc'[q] = proc[q])
      /\ AcquireFresh' /\ IdleUnknown'
  BY <1>1, <1>2, <1>3, AcquireKeeps
<1>5. /\ inbox' \in Seq(Message) /\ AcquireOnce' /\ r \notin Monitored
      /\ \A m \in Elems(inbox) : m[2] # r => m \in Elems(inbox')
  BY <1>1, <1>2, AcquireHandled
<1>6. TypeOK' /\ Apart' /\ ParkedOnce' /\ SlotsExact' /\ WorkConserving'
  BY <1>1, <1>3, <1>4, <1>5
     DEF QueueInv, TypeOK, Apart, ParkedOnce, SlotsExact, WorkConserving
<1>7. SlotAccounted'
  BY <1>1, <1>4, <1>5 DEF QueueInv, TypeOK, SlotAccounted, Monitored
<1>8. WaiterAccounted'
  BY <1>1, <1>3, <1>4, <1>5, WaitingRequests DEF QueueInv, WaiterAccounted, Monitored
<1> QED BY <1>4, <1>5, <1>6, <1>7, <1>8 DEF QueueInv

LEMMA ParkKeeps == ASSUME QueueInv, NEW r \in Requests, Park(r) PROVE QueueInv'
<1>1. /\ Receive("acquire", r) /\ inbox' = Tail(inbox) \o Monitor(r)
      /\ waiters' = Append(waiters, r) /\ timer' = timer \cup {r}
      /\ UNCHANGED <<holders, inFlight, proc, running, depthMax>> /\ inFlight >= Concurrency
  BY DEF Park
<1>2. waiters \in Seq(Requests)
  BY DEF QueueInv, TypeOK
<1>3. waiters' \in Seq(Requests) /\ Waiting' = Waiting \cup {r}
  BY <1>1, <1>2, AppendElems DEF Waiting
<1>4. Monitored' = Monitored \cup {r}
  BY <1>1, <1>3 DEF Monitored
<1>5. AcquireFresh' /\ IdleUnknown'
  BY <1>1, <1>4, AcquireKeeps
<1>6. /\ inbox' \in Seq(Message) /\ AcquireOnce' /\ r \notin Monitored
      /\ \A m \in Elems(inbox) : m[2] # r => m \in Elems(inbox')
      /\ proc[r] = "exited" => <<"down", r>> \in Elems(inbox')
  BY <1>1, AcquireHandled
<1>7. TypeOK' /\ Apart' /\ SlotsExact'
  BY <1>1, <1>3, <1>6 DEF QueueInv, TypeOK, Apart, SlotsExact, Monitored
<1>8. WorkConserving'
  BY <1>1, QueueAssumption DEF QueueInv, TypeOK, SlotsExact, WorkConserving
<1>9. ParkedOnce'
  <2> SUFFICES ASSUME NEW q \in Requests PROVE Once(waiters', q)
    BY DEF ParkedOnce
  <2>1. r = q => q \notin Elems(waiters)
    BY <1>6 DEF Monitored, Waiting
  <2> QED BY <1>1, <1>2, <2>1, OnceAppend DEF QueueInv, ParkedOnce
<1>10. SlotAccounted'
  BY <1>1, <1>6 DEF QueueInv, TypeOK, SlotAccounted, Monitored
<1>11. WaiterAccounted'
  <2> SUFFICES ASSUME NEW q \in Waiting'
               PROVE  IF proc[q] = "exited"
                      THEN <<"down", q>> \in Elems(inbox')
                      ELSE q \in timer' \/ <<"timeout", q>> \in Elems(inbox')
    BY <1>1 DEF WaiterAccounted
  <2>1. CASE q = r
    BY <1>1, <1>6, <2>1
  <2>2. CASE q # r
    BY <1>1, <1>3, <1>6, <2>2, WaitingRequests DEF QueueInv, WaiterAccounted
  <2> QED BY <2>1, <2>2
<1> QED BY <1>5, <1>6, <1>7, <1>8, <1>9, <1>10, <1>11 DEF QueueInv

LEMMA ServerKeeps == ASSUME QueueInv, ServerStep PROVE QueueInv'
<1>1. PICK r \in Requests :
          Grant(r) \/ Refuse(r) \/ Park(r) \/ Release(r) \/ Down(r) \/ WaiterTimeout(r)
  BY DEF ServerStep
<1>2. CASE Grant(r)
  BY <1>2, GrantKeeps
<1>3. CASE Refuse(r)
  BY <1>3, RefuseKeeps
<1>4. CASE Park(r)
  BY <1>4, ParkKeeps
<1>5. CASE Release(r)
  <2>1. CASE r \in holders
    <3>1. Consumed(r, Flushed(r)) /\ Free(r, Flushed(r)) /\ UNCHANGED <<running, depthMax>>
      BY <1>5, <2>1, FlushConsumed DEF Release, QueueInv
    <3> QED BY <2>1, <3>1, FreeKeeps
  <2>2. CASE r \notin holders
    BY <1>5, <2>2, IgnoreKeeps DEF Release
  <2> QED BY <2>1, <2>2
<1>6. CASE Down(r)
  <2>1. Consumed(r, Tail(inbox))
    BY <1>6, HeadConsumed DEF Down, QueueInv
  <2>2. CASE r \in holders
    BY <1>6, <2>1, <2>2, FreeKeeps DEF Down
  <2>3. CASE r \notin holders
    BY <1>6, <2>1, <2>3, DropKeeps DEF Down
  <2> QED BY <2>2, <2>3
<1>7. CASE WaiterTimeout(r)
  <2>1. CASE r \in Waiting
    <3>1. r \notin holders /\ Consumed(r, Flushed(r))
      BY <1>7, <2>1, FlushConsumed DEF WaiterTimeout, QueueInv, Apart
    <3> QED BY <1>7, <2>1, <3>1, DropKeeps DEF WaiterTimeout
  <2>2. CASE r \notin Waiting
    BY <1>7, <2>2, IgnoreKeeps DEF WaiterTimeout
  <2> QED BY <2>1, <2>2
<1> QED BY <1>1, <1>2, <1>3, <1>4, <1>5, <1>6, <1>7

LEMMA StutterKeeps == QueueInv /\ UNCHANGED vars => QueueInv'
BY DEF vars, QueueInv, TypeOK, Apart, ParkedOnce, AcquireFresh, AcquireOnce, IdleUnknown,
       SlotsExact, WorkConserving, SlotAccounted, WaiterAccounted, Monitored, Waiting

--------------------------------------------------------------------------------
(***************************************************************************)
(* Who is let in keeps the slot.  A release or a 'DOWN' is in the mailbox  *)
(* only after the process of the request has exited, and the place of that *)
(* process is taken by nobody before the message has been handled.         *)
(***************************************************************************)
LeaversGone ==
    \A r \in Requests :
        <<"release", r>> \in Elems(inbox) \/ <<"down", r>> \in Elems(inbox) => proc[r] = "exited"

RunnersKnown ==
    \A r \in running : proc[r] = IF r \in Pipelined THEN "exited" ELSE "granted"

HoldInv == LeaversGone /\ RunnersKnown /\ GrantedHold

\* What a step of r's process does to the things HoldInv speaks of
CallerMoves(r) ==
    /\ holders' = holders
    /\ \A q \in Requests : q # r => proc'[q] = proc[q]
    /\ \A m \in Elems(inbox') : m \in Elems(inbox) \/ m[2] = r
    /\ <<"release", r>> \in Elems(inbox') \/ <<"down", r>> \in Elems(inbox') => proc'[r] = "exited"
    /\ proc'[r] = "granted" => proc[r] = "granted"
    /\ running' \subseteq running \cup {r}
    /\ r \in running' => proc'[r] = IF r \in Pipelined THEN "exited" ELSE "granted"

LEMMA CallerMovesHold ==
    ASSUME QueueInv, HoldInv, NEW r \in Requests, CallerMoves(r), TypeOK'
    PROVE  HoldInv'
<1>1. LeaversGone'
  <2> SUFFICES ASSUME NEW q \in Requests,
                      <<"release", q>> \in Elems(inbox') \/ <<"down", q>> \in Elems(inbox')
               PROVE  proc'[q] = "exited"
    BY DEF LeaversGone
  <2>1. CASE q = r
    BY <2>1 DEF CallerMoves
  <2>2. CASE q # r
    BY <2>2 DEF CallerMoves, HoldInv, LeaversGone
  <2> QED BY <2>1, <2>2
<1>2. RunnersKnown'
  BY DEF CallerMoves, HoldInv, RunnersKnown, TypeOK
<1>3. GrantedHold'
  BY DEF CallerMoves, HoldInv, GrantedHold
<1> QED BY <1>1, <1>2, <1>3 DEF HoldInv

\* The messages of a process that ends
LEMMA FarewellMoves ==
    ASSUME QueueInv, NEW r \in Requests, NEW sent \in {<<>>, << <<"release", r>> >>},
           inbox' = Exit(r, sent)
    PROVE  \A m \in Elems(inbox') : m \in Elems(inbox) \/ m[2] = r
<1>1. /\ Farewell(r, sent) \in Seq(Message)
      /\ Exit(r, sent) = inbox \o Farewell(r, sent)
      /\ \A m \in Elems(Farewell(r, sent)) : m[2] = r
  BY FarewellMessages
<1>2. Elems(inbox \o Farewell(r, sent)) = Elems(inbox) \cup Elems(Farewell(r, sent))
  BY <1>1, ConcatElems DEF QueueInv, TypeOK
<1> QED BY <1>1, <1>2

\* A message that is appended
LEMMA MessageMoves ==
    ASSUME QueueInv, NEW r \in Requests, NEW kind \in Kind,
           inbox' = Append(inbox, <<kind, r>>)
    PROVE  Elems(inbox') = Elems(inbox) \cup {<<kind, r>>}
<1>1. <<kind, r>> \in Message
  BY DEF Message
<1> HIDE DEF Kind
<1> QED BY <1>1, AppendMessage DEF QueueInv, TypeOK

LEMMA CallerHolds ==
    ASSUME QueueInv, HoldInv, NEW r \in Requests, CallerStep(r) \/ TimerFires(r), TypeOK'
    PROVE  HoldInv'
<1> USE DEF CallerMoves
<1>1. proc \in [Requests -> ProcState] /\ r \in DOMAIN proc
  BY DEF QueueInv, TypeOK
<1>2. r \in running => proc[r] = IF r \in Pipelined THEN "exited" ELSE "granted"
  BY DEF HoldInv, RunnersKnown
<1>3. <<"release", r>> \in Elems(inbox) \/ <<"down", r>> \in Elems(inbox) => proc[r] = "exited"
  BY DEF HoldInv, LeaversGone
<1>4. CASE Call(r)
  <2>1. Elems(inbox') = Elems(inbox) \cup {<<"acquire", r>>}
    BY <1>4, MessageMoves DEF Call, Kind
  <2>2. r \notin running
    BY <1>4 DEF Call, QueueInv, IdleUnknown
  <2>3. CallerMoves(r)
    BY <1>1, <1>3, <1>4, <2>1, <2>2 DEF Call
  <2> QED BY <2>3, CallerMovesHold
<1>5. CASE GiveUp(r)
  <2>1. CallerMoves(r)
    BY <1>1, <1>5, FarewellMoves DEF GiveUp
  <2> QED BY <2>1, CallerMovesHold
<1>6. CASE AdmitFails(r)
  <2>1. CallerMoves(r)
    BY <1>1, <1>2, <1>6, FarewellMoves DEF AdmitFails
  <2> QED BY <2>1, CallerMovesHold
<1>7. CASE Admit(r)
  <2>1. CallerMoves(r)
    BY <1>1, <1>3, <1>7, FarewellMoves DEF Admit
  <2> QED BY <2>1, CallerMovesHold
<1>8. CASE Finish(r)
  <2>1. CASE r \in Pipelined
    <3>1. Elems(inbox') = Elems(inbox) \cup {<<"release", r>>}
      BY <1>8, <2>1, MessageMoves DEF Finish, Kind
    <3>2. CallerMoves(r)
      BY <1>1, <1>2, <1>8, <2>1, <3>1 DEF Finish
    <3> QED BY <3>2, CallerMovesHold
  <2>2. CASE r \notin Pipelined
    <3>1. CallerMoves(r)
      BY <1>1, <1>8, <2>2, FarewellMoves DEF Finish
    <3> QED BY <3>1, CallerMovesHold
  <2> QED BY <2>1, <2>2
<1>9. CASE HandlerKilled(r)
  <2>1. CallerMoves(r)
    BY <1>1, <1>3, <1>9, FarewellMoves DEF HandlerKilled
  <2> QED BY <2>1, CallerMovesHold
<1>10. CASE Recycle(r)
  <2>1. r \notin running /\ \A m \in Elems(inbox) : m[2] # r
    BY <1>10 DEF Recycle, Forgotten, Elems
  <2>2. CallerMoves(r)
    BY <1>1, <1>10, <2>1 DEF Recycle
  <2> QED BY <2>2, CallerMovesHold
<1>11. CASE TimerFires(r)
  <2>1. Elems(inbox') = Elems(inbox) \cup {<<"timeout", r>>}
    BY <1>11, MessageMoves DEF TimerFires, Kind
  <2>2. CallerMoves(r)
    BY <1>2, <1>3, <1>11, <2>1 DEF TimerFires
  <2> QED BY <2>2, CallerMovesHold
<1> QED BY <1>4, <1>5, <1>6, <1>7, <1>8, <1>9, <1>10, <1>11 DEF CallerStep

\* The server sends nothing but the 'DOWN' of a process that is gone, answers
\* only who calls, grants with a slot, and takes the slot only of who leaves.
ServerMoves ==
    /\ \A q \in Requests :
           /\ <<"release", q>> \in Elems(inbox') => <<"release", q>> \in Elems(inbox)
           /\ <<"down", q>> \in Elems(inbox') =>
                  <<"down", q>> \in Elems(inbox) \/ proc[q] = "exited"
           /\ proc'[q] # proc[q] => /\ proc[q] = "calling"
                                    /\ proc'[q] = "granted" => q \in holders'
           /\ q \in holders /\ q \notin holders' => proc[q] = "exited"
    /\ running' = running

LEMMA ServerMovesHold ==
    ASSUME QueueInv, HoldInv, ServerMoves PROVE HoldInv'
<1> running \subseteq Requests
  BY DEF QueueInv, TypeOK
<1>1. LeaversGone'
  BY DEF ServerMoves, HoldInv, LeaversGone
<1>2. RunnersKnown'
  BY DEF ServerMoves, HoldInv, RunnersKnown
<1>3. GrantedHold'
  BY DEF ServerMoves, HoldInv, GrantedHold
<1> QED BY <1>1, <1>2, <1>3 DEF HoldInv

LEMMA ReplyMoves ==
    ASSUME QueueInv, NEW r \in Requests, NEW state \in {"granted", "exited"}, Reply(r, state)
    PROVE  \A q \in Requests : proc'[q] # proc[q] => q = r /\ proc[q] = "calling"
BY DEF QueueInv, TypeOK, Reply

LEMMA FreeMoves ==
    ASSUME QueueInv, NEW r \in Requests, NEW rest, Free(r, rest), Elems(rest) \subseteq Elems(inbox),
           proc[r] = "exited", running' = running
    PROVE  ServerMoves
<1>1. CASE waiters = <<>>
  BY <1>1 DEF Free, ServerMoves
<1>2. CASE waiters # <<>>
  <2> DEFINE w == Head(waiters)
  <2>1. w \in Requests
    BY <1>2 DEF QueueInv, TypeOK
  <2>2. /\ holders' = (holders \ {r}) \cup {w} /\ inbox' = rest /\ Reply(w, "granted")
    BY <1>2 DEF Free
  <2> HIDE DEF w
  <2> QED BY <2>1, <2>2, ReplyMoves DEF ServerMoves
<1> QED BY <1>1, <1>2

LEMMA ServerHolds == ASSUME QueueInv, HoldInv, ServerStep PROVE HoldInv'
<1>1. PICK r \in Requests :
          Grant(r) \/ Refuse(r) \/ Park(r) \/ Release(r) \/ Down(r) \/ WaiterTimeout(r)
  BY DEF ServerStep
<1>2. ASSUME NEW kind, Receive(kind, r), kind \in {"release", "down"} PROVE proc[r] = "exited"
  BY ZenonT(40), <1>2, HeadConsumed DEF QueueInv, HoldInv, LeaversGone
<1>3. ASSUME NEW kind, Receive(kind, r)
      PROVE  /\ Elems(Tail(inbox)) \subseteq Elems(inbox)
             /\ Elems(Flushed(r)) \subseteq Elems(inbox)
  BY <1>3, HeadConsumed, FlushConsumed DEF QueueInv, Consumed
<1>4. CASE Grant(r) \/ Park(r)
  <2>1. Receive("acquire", r) /\ inbox' = Tail(inbox) \o Monitor(r) /\ running' = running
    BY <1>4 DEF Grant, Park
  <2>2. \A m \in Elems(inbox') : m \in Elems(inbox) \/ (m = <<"down", r>> /\ Monitor(r) # <<>>)
    <3>1. CASE Monitor(r) = <<>>
      <4>1. inbox' = Tail(inbox)
        BY <2>1, <3>1, HeadConsumed DEF QueueInv, Consumed
      <4> QED BY <1>3, <2>1, <4>1
    <3>2. CASE Monitor(r) # <<>>
      BY <2>1, <3>2, AcquireHandled
    <3> QED BY <3>1, <3>2
  <2>3. /\ \A q \in Requests : proc'[q] # proc[q] => q = r /\ proc[q] = "calling"
        /\ holders \subseteq holders'
        /\ proc' # proc => r \in holders'
    BY <1>4, ReplyMoves DEF Grant, Park
  <2>4. Monitor(r) # <<>> => proc[r] = "exited"
    BY DEF Monitor
  <2>5. ASSUME NEW q \in Requests
        PROVE  /\ <<"release", q>> \in Elems(inbox') => <<"release", q>> \in Elems(inbox)
               /\ <<"down", q>> \in Elems(inbox') =>
                      <<"down", q>> \in Elems(inbox) \/ proc[q] = "exited"
    <3>1. <<"release", q>> # <<"down", r>> /\ (<<"down", q>> = <<"down", r>> => q = r)
      OBVIOUS
    <3> QED BY <2>2, <2>4, <3>1
  <2> QED BY <2>1, <2>3, <2>5, ServerMovesHold DEF ServerMoves
<1>5. CASE Refuse(r)
  <2>1. proc'[r] # proc[r] => proc'[r] = "exited"
    BY <1>5, ReplyKeeps DEF Refuse
  <2>2. ServerMoves
    BY <1>3, <1>5, <2>1, ReplyMoves DEF Refuse, ServerMoves
  <2> QED BY <2>2, ServerMovesHold
<1>6. CASE Release(r)
  <2>1. CASE r \in holders
    BY <1>2, <1>3, <1>6, <2>1, FreeMoves, ServerMovesHold DEF Release
  <2>2. CASE r \notin holders
    BY <1>3, <1>6, <2>2, ServerMovesHold DEF Release, Ignore, ServerMoves
  <2> QED BY <2>1, <2>2
<1>7. CASE Down(r)
  <2>1. CASE r \in holders
    BY <1>2, <1>3, <1>7, <2>1, FreeMoves, ServerMovesHold DEF Down
  <2>2. CASE r \notin holders
    BY <1>3, <1>7, <2>2, ServerMovesHold DEF Down, ServerMoves
  <2> QED BY <2>1, <2>2
<1>8. CASE WaiterTimeout(r)
  <2>1. CASE r \in Waiting
    <3>1. /\ inbox' = Flushed(r) /\ Reply(r, "exited")
          /\ UNCHANGED <<holders, running>>
      BY <1>8, <2>1 DEF WaiterTimeout
    <3>2. proc'[r] # proc[r] => proc'[r] = "exited"
      BY <3>1, ReplyKeeps
    <3> QED BY <1>3, <1>8, <3>1, <3>2, ReplyMoves, ServerMovesHold
            DEF WaiterTimeout, ServerMoves
  <2>2. CASE r \notin Waiting
    BY <1>3, <1>8, <2>2, ServerMovesHold DEF WaiterTimeout, Ignore, ServerMoves
  <2> QED BY <2>1, <2>2
<1> QED BY <1>1, <1>4, <1>5, <1>6, <1>7, <1>8

--------------------------------------------------------------------------------
\* The invariant holds in every reachable state.
THEOREM QueueInvariant == Spec => []QueueInv
<1>1. QueueInv /\ [Next]_vars => QueueInv'
  BY ServerKeeps, CallerKeeps, StutterKeeps DEF Next
<1> QED BY Start, <1>1, PTL DEF Spec

(***************************************************************************)
(* The variables of the queue, its callers and its mailbox keep their      *)
(* types.                                                                  *)
(***************************************************************************)
THEOREM TypeCorrect == Spec => []TypeOK
BY QueueInvariant, PTL DEF QueueInv

\* The server's count of taken slots is exact and within the configured ones.
THEOREM SlotsAreExact == Spec => []SlotsExact
BY QueueInvariant, PTL DEF QueueInv

\* Nobody is parked while a slot is free.
THEOREM QueueConservesWork == Spec => []WorkConserving
BY QueueInvariant, PTL DEF QueueInv

\* Who is let in keeps its slot until its own process is gone.
THEOREM HoldInvariant == Spec => []HoldInv
<1>1. Init => HoldInv
  <2>1. Init => Elems(inbox) = {}
    BY DEF Init, Elems
  <2> QED BY <2>1 DEF Init, HoldInv, LeaversGone, RunnersKnown, GrantedHold
<1>2. QueueInv /\ QueueInv' /\ HoldInv /\ [Next]_vars => HoldInv'
  <2>1. ASSUME QueueInv, QueueInv', HoldInv, Next PROVE HoldInv'
    BY <2>1, CallerHolds, ServerHolds DEF Next, QueueInv
  <2>2. HoldInv /\ UNCHANGED vars => HoldInv'
    BY DEF vars, HoldInv, LeaversGone, RunnersKnown, GrantedHold
  <2> QED BY <2>1, <2>2
<1> QED BY QueueInvariant, <1>1, <1>2, PTL DEF Spec

(***************************************************************************)
(* The server and its callers agree: every slot is held by a process that  *)
(* can release it, or is about to be freed; a parked caller is about to be *)
(* dropped if it is gone and has a timer if it is not; and a caller that   *)
(* was let in keeps its slot.                                              *)
(***************************************************************************)
THEOREM CallersAreAccounted == Spec => []CallersAccounted
BY QueueInvariant, HoldInvariant, PTL DEF QueueInv, HoldInv, CallersAccounted

--------------------------------------------------------------------------------
(***************************************************************************)
(* The queue is a pool of slots with a line.  Acquire takes a slot or      *)
(* joins the line; a release, a 'DOWN' or a timeout lets somebody leave;   *)
(* everything else, the refusals included, changes nothing in the pool.    *)
(***************************************************************************)
LEMMA WithoutLeaves ==
    ASSUME QueueInv, NEW e, waiters' = Without(waiters, e), UNCHANGED <<holders, depthMax>>
    PROVE  (\E i \in DOMAIN waiters : Pool!Leave(i)) \/ waiters' = waiters
<1>1. CASE e \notin Elems(waiters)
  BY <1>1 DEF Without
<1>2. CASE e \in Elems(waiters)
  <2> DEFINE i == CHOOSE i \in DOMAIN waiters : waiters[i] = e
  <2>1. i \in DOMAIN waiters
    BY <1>2 DEF Elems
  <2>2. waiters' = WithoutAt(waiters, i)
    BY <1>2 DEF Without
  <2> HIDE DEF i
  <2>3. Pool!Leave(i)
    BY <2>2 DEF Pool!Leave, WithoutAt
  <2> QED BY <2>1, <2>3
<1> QED BY <1>1, <1>2

LEMMA FreePools ==
    ASSUME NEW r \in holders, NEW rest, Free(r, rest), UNCHANGED depthMax
    PROVE  Pool!GiveBack(r) \/ Pool!HandOver(r)
BY DEF Free, Pool!GiveBack, Pool!HandOver

LEMMA ServerPools ==
    ASSUME QueueInv, ServerStep PROVE [Pool!PoolNext]_<<holders, waiters, depthMax>>
<1> SUFFICES Pool!PoolNext \/ UNCHANGED <<holders, waiters, depthMax>>
  OBVIOUS
<1>0. Pool!Cardinality(holders) = Cardinality(holders)
  BY DEF Pool!Cardinality, Cardinality
<1>1. PICK r \in Requests :
          Grant(r) \/ Refuse(r) \/ Park(r) \/ Release(r) \/ Down(r) \/ WaiterTimeout(r)
  BY DEF ServerStep
<1>2. holders \subseteq Requests /\ inFlight = Cardinality(holders) /\ inFlight <= Concurrency
      /\ inFlight \in Nat /\ Concurrency \in Nat
  BY QueueAssumption DEF QueueInv, TypeOK, SlotsExact
<1>3. ASSUME Receive("acquire", r) PROVE r \notin holders \cup Pool!InLine
  <2>1. r \notin Monitored
    BY <1>3, HeadConsumed DEF QueueInv, AcquireFresh
  <2> QED BY <2>1 DEF Monitored, Waiting, Elems, Pool!InLine
<1>4. CASE Grant(r)
  <2>1. waiters = <<>>
    BY <1>2, <1>4 DEF Grant, QueueInv, WorkConserving
  <2>2. Pool!Take(r)
    BY <1>0, <1>2, <1>3, <1>4, <2>1 DEF Grant, Pool!Take
  <2> QED BY <2>2 DEF Pool!PoolNext
<1>5. CASE Refuse(r)
  BY <1>5 DEF Refuse
<1>6. CASE Park(r)
  <2>1. Pool!Enqueue(r)
    BY <1>0, <1>2, <1>3, <1>6 DEF Park, Pool!Enqueue
  <2> QED BY <2>1 DEF Pool!PoolNext
<1>7. CASE Release(r)
  BY <1>2, <1>7, FreePools DEF Release, Ignore, Pool!PoolNext
<1>8. CASE Down(r)
  <2>1. CASE r \in holders
    BY <1>2, <1>8, <2>1, FreePools DEF Down, Pool!PoolNext
  <2>2. CASE r \notin holders
    BY <1>8, <2>2, WithoutLeaves DEF Down, Pool!PoolNext
  <2> QED BY <2>1, <2>2
<1>9. CASE WaiterTimeout(r)
  BY <1>9, WithoutLeaves DEF WaiterTimeout, Ignore, Pool!PoolNext
<1> QED BY <1>1, <1>4, <1>5, <1>6, <1>7, <1>8, <1>9

(***************************************************************************)
(* The queue implements the pool for any callers, slots and places: never  *)
(* more slots in use than there are, none free beside a waiting caller,    *)
(* nobody overtakes, and who gives up leaves the others in their order.    *)
(***************************************************************************)
THEOREM PoolImplemented == Spec => ImplementsPool
<1>1. Init => Pool!PoolInit
  BY DEF Init, Pool!PoolInit
<1>2. QueueInv /\ [Next]_vars => [Pool!PoolNext]_<<holders, waiters, depthMax>>
  <2>1. ASSUME NEW r \in Requests, CallerStep(r) \/ TimerFires(r)
        PROVE  UNCHANGED <<holders, waiters, depthMax>>
    BY <2>1 DEF CallerStep, TimerFires, Call, GiveUp, AdmitFails, Admit, Finish,
                HandlerKilled, Recycle
  <2>2. UNCHANGED vars => UNCHANGED <<holders, waiters, depthMax>>
    BY DEF vars
  <2> QED BY <2>1, <2>2, ServerPools DEF Next
<1> QED BY QueueInvariant, <1>1, <1>2, PTL
        DEF Spec, ImplementsPool, Pool!PoolSpec, Pool!poolVars
================================================================================
