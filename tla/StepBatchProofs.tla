---------------------------- MODULE StepBatchProofs ----------------------------
(***************************************************************************)
(* Theorems about StepBatch, for any number of sequences, budget and       *)
(* chunk.                                                                  *)
(***************************************************************************)
EXTENDS StepBatch, FiniteSetTheorems, WellFoundedInduction, TLAPS

(***************************************************************************)
(* A request that is prefilled is short of the end of its prompt, the      *)
(* boundaries that are left lie ahead, and a decoder has room for a token. *)
(***************************************************************************)
Ahead(r, n) ==
    /\ r.prompt > 0 => n < r.prompt
    /\ \A b \in r.ladder : n < b
    /\ r.prompt = 0 /\ r.kind = "generate" => n < MaxLen

RequestsAhead == \A q \in Busy : Ahead(reqTable[q], context[q])

\* An idle process has nothing in flight.
IdleEmpty == mode = "idle" => Busy = {}

BatchInv == TypeOK /\ RequestsAhead /\ IdleEmpty

--------------------------------------------------------------------------------
(***************************************************************************)
(* Arithmetic.                                                             *)
(***************************************************************************)
LEMMA LeastElement ==
  ASSUME NEW S \in SUBSET Nat, S # {}
  PROVE  \E x \in S : \A y \in S : x <= y
<1>1. PICK x \in S : \A y \in S : ~ (<<y, x>> \in OpToRel(<, Nat))
  BY WFMin, NatLessThanWellFounded
<1>2. \A y \in S : ~(y < x)
  BY <1>1 DEF OpToRel
<1> QED
  BY <1>2

LEMMA MinProperties ==
  ASSUME NEW S \in SUBSET Nat, S # {}
  PROVE  Min(S) \in S /\ \A y \in S : Min(S) <= y
BY LeastElement DEF Min

LEMMA LeastIs ==
  ASSUME NEW a \in Int, NEW b \in Int
  PROVE  Least(a, b) \in {a, b} /\ Least(a, b) <= a /\ Least(a, b) <= b
BY DEF Least

LEMMA Scales ==
  ASSUME NEW a \in Nat, NEW b \in Nat, a <= b, NEW c \in Nat
  PROVE  c * a \in Nat /\ c * a <= c * b
OBVIOUS

LEMMA Grows ==
  ASSUME NEW a \in Nat, NEW c \in Nat \ {0}
  PROVE  a <= c * a
<1>1. (c - 1) * a \in Nat
  OBVIOUS
<1>2. c * a = (c - 1) * a + a
  OBVIOUS
<1> QED
  BY <1>1, <1>2

--------------------------------------------------------------------------------
(***************************************************************************)
(* What a request may take of a batch.                                     *)
(***************************************************************************)
LEMMA InFlight ==
  ASSUME TypeOK, NEW q \in Busy
  PROVE  /\ q \in Seqs
         /\ reqTable[q] \in Request
         /\ reqTable[q].prompt \in Prompts
         /\ reqTable[q].ladder \subseteq Prompts
BY DEF TypeOK, Busy, Request

LEMMA CursorBounds ==
  ASSUME TypeOK, RequestsAhead, NEW q \in Seqs
  PROVE  /\ Cursor(q) \in Nat
         /\ Active(q) /\ reqTable[q].prompt > 0 => Cursor(q) > 0
         /\ Cursor(q) > 0 =>
               /\ Active(q)
               /\ reqTable[q].prompt > 0
               /\ context[q] + Cursor(q) <= reqTable[q].prompt
<1>1. context[q] \in Nat
  BY BatchAssumption DEF TypeOK, Lengths
<1>2. CASE ~(Active(q) /\ reqTable[q].prompt > 0)
  BY <1>2 DEF Cursor
<1>3. CASE Active(q) /\ reqTable[q].prompt > 0
  <2> DEFINE r == reqTable[q]
             S == {r.prompt} \cup r.ladder
  <2>1. q \in Busy /\ r.prompt \in Nat /\ S \in SUBSET Nat
    BY <1>3, InFlight, BatchAssumption DEF Active, Prompts
  <2>2. \A n \in S : context[q] < n
    BY <1>3, <2>1 DEF RequestsAhead, Ahead
  <2>3. SegmentEnd(r) \in S /\ SegmentEnd(r) <= r.prompt
    <3> HIDE DEF S
    <3>1. S # {} /\ r.prompt \in S
      BY DEF S
    <3>2. Min(S) \in S /\ \A y \in S : Min(S) <= y
      BY <2>1, <3>1, MinProperties
    <3> QED
      BY <3>1, <3>2 DEF SegmentEnd, S
  <2>4. Cursor(q) = SegmentEnd(r) - context[q]
    BY <1>3 DEF Cursor
  <2> HIDE DEF r
  <2>5. SegmentEnd(r) \in Nat /\ context[q] < SegmentEnd(r)
    BY <2>1, <2>2, <2>3
  <2> QED
    BY <1>1, <1>3, <2>1, <2>3, <2>4, <2>5 DEF r
<1> QED
  BY <1>2, <1>3

LEMMA SliceBounds ==
  ASSUME TypeOK, RequestsAhead, NEW q \in Seqs, NEW n \in Nat
  PROVE  /\ Slice(q, n) \in Nat
         /\ Slice(q, n) <= Cursor(q) /\ Slice(q, n) <= Chunk /\ Slice(q, n) <= n
         /\ Cursor(q) > 0 /\ n > 0 => Slice(q, n) > 0
<1>1. Cursor(q) \in Nat
  BY CursorBounds
<1>2. Least(Chunk, n) \in {Chunk, n} /\ Least(Chunk, n) <= Chunk /\ Least(Chunk, n) <= n
  BY LeastIs, BatchAssumption
<1>3. Slice(q, n) \in {Cursor(q), Least(Chunk, n)}
      /\ Slice(q, n) <= Cursor(q) /\ Slice(q, n) <= Least(Chunk, n)
  BY <1>1, <1>2, LeastIs, BatchAssumption DEF Slice
<1> QED
  BY <1>1, <1>2, <1>3, BatchAssumption

LEMMA SeqsFinite ==
  /\ IsFiniteSet(Seqs)
  /\ Cardinality(Seqs) = NSeqMax
  /\ \A S \in SUBSET Seqs : IsFiniteSet(S) /\ Cardinality(S) \in Nat
<1>1. 0 \in Int /\ NSeqMax - 1 \in Int
  BY BatchAssumption
<1>2. IsFiniteSet(Seqs) /\ Cardinality(Seqs) = IF 0 > NSeqMax - 1 THEN 0 ELSE NSeqMax - 1 - 0 + 1
  BY <1>1, FS_Interval DEF Seqs
<1>3. Cardinality(Seqs) = NSeqMax
  BY <1>2, BatchAssumption
<1> QED
  BY <1>2, <1>3, FS_Subset, FS_CardinalityType

LEMMA DecodingIs ==
  ASSUME TypeOK, RequestsAhead
  PROVE  /\ Decoding \subseteq Busy
         /\ Decoding \cap Prefilling = {}
         /\ IsFiniteSet(Decoding)
         /\ Cardinality(Decoding) \in Nat
         /\ \A q \in Decoding : context[q] < MaxLen
<1>1. Decoding \subseteq Busy /\ Decoding \subseteq Seqs
  BY DEF Decoding, Active, Busy
<1>2. Decoding \cap Prefilling = {}
  BY CursorBounds DEF Decoding, Prefilling
<1>3. IsFiniteSet(Decoding) /\ Cardinality(Decoding) \in Nat
  BY <1>1, SeqsFinite
<1>4. \A q \in Decoding : context[q] < MaxLen
  BY <1>1 DEF Decoding, RequestsAhead, Ahead
<1> QED
  BY <1>1, <1>2, <1>3, <1>4

--------------------------------------------------------------------------------
(***************************************************************************)
(* The layout of a batch.                                                  *)
(***************************************************************************)
LEMMA RoomFalls ==
  ASSUME TypeOK, RequestsAhead,
         NEW room \in [0 .. NSeqMax -> 0 .. Budget], NEW D, Layout(room, D),
         NEW i \in 0 .. NSeqMax
  PROVE  \A j \in i .. NSeqMax : room[j] <= room[i]
<1> DEFINE S == {j \in i .. NSeqMax : ~(room[j] <= room[i])}
<1> SUFFICES ASSUME S # {}
             PROVE  FALSE
  OBVIOUS
<1>1. \A j \in 0 .. NSeqMax : room[j] \in Nat
  BY BatchAssumption
<1>2. S \in SUBSET Nat
  BY BatchAssumption
<1>3. PICK j \in S : \A k \in S : j <= k
  BY <1>2, LeastElement
<1>4. j \in i + 1 .. NSeqMax /\ j - 1 \in Seqs /\ j - 1 \in i .. NSeqMax /\ j - 1 \in 0 .. NSeqMax
  BY <1>1, BatchAssumption DEF Seqs
<1>5. room[j - 1] <= room[i]
  BY <1>2, <1>3, <1>4
<1>6. room[(j - 1) + 1] = room[j - 1] - Slice(j - 1, room[j - 1])
  BY <1>4 DEF Layout
<1>7. Slice(j - 1, room[j - 1]) \in Nat
  BY <1>1, <1>4, SliceBounds
<1>8. (j - 1) + 1 = j
  BY <1>4, BatchAssumption
<1> QED
  BY <1>1, <1>4, <1>5, <1>6, <1>7, <1>8

\* What a batch takes of each sequence and where its last token goes
WellLaid(fed, row) ==
    /\ fed \in [Seqs -> Nat]
    /\ \A q \in Decoding : fed[q] = 1
    /\ \A q \in Seqs \ Decoding : fed[q] <= Cursor(q)
    /\ \A q \in Seqs : fed[q] <= Budget
    /\ \A q \in Seqs : fed[q] > 0 => row[q] \in Rows
    /\ \A p, q \in Seqs : fed[p] > 0 /\ fed[q] > 0 /\ row[p] = row[q] => p = q

LEMMA RankFalls ==
  ASSUME NEW D \in SUBSET Seqs, NEW p \in D, NEW S \in SUBSET D,
         {r \in D : r < p} \subseteq S, p \in S
  PROVE  /\ Cardinality({r \in D : r < p}) \in Nat
         /\ Cardinality({r \in D : r < p}) < Cardinality(S)
<1> DEFINE L == {r \in D : r < p}
<1>1. IsFiniteSet(S) /\ Cardinality(S) \in Nat /\ Cardinality(L) \in Nat
  BY SeqsFinite
<1>2. p \notin L
  BY BatchAssumption DEF Seqs
<1>3. L \in SUBSET S /\ L # S
  BY <1>2
<1>4. Cardinality(L) <= Cardinality(S) /\ (Cardinality(S) = Cardinality(L) => S = L)
  BY <1>1, <1>3, FS_Subset
<1> HIDE DEF L
<1>5. Cardinality(L) < Cardinality(S)
  BY <1>1, <1>3, <1>4
<1> QED
  BY <1>1, <1>5 DEF L

LEMMA BatchLaidOut ==
  ASSUME TypeOK, RequestsAhead, Cardinality(Decoding) < Budget,
         NEW room \in [0 .. NSeqMax -> 0 .. Budget], Layout(room, Decoding)
  PROVE  WellLaid(Fed(room, Decoding), LastRow(room, Decoding))
<1> DEFINE fed == Fed(room, Decoding)
           row == LastRow(room, Decoding)
           rank(q) == Cardinality({p \in Decoding : p < q})
<1>1. /\ Decoding \in SUBSET Seqs /\ Cardinality(Decoding) \in Nat
      /\ room[0] = Budget - Cardinality(Decoding)
  BY DecodingIs DEF Layout, Busy
<1>2. \A q \in Seqs : /\ room[q] \in Nat /\ room[q + 1] \in Nat /\ room[q] <= Budget
                      /\ room[q] - room[q + 1] \in Nat
                      /\ room[q] - room[q + 1] <= Cursor(q)
  <2> SUFFICES ASSUME NEW q \in Seqs
               PROVE  /\ room[q] \in Nat /\ room[q + 1] \in Nat /\ room[q] <= Budget
                      /\ room[q] - room[q + 1] \in Nat
                      /\ room[q] - room[q + 1] <= Cursor(q)
    OBVIOUS
  <2>1. room[q] \in Nat /\ room[q + 1] \in Nat /\ room[q] <= Budget
    BY BatchAssumption DEF Seqs
  <2>2. room[q + 1] = room[q] - Slice(q, room[q])
    BY DEF Layout
  <2>3. Slice(q, room[q]) \in Nat /\ Slice(q, room[q]) <= Cursor(q)
    BY <2>1, SliceBounds
  <2> QED
    BY <2>1, <2>2, <2>3
<1>3. fed \in [Seqs -> Nat] /\ \A q \in Decoding : fed[q] = 1
  BY <1>1, <1>2 DEF Fed
<1>4. /\ \A q \in Seqs \ Decoding : fed[q] = room[q] - room[q + 1] /\ fed[q] <= Cursor(q)
      /\ \A q \in Seqs : fed[q] <= Budget
  BY <1>2, BatchAssumption DEF Fed
<1>5. \A q \in Decoding : /\ row[q] = rank(q) /\ rank(q) \in Nat
                          /\ rank(q) < Cardinality(Decoding)
  <2> SUFFICES ASSUME NEW q \in Decoding
               PROVE  row[q] = rank(q) /\ rank(q) \in Nat /\ rank(q) < Cardinality(Decoding)
    OBVIOUS
  <2>1. row[q] = rank(q)
    BY <1>1 DEF LastRow
  <2> QED
    BY <1>1, <2>1, RankFalls
<1>6. \A q \in Seqs \ Decoding : fed[q] > 0 =>
         /\ row[q] = Budget - room[q + 1] - 1
         /\ room[q + 1] < room[q]
         /\ Cardinality(Decoding) <= row[q]
         /\ row[q] \in Rows
  <2> SUFFICES ASSUME NEW q \in Seqs \ Decoding, fed[q] > 0
               PROVE  /\ row[q] = Budget - room[q + 1] - 1
                      /\ room[q + 1] < room[q]
                      /\ Cardinality(Decoding) <= row[q]
                      /\ row[q] \in Rows
    OBVIOUS
  <2>1. row[q] = Budget - room[q + 1] - 1
    BY DEF LastRow
  <2>2. room[q + 1] < room[q]
    BY <1>2, <1>4
  <2>3. room[q] <= room[0]
    <3>1. 0 \in 0 .. NSeqMax /\ q \in 0 .. NSeqMax
      BY BatchAssumption DEF Seqs
    <3> QED
      BY <3>1, RoomFalls
  <2>4. Cardinality(Decoding) <= row[q] /\ 0 <= row[q] /\ row[q] <= Budget - 1 /\ row[q] \in Int
    BY SMTT(20), <1>1, <1>2, <2>1, <2>2, <2>3, BatchAssumption
  <2> QED
    BY <2>1, <2>2, <2>4, BatchAssumption DEF Rows
<1> HIDE DEF fed, row, rank
<1>7. \A q \in Seqs : fed[q] > 0 => row[q] \in Rows
  <2>1. \A q \in Decoding : row[q] \in Rows
    BY <1>1, <1>5, BatchAssumption DEF Rows
  <2> QED
    BY <1>6, <2>1
<1>8. \A p, q \in Seqs : fed[p] > 0 /\ fed[q] > 0 /\ p < q => row[p] # row[q]
  <2> SUFFICES ASSUME NEW p \in Seqs, NEW q \in Seqs, fed[p] > 0, fed[q] > 0, p < q
               PROVE  row[p] # row[q]
    OBVIOUS
  <2>1. CASE p \in Decoding /\ q \in Decoding
    <3> DEFINE S == {r \in Decoding : r < q}
    <3>1. \A r \in Decoding : r \in Int /\ (r < p => r < q)
      BY <1>1, <2>1, BatchAssumption DEF Seqs
    <3>2. {r \in Decoding : r < p} \subseteq S /\ p \in S /\ S \in SUBSET Decoding
      BY <2>1, <3>1
    <3>3. rank(p) < Cardinality(S)
      <4> HIDE DEF S
      <4> QED
        BY <1>1, <2>1, <3>2, RankFalls DEF rank
    <3>4. rank(q) = Cardinality(S)
      BY DEF rank
    <3>5. rank(p) < rank(q) /\ rank(p) \in Nat /\ rank(q) \in Nat
      BY <1>5, <2>1, <3>3, <3>4
    <3>6. row[p] = rank(p) /\ row[q] = rank(q)
      BY <1>5, <2>1
    <3> QED
      BY <3>5, <3>6
  <2>2. CASE p \in Decoding /\ q \notin Decoding
    <3>1. row[p] \in Nat /\ row[p] < Cardinality(Decoding) /\ Cardinality(Decoding) <= row[q]
      BY <1>5, <1>6, <2>2
    <3> QED
      BY <1>1, <1>6, <2>2, <3>1, BatchAssumption DEF Rows
  <2>3. CASE p \notin Decoding /\ q \in Decoding
    <3>1. row[q] \in Nat /\ row[q] < Cardinality(Decoding) /\ Cardinality(Decoding) <= row[p]
      BY <1>5, <1>6, <2>3
    <3> QED
      BY <1>1, <1>6, <2>3, <3>1, BatchAssumption DEF Rows
  <2>4. CASE p \notin Decoding /\ q \notin Decoding
    <3>1. p + 1 \in 0 .. NSeqMax /\ q \in p + 1 .. NSeqMax
      BY BatchAssumption DEF Seqs
    <3>2. room[q] <= room[p + 1]
      BY <3>1, RoomFalls
    <3>3. /\ row[p] = Budget - room[p + 1] - 1
          /\ row[q] = Budget - room[q + 1] - 1 /\ room[q + 1] < room[q]
      BY <1>6, <2>4
    <3>4. room[p + 1] \in Nat /\ room[q] \in Nat /\ room[q + 1] \in Nat
      BY <1>2
    <3> QED
      BY SMTT(20), <3>2, <3>3, <3>4, BatchAssumption
  <2> QED
    BY <2>1, <2>2, <2>3, <2>4
<1>9. \A p, q \in Seqs : fed[p] > 0 /\ fed[q] > 0 /\ row[p] = row[q] => p = q
  <2>1. \A p, q \in Seqs : p = q \/ p < q \/ q < p
    BY DEF Seqs
  <2> HIDE DEF fed, row
  <2> QED
    BY <1>8, <2>1
<1> HIDE DEF fed, row
<1>10. WellLaid(fed, row)
  BY <1>3, <1>4, <1>7, <1>9 DEF WellLaid
<1> QED
  BY <1>10 DEF fed, row

--------------------------------------------------------------------------------
(***************************************************************************)
(* Types, and requests that are ahead of their context.                    *)
(***************************************************************************)
SeqTypes ==
    /\ cells      \in [Seqs -> Nat]
    /\ nextPos    \in [Seqs -> Nat]
    /\ lastLogits \in [Seqs -> Rows \cup {None}]

LEMMA HoldsTypes ==
  ASSUME TypeOK, NEW q \in Seqs, NEW n \in Nat, Holds(q, n)
  PROVE  SeqTypes'
BY DEF TypeOK, Holds, SeqTypes

LEMMA TruncateTypes ==
  ASSUME TypeOK, NEW q \in Seqs, NEW n \in Nat, Truncate(q, n)
  PROVE  SeqTypes'
<1>1. cells[q] \in Nat
  BY DEF TypeOK
<1>2. Least(cells[q], n) \in Nat
  BY <1>1, LeastIs
<1> QED
  BY <1>2, HoldsTypes DEF Truncate

LEMMA AdmitKeeps ==
  ASSUME BatchInv, NEW q \in Seqs, NEW keep \in BOOLEAN, NEW from \in Nat, NEW prompt,
         NEW ladder \in SUBSET Prompts, NEW kind \in {"generate", "prefill_only"},
         from <= prompt, \A b \in ladder : from < b,
         Admit(q, keep, from, prompt, ladder, kind),
         pinned' \subseteq Seqs, SeqTypes'
  PROVE  BatchInv'
<1> DEFINE r == [kind |-> kind, session |-> keep, cancelled |-> FALSE,
                 prompt |-> IF from < prompt THEN prompt ELSE 0, ladder |-> ladder]
<1>1. /\ prompt \in Prompts
      /\ mode' = "running"
      /\ reqTable' = [reqTable EXCEPT ![q] = r]
      /\ context' = [context EXCEPT ![q] = from]
      /\ logits' = logits /\ checkpoints' = checkpoints
  BY DEF Admit
<1>2. r \in Request
  BY <1>1, BatchAssumption DEF Request, Prompts
<1>3. from \in Lengths /\ from < MaxLen
  BY <1>1, BatchAssumption DEF Prompts, Lengths
<1>4. Ahead(r, from)
  BY <1>3 DEF Ahead
<1> HIDE DEF r
<1>5. TypeOK'
  BY <1>1, <1>2, <1>3 DEF BatchInv, TypeOK, SeqTypes
<1>6. \A p \in Busy' : /\ p \in Seqs
                       /\ p # q => p \in Busy /\ reqTable'[p] = reqTable[p] /\ context'[p] = context[p]
                       /\ p = q => reqTable'[p] = r /\ context'[p] = from
  BY <1>1 DEF BatchInv, TypeOK, Busy
<1>7. RequestsAhead'
  <2> SUFFICES ASSUME NEW p \in Busy'
               PROVE  Ahead(reqTable'[p], context'[p])
    BY DEF RequestsAhead, Ahead
  <2> QED
    BY <1>4, <1>6 DEF BatchInv, RequestsAhead
<1> QED
  BY <1>1, <1>5, <1>7 DEF BatchInv, IdleEmpty

\* A handler that leaves the requests that remain as they are
LEMMA FewerRequests ==
  ASSUME BatchInv, TypeOK', mode' = mode,
         \A p \in Busy' : p \in Busy /\ Ahead(reqTable'[p], context'[p])
  PROVE  BatchInv'
<1>1. RequestsAhead'
  BY DEF RequestsAhead, Ahead
<1>2. IdleEmpty'
  BY DEF BatchInv, IdleEmpty
<1> QED
  BY <1>1, <1>2 DEF BatchInv

LEMMA GiveUpTypes ==
  ASSUME BatchInv, NEW q \in Seqs, GiveUp(q)
  PROVE  /\ SeqTypes' /\ pinned' \subseteq Seqs /\ context' \in [Seqs -> Lengths]
         /\ mode' = mode /\ logits' = logits /\ checkpoints' = checkpoints
         /\ \A p \in Seqs : p # q => context'[p] = context[p]
<1>1. 0 \in Nat /\ 0 \in Lengths
  BY BatchAssumption DEF Lengths
<1>2. SeqTypes'
  BY <1>1, TruncateTypes DEF GiveUp, BatchInv
<1> QED
  BY <1>1, <1>2 DEF GiveUp, BatchInv, TypeOK

LEMMA SaveTypes ==
  ASSUME TypeOK, NEW qs \in SUBSET Seqs, NEW ctx \in [Seqs -> Lengths],
         NEW held \in [Seqs -> Nat], Save(qs, ctx, held)
  PROVE  checkpoints' \subseteq [tokens : Lengths \ {0}, cells : Nat]
<1>1. \A q \in qs : ctx[q] > 0 => ctx[q] \in Lengths \ {0} /\ held[q] \in Nat
  BY BatchAssumption DEF Lengths
<1>2. Saved(qs, ctx, held) \subseteq [tokens : Lengths \ {0}, cells : Nat]
  BY <1>1 DEF Saved
<1> QED
  BY <1>2 DEF TypeOK, Save

--------------------------------------------------------------------------------
(***************************************************************************)
(* One step, sequence by sequence.                                         *)
(***************************************************************************)
LEMMA ContextBounds ==
  ASSUME BatchInv, NEW fed, NEW row, WellLaid(fed, row),
         NEW markers \in SUBSET Decoding, NEW q \in Seqs
  PROVE  LET n == Context(fed, markers)[q] IN
         /\ n \in Lengths
         /\ context[q] <= n
         /\ q \notin markers => n = context[q] + fed[q]
         /\ fed[q] = 0 => n = context[q]
         /\ q \notin Busy => fed[q] = 0
         /\ Active(q) /\ reqTable[q].prompt > 0 => n <= reqTable[q].prompt
<1> DEFINE n == Context(fed, markers)[q]
<1> SUFFICES /\ n \in Lengths
             /\ context[q] <= n
             /\ q \notin markers => n = context[q] + fed[q]
             /\ fed[q] = 0 => n = context[q]
             /\ q \notin Busy => fed[q] = 0
             /\ Active(q) /\ reqTable[q].prompt > 0 => n <= reqTable[q].prompt
  OBVIOUS
<1>1. /\ context[q] \in Nat /\ context[q] <= MaxLen /\ fed[q] \in Nat
      /\ n = IF q \in markers THEN context[q] ELSE context[q] + fed[q]
  BY BatchAssumption DEF BatchInv, TypeOK, Lengths, WellLaid, Context
<1> HIDE DEF n
<1>2. CASE q \in Decoding
  <2>1. /\ fed[q] = 1 /\ context[q] < MaxLen /\ q \in Busy /\ ~(reqTable[q].prompt > 0)
    BY <1>2, DecodingIs DEF WellLaid, Decoding, BatchInv
  <2> QED
    BY <1>1, <2>1, BatchAssumption DEF Lengths
<1>3. CASE q \notin Decoding
  <2>1. fed[q] <= Cursor(q) /\ q \notin markers /\ Cursor(q) \in Nat
    BY <1>3, CursorBounds DEF WellLaid, BatchInv
  <2>2. CASE Cursor(q) = 0
    <3>1. ~(Active(q) /\ reqTable[q].prompt > 0) /\ fed[q] = 0
      BY <1>1, <2>1, <2>2, CursorBounds DEF BatchInv
    <3> QED
      BY <1>1, <2>1, <3>1 DEF Lengths
  <2>3. CASE Cursor(q) > 0
    <3>1. /\ q \in Busy /\ context[q] + Cursor(q) <= reqTable[q].prompt
      BY <2>3, CursorBounds DEF Active, BatchInv
    <3>2. reqTable[q].prompt \in Nat /\ reqTable[q].prompt <= MaxLen
      BY <3>1, InFlight, BatchAssumption DEF Prompts, BatchInv
    <3>3. n = context[q] + fed[q] /\ n <= reqTable[q].prompt /\ n \in Nat
      BY <1>1, <2>1, <3>1, <3>2
    <3> QED
      BY <1>1, <2>3, <3>1, <3>2, <3>3, BatchAssumption DEF Lengths
  <2> QED
    BY <2>1, <2>2, <2>3
<1> QED
  BY <1>2, <1>3

LEMMA AdvancedAhead ==
  ASSUME BatchInv, NEW ctx \in [Seqs -> Lengths]
  PROVE  /\ Advanced(ctx) \in [Seqs -> Request \cup {NoRequest}]
         /\ \A q \in Seqs \ Busy : Advanced(ctx)[q] = NoRequest
         /\ \A q \in Busy :
               LET r == Advanced(ctx)[q] IN
               /\ r \in Request
               /\ r.kind = reqTable[q].kind
               /\ r.session = reqTable[q].session
               /\ r.cancelled = reqTable[q].cancelled
               /\ r.prompt = IF ctx[q] < reqTable[q].prompt THEN reqTable[q].prompt ELSE 0
               /\ r.ladder = {b \in reqTable[q].ladder : b > ctx[q]}
<1>1. \A q \in Seqs \ Busy : Advanced(ctx)[q] = NoRequest
  BY DEF Advanced, Busy
<1>2. ASSUME NEW q \in Busy
      PROVE  LET r == Advanced(ctx)[q] IN
             /\ r \in Request
             /\ r.kind = reqTable[q].kind
             /\ r.session = reqTable[q].session
             /\ r.cancelled = reqTable[q].cancelled
             /\ r.prompt = IF ctx[q] < reqTable[q].prompt THEN reqTable[q].prompt ELSE 0
             /\ r.ladder = {b \in reqTable[q].ladder : b > ctx[q]}
  <2>1. q \in Seqs /\ reqTable[q] # NoRequest /\ reqTable[q] \in Request
    BY DEF BatchInv, Busy, TypeOK
  <2>2. Advanced(ctx)[q] = [reqTable[q] EXCEPT
            !.prompt = IF ctx[q] < reqTable[q].prompt THEN reqTable[q].prompt ELSE 0,
            !.ladder = {b \in reqTable[q].ladder : b > ctx[q]}]
    BY <2>1 DEF Advanced
  <2>3. 0 \in Prompts
    BY BatchAssumption DEF Prompts
  <2> QED
    BY <2>1, <2>2, <2>3 DEF Request
<1>3. Advanced(ctx) \in [Seqs -> Request \cup {NoRequest}]
  BY <1>1, <1>2 DEF Advanced
<1> QED
  BY <1>1, <1>2, <1>3

\* What a step picks, with all that follows from the layout of its batch
LEMMA StepPicks ==
  ASSUME BatchInv, Step
  PROVE  \E fed, row : \E markers \in SUBSET MayMark(Decoding) :
            \E stops \in SUBSET (Decoding \ markers) :
               /\ WellLaid(fed, row)
               /\ StepWith(fed, row, Decoding \ markers, markers, stops)
BY BatchLaidOut DEF BatchInv, Step, StepOn

LEMMA StepKeeps ==
  ASSUME BatchInv, NEW fed, NEW row, WellLaid(fed, row),
         NEW markers \in SUBSET Decoding, NEW stops \in SUBSET (Decoding \ markers),
         StepWith(fed, row, Decoding \ markers, markers, stops)
  PROVE  BatchInv'
<1> DEFINE on    == {q \in Seqs : fed[q] > 0}
           held  == [q \in Seqs |-> cells[q] + fed[q]]
           ctx   == Context(fed, markers)
           table == Advanced(ctx)
           done  == Finished(table, stops)
           freed == {q \in done : ~table[q].session}
<1>1. /\ \A q \in Decoding \ markers : ctx[q] = MaxLen => q \in stops
      /\ Save(done \cup (Decoding \ markers) \cup AtBoundary(ctx), ctx, held)
      /\ cells'      = [q \in Seqs |-> IF q \in freed THEN 0 ELSE held[q]]
      /\ nextPos'    = [q \in Seqs |-> IF q \in freed THEN 0 ELSE nextPos[q] + fed[q]]
      /\ lastLogits' = [q \in Seqs |-> IF q \in freed THEN None
                                       ELSE IF q \in on THEN row[q]
                                       ELSE lastLogits[q]]
      /\ logits'     = IF on = {} THEN logits ELSE LogitsAfter(on, row)
      /\ reqTable'   = [q \in Seqs |-> IF q \in done THEN NoRequest ELSE table[q]]
      /\ context'    = [q \in Seqs |-> IF q \in freed THEN 0 ELSE ctx[q]]
      /\ pinned'     = pinned \cup (done \ freed)
      /\ mode'       = IF done = Busy THEN "idle" ELSE "running"
  BY DEF StepWith
<1>2. /\ held \in [Seqs -> Nat]
      /\ \A q \in Seqs : fed[q] \in Nat /\ cells[q] \in Nat /\ nextPos[q] \in Nat
      /\ \A q \in on : row[q] \in Rows
  BY DEF BatchInv, TypeOK, WellLaid
<1>3. /\ ctx \in [Seqs -> Lengths]
      /\ \A q \in Seqs : Active(q) /\ reqTable[q].prompt > 0 => ctx[q] <= reqTable[q].prompt
      /\ \A q \in markers : ctx[q] = context[q]
  BY ContextBounds DEF Context, WellLaid, Decoding
<1> HIDE DEF ctx
<1>4. done \subseteq Busy /\ freed \subseteq done /\ Busy \subseteq Seqs
  BY DEF Finished, Busy
<1>5. /\ table \in [Seqs -> Request \cup {NoRequest}]
      /\ \A q \in Seqs \ Busy : table[q] = NoRequest
      /\ \A q \in Busy :
            /\ table[q] \in Request
            /\ table[q].kind = reqTable[q].kind
            /\ table[q].cancelled = reqTable[q].cancelled
            /\ table[q].prompt = IF ctx[q] < reqTable[q].prompt THEN reqTable[q].prompt ELSE 0
            /\ table[q].ladder = {b \in reqTable[q].ladder : b > ctx[q]}
  BY <1>3, AdvancedAhead
<1>6. Decoding \subseteq Seqs /\ AtBoundary(ctx) \subseteq Seqs
  BY DEF Decoding, AtBoundary, Prefilling
<1> HIDE DEF table, freed, held
<1>7. TypeOK'
  <2>1. checkpoints' \subseteq [tokens : Lengths \ {0}, cells : Nat]
    BY <1>1, <1>2, <1>3, <1>4, <1>6, SaveTypes DEF BatchInv
  <2>2. reqTable' \in [Seqs -> Request \cup {NoRequest}] /\ mode' \in {"idle", "running"}
    BY <1>1, <1>5
  <2>3. context' \in [Seqs -> Lengths]
    BY <1>1, <1>3, BatchAssumption DEF Lengths
  <2>4. cells' \in [Seqs -> Nat] /\ nextPos' \in [Seqs -> Nat] /\ pinned' \subseteq Seqs
    BY <1>1, <1>2, <1>4 DEF BatchInv, TypeOK
  <2>5. lastLogits' \in [Seqs -> Rows \cup {None}]
    BY <1>1, <1>2 DEF BatchInv, TypeOK
  <2>6. logits' \in [Rows -> Seqs \cup {None}]
    <3>1. LogitsAfter(on, row) \in [Rows -> Seqs \cup {None}]
      <4>1. \A r \in Rows : (\E q \in on : row[q] = r) =>
               (CHOOSE q \in on : row[q] = r) \in Seqs
        OBVIOUS
      <4> HIDE DEF on
      <4> QED
        BY <4>1 DEF LogitsAfter
    <3> QED
      BY <1>1, <3>1 DEF BatchInv, TypeOK
  <2> QED
    BY <2>1, <2>2, <2>3, <2>4, <2>5, <2>6 DEF TypeOK
<1>8. Busy' = Busy \ done
  BY <1>1, <1>4, <1>5, RequestAssumption DEF Busy
<1>9. RequestsAhead'
  <2> SUFFICES ASSUME NEW q \in Busy'
               PROVE  Ahead(reqTable'[q], context'[q])
    BY DEF RequestsAhead, Ahead
  <2>1. q \in Busy /\ q \notin done /\ q \notin freed /\ q \in Seqs
    BY <1>4, <1>8
  <2>2. reqTable'[q] = table[q] /\ context'[q] = ctx[q]
    BY <1>1, <2>1
  <2>3. ctx[q] \in Nat /\ ctx[q] <= MaxLen /\ reqTable[q].prompt \in Nat /\ reqTable[q].prompt < MaxLen
    BY <1>3, <2>1, InFlight, BatchAssumption DEF Prompts, Lengths, BatchInv
  <2>4. ASSUME table[q].prompt = 0, table[q].kind = "generate"
        PROVE  ctx[q] < MaxLen
    <3>1. Active(q) /\ q \notin stops
      BY <1>5, <2>1 DEF Active, Finished
    <3>2. CASE reqTable[q].prompt > 0
      BY <1>3, <2>1, <2>3, <3>1, <3>2, BatchAssumption
    <3>3. CASE reqTable[q].prompt = 0
      <4>1. q \in Decoding
        BY <1>5, <2>1, <2>4, <3>1, <3>3 DEF Decoding
      <4>2. q \in markers => ctx[q] < MaxLen
        BY <1>3, <4>1, DecodingIs DEF BatchInv
      <4> QED
        BY <1>1, <2>3, <3>1, <4>1, <4>2, BatchAssumption
    <3> QED
      BY <2>3, <3>2, <3>3
  <2> QED
    BY <1>5, <2>1, <2>2, <2>3, <2>4 DEF Ahead
<1>10. IdleEmpty'
  BY <1>1, <1>8 DEF IdleEmpty
<1> QED
  BY <1>7, <1>9, <1>10 DEF BatchInv

--------------------------------------------------------------------------------
(***************************************************************************)
(* Admission, whichever of its paths was taken.                            *)
(***************************************************************************)
Others(q) ==
    \A p \in Seqs \ {q} : /\ cells'[p] = cells[p]
                          /\ nextPos'[p] = nextPos[p]
                          /\ lastLogits'[p] = lastLogits[p]

\* The request starts behind from cells, which are those of its context if
\* all contexts and checkpoints are as they should be.
Enters(q, keep, from, prompt, ladder, kind) ==
    /\ Admit(q, keep, from, prompt, ladder, kind)
    /\ keep \in BOOLEAN
    /\ q \in Idle
    /\ SeqTypes' /\ pinned' \subseteq pinned
    /\ Others(q)
    /\ from \in Nat /\ from <= prompt
    /\ "new_tail" \notin Waived => from < prompt
    /\ ladder \subseteq Prompts /\ \A b \in ladder : from < b
    /\ CellsMatch /\ CheckpointExact => cells'[q] = from /\ nextPos'[q] = from

LEMMA HoldsOne ==
  ASSUME TypeOK, NEW q \in Seqs, NEW n, Holds(q, n)
  PROVE  Others(q) /\ cells'[q] = n /\ nextPos'[q] = n
BY DEF Holds, Others, TypeOK

LEMMA ColdEnters ==
  ASSUME TypeOK, NEW q \in Seqs, NEW keep \in BOOLEAN, NEW prompt \in Prompts,
         NEW ladder \in SUBSET (1 .. prompt), NEW kind, AdmitCold(q, keep, prompt, ladder, kind)
  PROVE  Enters(q, keep, 0, prompt, ladder, kind)
<1>1. /\ prompt \in Nat /\ prompt > 0 /\ 0 \in Nat
      /\ ladder \subseteq Prompts /\ \A b \in ladder : 0 < b
  BY BatchAssumption DEF AdmitCold, Prompts
<1>2. SeqTypes'
  BY <1>1, TruncateTypes DEF AdmitCold
<1>3. cells[q] \in Nat /\ Least(cells[q], 0) = 0
  BY DEF TypeOK, Least
<1>4. Others(q) /\ cells'[q] = 0 /\ nextPos'[q] = 0
  BY <1>3, HoldsOne DEF AdmitCold, Truncate
<1> QED
  BY <1>1, <1>2, <1>4 DEF AdmitCold, Enters, FreeFor

LEMMA WarmEnters ==
  ASSUME TypeOK, NEW q \in Seqs, NEW keep \in BOOLEAN, NEW c \in checkpoints, NEW n \in Prompts, NEW kind,
         AdmitWarm(q, keep, c, n, kind)
  PROVE  Enters(q, keep, c.tokens - 1, c.tokens + n, {}, kind)
<1>1. c.tokens \in Nat /\ c.tokens > 0 /\ c.cells \in Nat /\ n \in Nat
  BY BatchAssumption DEF TypeOK, Lengths, Prompts
<1>2. Least(c.cells, c.tokens - 1) \in Nat
  BY <1>1, LeastIs
<1>3. SeqTypes'
  BY <1>2, HoldsTypes DEF AdmitWarm
<1>4. Others(q) /\ cells'[q] = Least(c.cells, c.tokens - 1) /\ nextPos'[q] = cells'[q]
  BY HoldsOne DEF AdmitWarm
<1>5. CheckpointExact => Least(c.cells, c.tokens - 1) = c.tokens - 1
  BY <1>1 DEF CheckpointExact, Least
<1>6. c.tokens - 1 \in Nat /\ c.tokens - 1 < c.tokens + n /\ c.tokens - 1 <= c.tokens + n
  BY <1>1
<1> QED
  BY <1>3, <1>4, <1>5, <1>6 DEF AdmitWarm, Enters, FreeFor

LEMMA StickyEnters ==
  ASSUME TypeOK, NEW q \in Seqs, NEW n \in Prompts, NEW kind, AdmitSticky(q, n, kind)
  PROVE  Enters(q, TRUE, context[q], context[q] + n, {}, kind)
<1>1. context[q] \in Nat /\ n \in Nat
  BY BatchAssumption DEF TypeOK, Lengths, Prompts
<1>2. SeqTypes' /\ Others(q) /\ cells'[q] = cells[q] /\ nextPos'[q] = nextPos[q]
  BY DEF AdmitSticky, seqVars, TypeOK, SeqTypes, Others
<1>3. q \in pinned /\ q \in Idle /\ pinned' = pinned
  BY DEF AdmitSticky, InPlace
<1>4. CellsMatch => cells'[q] = context[q] /\ nextPos'[q] = context[q]
  BY <1>2, <1>3 DEF CellsMatch
<1>5. "new_tail" \notin Waived => context[q] < context[q] + n
  BY <1>1 DEF AdmitSticky
<1>6. context[q] <= context[q] + n
  BY <1>1
<1>7. Admit(q, TRUE, context[q], context[q] + n, {}, kind)
  BY DEF AdmitSticky
<1> QED
  BY <1>1, <1>2, <1>3, <1>4, <1>5, <1>6, <1>7 DEF Enters

LEMMA PartialEnters ==
  ASSUME TypeOK, NEW q \in Seqs, NEW common \in Lengths, NEW n \in Prompts, NEW kind,
         AdmitPartial(q, common, n, kind)
  PROVE  Enters(q, TRUE, common - 1, common + n, {}, kind)
<1>1. /\ context[q] \in Nat /\ cells[q] \in Nat /\ n \in Nat
      /\ common \in Nat /\ common > 0 /\ common < context[q]
  BY BatchAssumption DEF TypeOK, Lengths, Prompts, AdmitPartial
<1>2. common - 1 \in Nat /\ common - 1 < common + n /\ common - 1 <= common + n
  BY <1>1
<1>3. SeqTypes'
  BY <1>2, TruncateTypes DEF AdmitPartial
<1>4. q \in pinned /\ q \in Idle /\ pinned' = pinned
  BY DEF AdmitPartial, InPlace
<1>5. Others(q) /\ cells'[q] = Least(cells[q], common - 1) /\ nextPos'[q] = cells'[q]
  BY HoldsOne DEF AdmitPartial, Truncate
<1>6. CellsMatch => Least(cells[q], common - 1) = common - 1
  BY <1>1, <1>4 DEF CellsMatch, Least
<1> QED
  BY <1>2, <1>3, <1>4, <1>5, <1>6 DEF AdmitPartial, Enters

LEMMA Admission ==
  ASSUME BatchInv, NEW q \in Seqs, NEW kind, AdmitOn(q, kind)
  PROVE  \E keep, from, prompt, ladder : Enters(q, keep, from, prompt, ladder, kind)
<1>1. TypeOK
  BY DEF BatchInv
<1>2. CASE \E keep \in BOOLEAN, p \in ColdPrompts : AdmitCold(q, keep, p.prompt, p.ladder, kind)
  BY <1>1, <1>2, ColdEnters, PromptsAssumption
<1>3. CASE \E keep \in BOOLEAN, c \in checkpoints, n \in Tails : AdmitWarm(q, keep, c, n, kind)
  BY <1>1, <1>3, WarmEnters, PromptsAssumption
<1>4. CASE \E n \in Tails : AdmitSticky(q, n, kind)
  BY <1>1, <1>4, StickyEnters, PromptsAssumption
<1>5. CASE \E common \in Lengths, n \in Tails : AdmitPartial(q, common, n, kind)
  BY <1>1, <1>5, PartialEnters, PromptsAssumption
<1> QED
  BY <1>2, <1>3, <1>4, <1>5 DEF AdmitOn

LEMMA RenewedKeeps ==
  ASSUME BatchInv, Renewed
  PROVE  BatchInv' /\ Busy' = {} /\ pinned' = {} /\ checkpoints' = checkpoints
<1>1. 0 \in Nat /\ 0 \in Lengths
  BY BatchAssumption DEF Lengths
<1>2. TypeOK'
  BY <1>1 DEF Renewed, BatchInv, TypeOK
<1>3. Busy' = {}
  BY DEF Renewed, Busy
<1> QED
  BY <1>2, <1>3 DEF Renewed, BatchInv, RequestsAhead, IdleEmpty

LEMMA InitBatchInv == Init => BatchInv
<1> SUFFICES ASSUME Init
             PROVE  BatchInv
  OBVIOUS
<1>1. 0 \in Nat /\ 0 \in Lengths
  BY BatchAssumption DEF Lengths
<1>2. TypeOK
  BY <1>1 DEF Init, TypeOK
<1>3. Busy = {}
  BY DEF Init, Busy
<1> QED
  BY <1>2, <1>3 DEF BatchInv, RequestsAhead, IdleEmpty

LEMMA NextBatchInv == BatchInv /\ [Next]_vars => BatchInv'
<1> SUFFICES ASSUME BatchInv, [Next]_vars
             PROVE  BatchInv'
  OBVIOUS
<1>0. TypeOK /\ RequestsAhead
  BY DEF BatchInv
<1>1. ASSUME NEW q \in Seqs, NEW kind \in {"generate", "prefill_only"}, AdmitOn(q, kind)
      PROVE  BatchInv'
  <2>1. PICK keep, from, prompt, ladder : Enters(q, keep, from, prompt, ladder, kind)
    BY <1>1, Admission
  <2>2. pinned' \subseteq Seqs
    BY <1>0, <2>1 DEF Enters, TypeOK
  <2> QED
    BY <2>1, <2>2, AdmitKeeps DEF Enters
<1>2. ASSUME NEW q \in Seqs, Cancel(q)
      PROVE  BatchInv'
  <2>1. /\ q \in Busy
        /\ reqTable[q] \in Request
        /\ reqTable' = [reqTable EXCEPT ![q].cancelled = TRUE]
        /\ UNCHANGED <<mode, pinned, context, cells, nextPos, lastLogits, logits, checkpoints>>
    BY <1>0, <1>2, InFlight DEF Cancel, seqVars
  <2>2. [reqTable[q] EXCEPT !.cancelled = TRUE] \in Request
    BY <2>1 DEF Request
  <2>3. TypeOK'
    BY <1>0, <2>1, <2>2 DEF TypeOK
  <2>4. \A p \in Busy' : /\ p \in Busy /\ context'[p] = context[p]
                         /\ reqTable'[p].prompt = reqTable[p].prompt
                         /\ reqTable'[p].ladder = reqTable[p].ladder
                         /\ reqTable'[p].kind = reqTable[p].kind
    BY <1>0, <2>1 DEF Busy, TypeOK, Request
  <2>5. \A p \in Busy' : Ahead(reqTable'[p], context'[p])
    BY <1>0, <2>4 DEF RequestsAhead, Ahead
  <2> QED
    BY <2>1, <2>3, <2>4, <2>5, FewerRequests
<1>3. ASSUME NEW q \in Seqs, EndSession(q)
      PROVE  BatchInv'
  <2>1. GiveUp(q) /\ reqTable' = reqTable /\ q \notin Busy
    BY <1>3 DEF EndSession, Idle
  <2>2. TypeOK'
    BY <1>0, <2>1, GiveUpTypes DEF TypeOK, SeqTypes
  <2>3. \A p \in Busy' : /\ p \in Busy /\ p \in Seqs /\ p # q
                         /\ reqTable'[p] = reqTable[p] /\ context'[p] = context[p]
    BY <2>1, GiveUpTypes DEF Busy
  <2> QED
    BY <1>0, <2>1, <2>2, <2>3, GiveUpTypes, FewerRequests DEF RequestsAhead
<1>4. ASSUME NEW q \in Seqs, ResetSession(q)
      PROVE  BatchInv'
  <2>1. GiveUp(q) /\ reqTable' = [reqTable EXCEPT ![q] = NoRequest]
    BY <1>4 DEF ResetSession
  <2>2. TypeOK'
    BY <1>0, <2>1, GiveUpTypes DEF TypeOK, SeqTypes
  <2>3. \A p \in Busy' : /\ p \in Busy /\ p \in Seqs /\ p # q
                         /\ reqTable'[p] = reqTable[p] /\ context'[p] = context[p]
    BY <1>0, <2>1, GiveUpTypes DEF Busy, TypeOK
  <2> QED
    BY <1>0, <2>1, <2>2, <2>3, GiveUpTypes, FewerRequests DEF RequestsAhead
<1>5. ASSUME SaveAll
      PROVE  BatchInv'
  <2>1. Busy \subseteq Seqs /\ context \in [Seqs -> Lengths] /\ cells \in [Seqs -> Nat]
    BY <1>0 DEF Busy, TypeOK
  <2>2. checkpoints' \subseteq [tokens : Lengths \ {0}, cells : Nat]
    BY <1>0, <1>5, <2>1, SaveTypes DEF SaveAll
  <2> QED
    BY <1>0, <1>5, <2>2 DEF SaveAll, seqVars, BatchInv, TypeOK, RequestsAhead, IdleEmpty, Busy
<1>6. ASSUME NEW n \in Prompts, Verify(n)
      PROVE  BatchInv'
  <2>1. n \in Nat /\ 0 \in Seqs
    BY BatchAssumption DEF Prompts, Seqs
  <2>2. TypeOK'
    BY <1>0, <1>6, <2>1 DEF Verify, TypeOK
  <2> QED
    BY <1>6, <2>2 DEF Verify, BatchInv, RequestsAhead, IdleEmpty, Busy
<1>7. ASSUME Step
      PROVE  BatchInv'
  <2>1. PICK fed, row : \E markers \in SUBSET MayMark(Decoding) :
            \E stops \in SUBSET (Decoding \ markers) :
               /\ WellLaid(fed, row)
               /\ StepWith(fed, row, Decoding \ markers, markers, stops)
    BY <1>7, StepPicks
  <2>2. MayMark(Decoding) \subseteq Decoding
    BY DEF MayMark
  <2> QED
    BY <2>1, <2>2, StepKeeps
<1>8. CASE Recover \/ Reload
  BY <1>8, RenewedKeeps DEF Recover, Reload
<1>9. CASE UNCHANGED vars
  BY <1>9 DEF vars, seqVars, BatchInv, TypeOK, RequestsAhead, IdleEmpty, Busy
<1> QED
  BY <1>1, <1>2, <1>3, <1>4, <1>5, <1>6, <1>7, <1>8, <1>9 DEF Next, Tick

\* The variables keep their types, for any number of sequences, budget and
\* chunk: what a batch takes fits into it, and a response stays within MaxLen.
THEOREM TypeCorrect == Spec => []TypeOK
<1>1. BatchInv => TypeOK
  BY DEF BatchInv
<1> QED
  BY <1>1, InitBatchInv, NextBatchInv, PTL DEF Spec

--------------------------------------------------------------------------------
(***************************************************************************)
(* Contexts and checkpoints agree with the cells.                          *)
(***************************************************************************)
MatchInv == BatchInv /\ CellsMatch /\ CheckpointExact

LEMMA SavedExact ==
  ASSUME CheckpointExact, NEW qs, NEW ctx, NEW held, Save(qs, ctx, held),
         \A q \in qs : held[q] = ctx[q]
  PROVE  CheckpointExact'
BY DEF CheckpointExact, Save, Saved

\* A handler that keeps the cells of whatever remains in use
LEMMA MatchStays ==
  ASSUME CellsMatch,
         \A p \in Busy' \cup pinned' :
            /\ p \in Busy \cup pinned
            /\ cells'[p] = cells[p] /\ nextPos'[p] = nextPos[p] /\ context'[p] = context[p]
  PROVE  CellsMatch'
BY DEF CellsMatch

LEMMA StepMatches ==
  ASSUME MatchInv, "no_markers" \notin Waived, Step
  PROVE  CellsMatch' /\ CheckpointExact'
<1>0. BatchInv /\ TypeOK /\ CellsMatch /\ CheckpointExact /\ MayMark(Decoding) = {}
  BY DEF MatchInv, BatchInv, MayMark
<1>1. PICK fed, row : \E stops \in SUBSET Decoding :
               /\ WellLaid(fed, row)
               /\ StepWith(fed, row, Decoding, {}, stops)
  BY <1>0, StepPicks
<1>2. PICK stops \in SUBSET Decoding : StepWith(fed, row, Decoding, {}, stops)
  BY <1>1
<1> DEFINE held  == [q \in Seqs |-> cells[q] + fed[q]]
           ctx   == Context(fed, {})
           table == Advanced(ctx)
           done  == Finished(table, stops)
           freed == {q \in done : ~table[q].session}
           qs    == done \cup Decoding \cup AtBoundary(ctx)
<1>3. /\ Save(qs, ctx, held)
      /\ cells'    = [q \in Seqs |-> IF q \in freed THEN 0 ELSE held[q]]
      /\ nextPos'  = [q \in Seqs |-> IF q \in freed THEN 0 ELSE nextPos[q] + fed[q]]
      /\ reqTable' = [q \in Seqs |-> IF q \in done THEN NoRequest ELSE table[q]]
      /\ context'  = [q \in Seqs |-> IF q \in freed THEN 0 ELSE ctx[q]]
      /\ pinned'   = pinned \cup (done \ freed)
  BY <1>2 DEF StepWith
<1>4. \A q \in Seqs : ctx[q] = context[q] + fed[q] /\ held[q] = cells[q] + fed[q]
  BY DEF Context
<1>5. \A q \in Seqs \ Busy : table[q] = NoRequest
  BY DEF Advanced, Busy
<1>6. /\ done \subseteq Busy /\ freed \subseteq done /\ qs \subseteq Busy
      /\ Busy \subseteq Seqs /\ pinned \subseteq Seqs
  BY <1>0, CursorBounds
     DEF Finished, Busy, Decoding, Active, AtBoundary, Prefilling, Cursor, TypeOK
<1> HIDE DEF held, ctx, table, done, freed, qs
<1>7. CellsMatch'
  <2> SUFFICES ASSUME NEW q \in Busy' \cup pinned'
               PROVE  cells'[q] = context'[q] /\ nextPos'[q] = context'[q]
    BY DEF CellsMatch
  <2>1. q \in Busy \cup pinned /\ q \in Seqs
    BY <1>3, <1>5, <1>6 DEF Busy
  <2>2. cells[q] = context[q] /\ nextPos[q] = context[q]
    BY <1>0, <2>1 DEF CellsMatch
  <2> QED
    BY <1>3, <1>4, <2>1, <2>2
<1>8. \A q \in qs : held[q] = ctx[q]
  BY <1>0, <1>4, <1>6 DEF CellsMatch
<1>9. CheckpointExact'
  BY <1>0, <1>3, <1>8, SavedExact
<1> QED
  BY <1>7, <1>9

LEMMA NextMatchInv ==
  ASSUME "no_markers" \notin Waived, "free_verify" \notin Waived
  PROVE  MatchInv /\ [Next]_vars => MatchInv'
<1> SUFFICES ASSUME MatchInv, [Next]_vars
             PROVE  MatchInv'
  OBVIOUS
<1>0. BatchInv /\ BatchInv' /\ TypeOK /\ CellsMatch /\ CheckpointExact
  BY NextBatchInv DEF MatchInv, BatchInv
<1>1. ASSUME NEW q \in Seqs, NEW kind \in {"generate", "prefill_only"}, AdmitOn(q, kind)
      PROVE  CellsMatch' /\ CheckpointExact'
  <2>1. PICK keep, from, prompt, ladder : Enters(q, keep, from, prompt, ladder, kind)
    BY <1>0, <1>1, Admission
  <2>2. /\ cells'[q] = from /\ nextPos'[q] = from /\ Others(q) /\ pinned' \subseteq pinned
        /\ \A p \in Seqs : p # q => reqTable'[p] = reqTable[p] /\ context'[p] = context[p]
        /\ context'[q] = from /\ checkpoints' = checkpoints
    BY <1>0, <2>1 DEF Enters, Admit, TypeOK
  <2>3. \A p \in Busy' \cup pinned' : p \in Seqs /\ (p # q => p \in Busy \cup pinned)
    BY <1>0, <2>2 DEF Busy, TypeOK
  <2>4. CellsMatch'
    BY <1>0, <2>2, <2>3 DEF CellsMatch, Others
  <2> QED
    BY <1>0, <2>2, <2>4 DEF CheckpointExact
<1>2. ASSUME NEW q \in Seqs, Cancel(q)
      PROVE  CellsMatch' /\ CheckpointExact'
  <2>1. Busy' \subseteq Busy
    BY <1>2 DEF Cancel, Busy
  <2> QED
    BY <1>0, <1>2, <2>1, MatchStays DEF Cancel, seqVars, CheckpointExact
<1>3. ASSUME NEW q \in Seqs, EndSession(q) \/ ResetSession(q)
      PROVE  CellsMatch' /\ CheckpointExact'
  <2>1. /\ GiveUp(q)
        /\ Busy' \subseteq Busy \ {q}
        /\ Busy \subseteq Seqs /\ pinned \subseteq Seqs
    BY <1>0, <1>3 DEF EndSession, ResetSession, Idle, Busy, TypeOK
  <2>2. pinned' = pinned \ {q} /\ checkpoints' = checkpoints /\ Others(q)
    BY <1>0, <2>1, HoldsOne DEF GiveUp, Truncate
  <2>3. \A p \in Busy' \cup pinned' :
           /\ p \in Busy \cup pinned
           /\ cells'[p] = cells[p] /\ nextPos'[p] = nextPos[p] /\ context'[p] = context[p]
    BY <1>0, <2>1, <2>2, GiveUpTypes DEF Others
  <2> QED
    BY <1>0, <2>2, <2>3, MatchStays DEF CheckpointExact
<1>4. ASSUME SaveAll
      PROVE  CellsMatch' /\ CheckpointExact'
  <2>1. CheckpointExact'
    BY <1>0, <1>4, SavedExact DEF SaveAll, CellsMatch
  <2> QED
    BY <1>0, <1>4, <2>1 DEF SaveAll, seqVars, CellsMatch, Busy
<1>5. ASSUME NEW n \in Prompts, Verify(n)
      PROVE  CellsMatch' /\ CheckpointExact'
  <2>1. Busy = {} /\ 0 \notin pinned
    BY <1>0, <1>5 DEF Verify, BatchInv, IdleEmpty
  <2>2. \A p \in Busy' \cup pinned' :
           /\ p \in Busy \cup pinned
           /\ cells'[p] = cells[p] /\ nextPos'[p] = nextPos[p] /\ context'[p] = context[p]
    BY <1>0, <1>5, <2>1 DEF Verify, Busy, TypeOK
  <2> QED
    BY <1>0, <1>5, <2>2, MatchStays DEF Verify, CheckpointExact
<1>6. ASSUME Step
      PROVE  CellsMatch' /\ CheckpointExact'
  BY <1>6, StepMatches
<1>7. CASE Recover \/ Reload
  <2>1. Busy' = {} /\ pinned' = {} /\ checkpoints' = checkpoints
    BY <1>0, <1>7, RenewedKeeps DEF Recover, Reload
  <2> QED
    BY <1>0, <2>1 DEF MatchInv, CellsMatch, CheckpointExact
<1>8. CASE UNCHANGED vars
  BY <1>0, <1>8 DEF vars, seqVars, MatchInv, CellsMatch, CheckpointExact, Busy
<1> QED
  BY <1>0, <1>1, <1>2, <1>3, <1>4, <1>5, <1>6, <1>7, <1>8 DEF Next, Tick, MatchInv

LEMMA InitMatchInv == Init => MatchInv
BY InitBatchInv DEF Init, MatchInv, CellsMatch, CheckpointExact, Busy

\* Without thinking markers, and with verify/4 kept away from pinned
\* sequences, what a request or a session believes to be in the cells is
\* there, and the next token goes right behind it.
THEOREM CellsAgree ==
  ASSUME "no_markers" \notin Waived, "free_verify" \notin Waived
  PROVE  Spec => []CellsMatch
<1>1. MatchInv => CellsMatch
  BY DEF MatchInv
<1> QED
  BY <1>1, InitMatchInv, NextMatchInv, PTL DEF Spec

\* Under the same assumptions a checkpoint holds the cells of exactly the
\* tokens it is saved under, whichever step it was packed in.
THEOREM CheckpointsExact ==
  ASSUME "no_markers" \notin Waived, "free_verify" \notin Waived
  PROVE  Spec => []CheckpointExact
<1>1. MatchInv => CheckpointExact
  BY DEF MatchInv
<1> QED
  BY <1>1, InitMatchInv, NextMatchInv, PTL DEF Spec

--------------------------------------------------------------------------------
(***************************************************************************)
(* Logits.                                                                 *)
(***************************************************************************)
LogitsInv == BatchInv /\ LogitsOwn

\* A sequence that decodes after a step was in its batch: it sampled its
\* last token in it or prefilled the end of its prompt.
LEMMA DecodersWereFed ==
  ASSUME BatchInv, NEW fed, NEW row, WellLaid(fed, row),
         NEW markers \in SUBSET Decoding, NEW stops \in SUBSET (Decoding \ markers),
         StepWith(fed, row, Decoding \ markers, markers, stops),
         NEW q \in Decoding'
  PROVE  /\ q \in Seqs /\ fed[q] > 0 /\ fed[q] \in Nat
         /\ lastLogits'[q] = row[q]
<1> DEFINE on    == {p \in Seqs : fed[p] > 0}
           ctx   == Context(fed, markers)
           table == Advanced(ctx)
           done  == Finished(table, stops)
           freed == {p \in done : ~table[p].session}
<1>1. /\ lastLogits' = [p \in Seqs |-> IF p \in freed THEN None
                                       ELSE IF p \in on THEN row[p]
                                       ELSE lastLogits[p]]
      /\ reqTable'   = [p \in Seqs |-> IF p \in done THEN NoRequest ELSE table[p]]
  BY DEF StepWith
<1>2. ctx \in [Seqs -> Lengths]
  BY ContextBounds DEF Context
<1>3. fed[q] = 0 => ctx[q] = context[q]
  BY ContextBounds DEF Decoding
<1>4. done \subseteq Busy /\ freed \subseteq done
  BY DEF Finished
<1>5. q \in Seqs /\ q \notin done /\ q \in Busy
  BY <1>1 DEF Decoding, Active, Busy, Advanced
<1> HIDE DEF ctx
<1>6. /\ reqTable'[q] = table[q]
      /\ table[q].kind = reqTable[q].kind
      /\ table[q].cancelled = reqTable[q].cancelled
      /\ table[q].prompt = IF ctx[q] < reqTable[q].prompt THEN reqTable[q].prompt ELSE 0
  BY <1>1, <1>2, <1>5, AdvancedAhead
<1>7. /\ table[q].prompt = 0 /\ table[q].kind = "generate" /\ Active(q)
  BY <1>5, <1>6 DEF Decoding, Active
<1>8. fed[q] \in Nat
  BY <1>5 DEF WellLaid
<1>9. ASSUME fed[q] = 0
      PROVE  FALSE
  <2>1. q \notin Decoding
    BY <1>9 DEF WellLaid
  <2>2. reqTable[q].prompt # 0 /\ reqTable[q].prompt \in Nat
    <3>1. reqTable[q].prompt \in Nat
      BY <1>5, InFlight, BatchAssumption DEF Prompts, BatchInv
    <3>2. reqTable[q].kind = "generate" /\ Active(q)
      BY <1>6, <1>7
    <3> QED
      BY <1>5, <2>1, <3>1, <3>2 DEF Decoding
  <2>3. context[q] < reqTable[q].prompt
    BY <1>5, <2>2 DEF BatchInv, RequestsAhead, Ahead
  <2> QED
    BY <1>3, <1>6, <1>7, <1>9, <2>2, <2>3
<1>10. q \in on /\ q \notin freed
  BY <1>4, <1>5, <1>8, <1>9
<1> HIDE DEF on, freed
<1> QED
  BY <1>1, <1>5, <1>8, <1>9, <1>10 DEF on

LEMMA StepLogits ==
  ASSUME BatchInv, Step
  PROVE  LogitsOwn'
<1>1. PICK fed, row : \E markers \in SUBSET MayMark(Decoding) :
          \E stops \in SUBSET (Decoding \ markers) :
             /\ WellLaid(fed, row)
             /\ StepWith(fed, row, Decoding \ markers, markers, stops)
  BY StepPicks
<1>2. PICK markers \in SUBSET MayMark(Decoding) :
          \E stops \in SUBSET (Decoding \ markers) :
             StepWith(fed, row, Decoding \ markers, markers, stops)
  BY <1>1
<1>3. PICK stops \in SUBSET (Decoding \ markers) :
          StepWith(fed, row, Decoding \ markers, markers, stops)
  BY <1>2
<1>4. WellLaid(fed, row) /\ markers \in SUBSET Decoding
  BY <1>1, <1>2 DEF MayMark
<1> DEFINE on == {p \in Seqs : fed[p] > 0}
<1>5. logits' = IF on = {} THEN logits ELSE LogitsAfter(on, row)
  BY <1>3 DEF StepWith
<1> SUFFICES ASSUME NEW q \in Decoding'
             PROVE  lastLogits'[q] # None /\ logits'[lastLogits'[q]] = q
  BY DEF LogitsOwn
<1>6. q \in Seqs /\ fed[q] > 0 /\ lastLogits'[q] = row[q]
  BY <1>3, <1>4, DecodersWereFed
<1>7. row[q] \in Rows /\ row[q] # None
  BY <1>4, <1>6, BatchAssumption DEF WellLaid, Rows, None
<1>8. \A p \in on : row[p] = row[q] => p = q
  BY <1>4, <1>6 DEF WellLaid
<1>9. q \in on
  BY <1>6
<1> HIDE DEF on
<1>10. LogitsAfter(on, row)[row[q]] = q
  BY <1>7, <1>8, <1>9 DEF LogitsAfter
<1> QED
  BY <1>5, <1>6, <1>7, <1>9, <1>10

\* A handler that leaves rows as they are and makes no decoder
LEMMA LogitsStay ==
  ASSUME LogitsOwn, logits' = logits,
         \A p \in Decoding' : p \in Decoding /\ lastLogits'[p] = lastLogits[p]
  PROVE  LogitsOwn'
BY DEF LogitsOwn

LEMMA NextLogitsInv ==
  ASSUME "new_tail" \notin Waived
  PROVE  LogitsInv /\ [Next]_vars => LogitsInv'
<1> SUFFICES ASSUME LogitsInv, [Next]_vars
             PROVE  LogitsInv'
  OBVIOUS
<1>0. BatchInv /\ BatchInv' /\ TypeOK /\ LogitsOwn
  BY NextBatchInv DEF LogitsInv, BatchInv
<1>1. ASSUME NEW q \in Seqs, NEW kind \in {"generate", "prefill_only"}, AdmitOn(q, kind)
      PROVE  LogitsOwn'
  <2>1. PICK keep, from, prompt, ladder : Enters(q, keep, from, prompt, ladder, kind)
    BY <1>0, <1>1, Admission
  <2>2. /\ from < prompt /\ prompt \in Nat /\ from \in Nat
        /\ logits' = logits /\ Others(q)
        /\ reqTable' = [reqTable EXCEPT ![q] =
              [kind |-> kind, session |-> keep, cancelled |-> FALSE,
               prompt |-> IF from < prompt THEN prompt ELSE 0, ladder |-> ladder]]
    BY <2>1, BatchAssumption DEF Enters, Admit, Prompts
  <2>3. reqTable'[q].prompt > 0
    BY <1>0, <2>2 DEF TypeOK
  <2>4. \A p \in Decoding' : p \in Seqs /\ p # q /\ reqTable'[p] = reqTable[p]
    BY <1>0, <2>2, <2>3 DEF Decoding, TypeOK
  <2>5. \A p \in Decoding' : p \in Decoding /\ lastLogits'[p] = lastLogits[p]
    BY <2>2, <2>4 DEF Decoding, Active, Busy, Others
  <2> QED
    BY <1>0, <2>2, <2>5, LogitsStay
<1>2. ASSUME NEW q \in Seqs, Cancel(q)
      PROVE  LogitsOwn'
  <2>1. /\ q \in Seqs /\ reqTable[q] \in Request
        /\ reqTable' = [reqTable EXCEPT ![q] = [reqTable[q] EXCEPT !.cancelled = TRUE]]
        /\ lastLogits' = lastLogits /\ logits' = logits
    BY <1>0, <1>2, InFlight DEF Cancel, seqVars
  <2>2. reqTable'[q].cancelled
    BY <1>0, <2>1 DEF TypeOK, Request
  <2>3. \A p \in Decoding' : p \in Decoding
    BY <1>0, <2>1, <2>2 DEF Decoding, Active, Busy, TypeOK
  <2> QED
    BY <1>0, <2>1, <2>3, LogitsStay
<1>3. ASSUME NEW q \in Seqs, EndSession(q) \/ ResetSession(q)
      PROVE  LogitsOwn'
  <2>1. /\ GiveUp(q)
        /\ \A p \in Seqs : p # q => reqTable'[p] = reqTable[p]
        /\ reqTable'[q] = NoRequest
    BY <1>0, <1>3 DEF EndSession, ResetSession, Idle, Busy, TypeOK
  <2>2. logits' = logits /\ Others(q)
    BY <1>0, <2>1, HoldsOne DEF GiveUp, Truncate
  <2>3. \A p \in Decoding' : p \in Decoding /\ lastLogits'[p] = lastLogits[p]
    BY <2>1, <2>2 DEF Decoding, Active, Busy, Others
  <2> QED
    BY <1>0, <2>2, <2>3, LogitsStay
<1>4. ASSUME SaveAll
      PROVE  LogitsOwn'
  BY <1>0, <1>4 DEF SaveAll, seqVars, LogitsOwn, Decoding, Active, Busy
<1>5. ASSUME NEW n \in Prompts, Verify(n)
      PROVE  LogitsOwn'
  BY <1>0, <1>5 DEF Verify, BatchInv, IdleEmpty, LogitsOwn, Decoding, Active, Busy
<1>6. ASSUME Step
      PROVE  LogitsOwn'
  BY <1>0, <1>6, StepLogits
<1>7. CASE Recover \/ Reload
  <2>1. Busy' = {}
    BY <1>0, <1>7, RenewedKeeps DEF Recover, Reload
  <2> QED
    BY <1>0, <2>1 DEF LogitsInv, LogitsOwn, Decoding, Active
<1>8. CASE UNCHANGED vars
  BY <1>0, <1>8 DEF vars, seqVars, LogitsInv, LogitsOwn, Decoding, Active, Busy
<1> QED
  BY <1>0, <1>1, <1>2, <1>3, <1>4, <1>5, <1>6, <1>7, <1>8 DEF Next, Tick, LogitsInv

LEMMA InitLogitsInv == Init => LogitsInv
BY InitBatchInv DEF Init, LogitsInv, LogitsOwn, Decoding, Active, Busy

\* If each turn of a session brings a new token, a sequence that samples
\* reads the logits its own last token left, however batches are composed
\* in between.
THEOREM LogitsAreOwn ==
  ASSUME "new_tail" \notin Waived
  PROVE  Spec => []LogitsOwn
<1>1. LogitsInv => LogitsOwn
  BY DEF LogitsInv
<1> QED
  BY <1>1, InitLogitsInv, NextLogitsInv, PTL DEF Spec

--------------------------------------------------------------------------------
(***************************************************************************)
(* Who is left out of a batch.  If the room of a prompt's turn is used up, *)
(* there was a first turn that found none: the prompt of the turn before   *)
(* it took the last row, and the logits in that row are its own.           *)
(***************************************************************************)
Fills(p, room) ==
    /\ p \in Prefilling
    /\ room[p] - room[p + 1] > 0
    /\ LastRow(room, Decoding)[p] = Budget - 1

LEMMA SomebodyFills ==
  ASSUME TypeOK, RequestsAhead, Cardinality(Decoding) < Budget,
         NEW room \in [0 .. NSeqMax -> 0 .. Budget], Layout(room, Decoding),
         NEW q \in Prefilling, ~(room[q] - room[q + 1] > 0)
  PROVE  \E p \in Prefilling : p < q /\ Fills(p, room)
<1> DEFINE S == {j \in 0 .. NSeqMax : room[j] = 0}
<1>1. q \in Seqs /\ q \in 0 .. NSeqMax /\ Cursor(q) > 0 /\ room[q] \in Nat
  BY BatchAssumption DEF Prefilling, Seqs
<1>2. room[q] = 0
  <2>1. room[q + 1] = room[q] - Slice(q, room[q])
    BY <1>1 DEF Layout
  <2>2. Slice(q, room[q]) \in Nat /\ (room[q] > 0 => Slice(q, room[q]) > 0)
    BY <1>1, SliceBounds
  <2> QED
    BY <1>1, <2>1, <2>2
<1>3. room[0] > 0
  BY DecodingIs, BatchAssumption DEF Layout
<1>4. PICK j \in S : \A k \in S : j <= k
  <2>1. S \in SUBSET Nat /\ S # {}
    BY <1>1, <1>2, BatchAssumption
  <2> HIDE DEF S
  <2> QED
    BY <2>1, LeastElement
<1>5. j \in 1 .. q /\ room[j] = 0
  BY <1>1, <1>2, <1>3, <1>4, BatchAssumption DEF Seqs
<1> DEFINE p == j - 1
<1>6. p \in Seqs /\ p \in 0 .. NSeqMax /\ p + 1 = j /\ p < q /\ p < j
  BY <1>1, <1>5, BatchAssumption DEF Seqs
<1>7. room[p] > 0 /\ room[p] \in Nat
  BY <1>4, <1>6, BatchAssumption
<1> HIDE DEF p, S
<1>8. room[p + 1] = 0 /\ room[p] - room[p + 1] = Slice(p, room[p])
  <2>1. room[p + 1] = 0
    BY <1>5, <1>6
  <2>2. room[p + 1] = room[p] - Slice(p, room[p]) /\ Slice(p, room[p]) \in Nat
    BY <1>6, <1>7, SliceBounds DEF Layout
  <2> QED
    BY <1>7, <2>1, <2>2
<1>9. p \in Prefilling /\ room[p] - room[p + 1] > 0
  BY <1>6, <1>7, <1>8, SliceBounds, CursorBounds DEF Prefilling
<1>10. LastRow(room, Decoding)[p] = Budget - 1
  BY <1>6, <1>8, <1>9, DecodingIs, BatchAssumption DEF LastRow
<1> QED
  BY <1>6, <1>9, <1>10 DEF Fills

\* What a step does to a request that is to be in its batch
PutOffBy(q) ==
    \/ nextPos'[q] > nextPos[q]
    \/ reqTable'[q] = NoRequest
    \/ q \in Prefilling /\ logits'[Budget - 1] \in {p \in Prefilling : p < q}

LEMMA FedAdvances ==
  ASSUME TypeOK, NEW fed, NEW row, NEW committed, NEW markers, NEW stops,
         StepWith(fed, row, committed, markers, stops),
         NEW q \in Seqs, fed[q] > 0, fed[q] \in Int
  PROVE  nextPos'[q] > nextPos[q] \/ reqTable'[q] = NoRequest
<1> DEFINE table == Advanced(Context(fed, markers))
           done  == Finished(table, stops)
           freed == {p \in done : ~table[p].session}
<1>1. /\ nextPos'  = [p \in Seqs |-> IF p \in freed THEN 0 ELSE nextPos[p] + fed[p]]
      /\ reqTable' = [p \in Seqs |-> IF p \in done THEN NoRequest ELSE table[p]]
  BY DEF StepWith
<1>2. freed \subseteq done
  OBVIOUS
<1>3. nextPos[q] \in Nat
  BY DEF TypeOK
<1> HIDE DEF table, done, freed
<1> QED
  BY <1>1, <1>2, <1>3

LEMMA StepPutsOff ==
  ASSUME BatchInv, Step
  PROVE  \A q \in Prefilling \cup Decoding : PutOffBy(q)
<1>1. TypeOK /\ RequestsAhead /\ Cardinality(Decoding) < Budget
  BY DEF BatchInv, Step, StepOn
<1>2. PICK room \in [0 .. NSeqMax -> 0 .. Budget] :
         /\ Layout(room, Decoding)
         /\ \E markers \in SUBSET MayMark(Decoding) :
                \E stops \in SUBSET (Decoding \ markers) :
                   StepWith(Fed(room, Decoding), LastRow(room, Decoding),
                            Decoding \ markers, markers, stops)
  BY DEF Step, StepOn
<1> DEFINE fed == Fed(room, Decoding)
           row == LastRow(room, Decoding)
           on  == {q \in Seqs : fed[q] > 0}
<1>3. PICK markers, stops : StepWith(fed, row, Decoding \ markers, markers, stops)
  BY <1>2
<1>4. WellLaid(fed, row)
  BY <1>1, <1>2, BatchLaidOut
<1>5. logits' = IF on = {} THEN logits ELSE LogitsAfter(on, row)
  BY <1>3 DEF StepWith
<1>6. \A q \in Seqs : fed[q] = IF q \in Decoding THEN 1 ELSE room[q] - room[q + 1]
  BY DEF Fed
<1>7. /\ Prefilling \subseteq Seqs /\ Decoding \subseteq Seqs
      /\ Decoding \cap Prefilling = {}
  BY <1>1, DecodingIs DEF Prefilling, Decoding
<1> SUFFICES ASSUME NEW q \in Prefilling \cup Decoding
             PROVE  PutOffBy(q)
  OBVIOUS
<1>8. CASE fed[q] > 0
  <2>1. q \in Seqs /\ fed[q] \in Int
    BY <1>4, <1>7 DEF WellLaid
  <2> HIDE DEF fed, row
  <2>2. nextPos'[q] > nextPos[q] \/ reqTable'[q] = NoRequest
    BY <1>1, <1>3, <1>8, <2>1, FedAdvances
  <2> QED
    BY <2>2 DEF PutOffBy
<1>9. CASE ~(fed[q] > 0)
  <2>1. q \in Prefilling /\ ~(room[q] - room[q + 1] > 0)
    BY <1>6, <1>7, <1>9
  <2>2. PICK p \in Prefilling : p < q /\ Fills(p, room)
    BY <1>1, <1>2, <2>1, SomebodyFills
  <2>3. p \in Seqs /\ fed[p] > 0 /\ row[p] = Budget - 1
    BY <1>6, <1>7, <2>2 DEF Fills
  <2> HIDE DEF fed, row
  <2>4. p \in on /\ Budget - 1 \in Rows /\ \A r \in on : row[r] = Budget - 1 => r = p
    BY <1>4, <2>3, BatchAssumption DEF WellLaid, Rows
  <2> HIDE DEF on
  <2>5. LogitsAfter(on, row)[Budget - 1] = p
    BY <2>3, <2>4 DEF LogitsAfter
  <2>6. logits'[Budget - 1] = p
    BY <1>5, <2>4, <2>5
  <2> QED
    BY <2>1, <2>2, <2>6 DEF PutOffBy
<1> QED
  BY <1>8, <1>9

\* Only a step feeds a request in flight.
LEMMA OnlyStepsFeed ==
  ASSUME BatchInv, Next, NEW a \in Seqs, Active(a), nextPos'[a] > nextPos[a]
  PROVE  Step
<1>0. TypeOK /\ a \in Busy /\ nextPos[a] \in Nat
  BY DEF BatchInv, TypeOK, Active
<1>1. ASSUME NEW q \in Seqs, NEW kind \in {"generate", "prefill_only"}, AdmitOn(q, kind)
      PROVE  FALSE
  <2>1. PICK keep, from, prompt, ladder : Enters(q, keep, from, prompt, ladder, kind)
    BY <1>1, Admission
  <2>2. q # a /\ Others(q)
    BY <1>0, <2>1 DEF Enters, Idle
  <2> QED
    BY <1>0, <2>2 DEF Others
<1>2. ASSUME NEW q \in Seqs, Cancel(q) \/ SaveAll
      PROVE  FALSE
  BY <1>0, <1>2 DEF Cancel, SaveAll, seqVars
<1>3. ASSUME NEW q \in Seqs, EndSession(q) \/ ResetSession(q)
      PROVE  FALSE
  <2>1. GiveUp(q)
    BY <1>3 DEF EndSession, ResetSession
  <2>2. Others(q) /\ nextPos'[q] = Least(cells[q], 0)
    BY <1>0, <2>1, HoldsOne DEF GiveUp, Truncate
  <2>3. nextPos'[q] <= 0 /\ nextPos'[q] \in Int
    BY <1>0, <2>2, LeastIs DEF TypeOK
  <2> QED
    BY <1>0, <2>2, <2>3 DEF Others
<1>4. ASSUME NEW n \in Prompts, Verify(n)
      PROVE  FALSE
  BY <1>0, <1>4 DEF Verify, BatchInv, IdleEmpty
<1>5. ASSUME Recover \/ Reload
      PROVE  FALSE
  BY <1>0, <1>5 DEF Recover, Reload, Renewed
<1>6. 0 \in Seqs
  BY BatchAssumption DEF Seqs
<1> QED
  BY <1>1, <1>2, <1>3, <1>4, <1>5, <1>6 DEF Next, Tick

\* A batch that feeds one request leaves another one out only if prompts on
\* lower sequences fill it to its last row, whatever the budget, the chunk and
\* the number of sequences.
THEOREM OnlyFullBatchesPutOff == Spec => PutOffWhenFull
<1>1. ASSUME BatchInv, [Next]_vars
      PROVE  [(\E q \in Seqs : Active(q) /\ nextPos'[q] > nextPos[q]) =>
                 \A q \in Prefilling \cup Decoding :
                     \/ nextPos'[q] > nextPos[q]
                     \/ reqTable'[q] = NoRequest
                     \/ /\ q \in Prefilling
                        /\ logits'[Budget - 1] \in {p \in Prefilling : p < q}]_vars
  BY <1>1, OnlyStepsFeed, StepPutsOff DEF PutOffBy
<1> QED
  BY <1>1, InitBatchInv, NextBatchInv, PTL DEF Spec, PutOffWhenFull

(***************************************************************************)
(* A budget that holds a chunk for each sequence but one, and a row more.  *)
(***************************************************************************)
\* The sequences that were served before sequence j had its turn
Served(j) == {p \in Decoding \cup Prefilling : p \in Decoding \/ p < j}

LEMMA ServedIs ==
  ASSUME TypeOK, RequestsAhead
  PROVE  /\ \A j : /\ Served(j) \in SUBSET Seqs /\ IsFiniteSet(Served(j))
                   /\ Cardinality(Served(j)) \in Nat
         /\ Served(0) = Decoding
         /\ \A j \in Seqs : Served(j + 1) = IF j \in Prefilling THEN Served(j) \cup {j} ELSE Served(j)
         /\ \A j \in Prefilling : j \notin Served(j)
<1>1. Decoding \subseteq Seqs /\ Prefilling \subseteq Seqs /\ Decoding \cap Prefilling = {}
  BY DecodingIs DEF Decoding, Prefilling
<1>2. \A j : Served(j) \in SUBSET Seqs
  BY <1>1 DEF Served
<1>3. Served(0) = Decoding
  <2>1. \A p \in Seqs : ~(p < 0)
    BY DEF Seqs
  <2> QED
    BY <1>1, <2>1 DEF Served
<1>4. \A j \in Seqs : Served(j + 1) = IF j \in Prefilling THEN Served(j) \cup {j} ELSE Served(j)
  <2>1. \A i, j \in Seqs : i < j + 1 <=> i < j \/ i = j
    BY DEF Seqs
  <2> QED
    BY <1>1, <2>1 DEF Served
<1>5. \A j \in Prefilling : j \notin Served(j)
  BY <1>1 DEF Served, Seqs
<1> QED
  BY <1>2, <1>3, <1>4, <1>5, SeqsFinite

\* The budget that is spent when sequence j has its turn: at most a chunk
\* for each sequence served.
LEMMA BudgetSpent ==
  ASSUME TypeOK, RequestsAhead,
         NEW room \in [0 .. NSeqMax -> 0 .. Budget], Layout(room, Decoding)
  PROVE  \A j \in 0 .. NSeqMax : Budget - room[j] <= Chunk * Cardinality(Served(j))
<1> DEFINE n(j) == Cardinality(Served(j))
           S    == {j \in 0 .. NSeqMax : ~(Budget - room[j] <= Chunk * n(j))}
<1> SUFFICES ASSUME S # {}
             PROVE  FALSE
  OBVIOUS
<1>1. \A j : n(j) \in Nat
  BY ServedIs
<1>2. PICK j \in S : \A k \in S : j <= k
  <2>1. S \in SUBSET Nat
    BY BatchAssumption
  <2> HIDE DEF S
  <2> QED
    BY <2>1, LeastElement
<1>3. j \in 0 .. NSeqMax /\ ~(Budget - room[j] <= Chunk * n(j)) /\ room[j] \in Nat
  BY BatchAssumption
<1>4. CASE j = 0
  <2>1. Budget - room[j] = n(j)
    <3>1. room[0] = Budget - n(0)
      BY ServedIs DEF Layout
    <3> QED
      BY <1>1, <1>4, <3>1, BatchAssumption
  <2>2. n(j) <= Chunk * n(j)
    BY <1>1, Grows, BatchAssumption
  <2> QED
    BY <1>3, <2>1, <2>2
<1>5. CASE j > 0
  <2> DEFINE i == j - 1
  <2>1. i \in Seqs /\ i \in 0 .. NSeqMax /\ i + 1 = j /\ i < j
    BY <1>3, <1>5, BatchAssumption DEF Seqs
  <2>2. room[i] \in Nat /\ room[j] = room[i] - Slice(i, room[i])
    <3>1. room[i + 1] = room[i] - Slice(i, room[i])
      BY <2>1 DEF Layout
    <3> QED
      BY <2>1, <3>1, BatchAssumption
  <2>3. Budget - room[i] <= Chunk * n(i)
    BY <1>2, <1>3, <2>1, BatchAssumption
  <2>4. Slice(i, room[i]) \in Nat /\ Slice(i, room[i]) <= Cursor(i) /\ Slice(i, room[i]) <= Chunk
    BY <2>1, <2>2, SliceBounds
  <2>5. Served(j) = IF i \in Prefilling THEN Served(i) \cup {i} ELSE Served(i)
    BY <2>1, ServedIs
  <2>6. CASE i \in Prefilling
    <3>1. n(j) = n(i) + 1
      <4>1. Served(j) = Served(i) \cup {i} /\ i \notin Served(i) /\ IsFiniteSet(Served(i))
        BY <2>5, <2>6, ServedIs
      <4> HIDE DEF i
      <4> QED
        BY <4>1, FS_AddElement
    <3> HIDE DEF n, i
    <3>2. Chunk * (n(i) + 1) = Chunk * n(i) + Chunk
      BY <1>1, BatchAssumption
    <3>3. Chunk * n(i) \in Nat
      BY <1>1, BatchAssumption
    <3>4. Chunk * n(j) = Chunk * n(i) + Chunk
      BY <3>1, <3>2
    <3> QED
      BY SMTT(20), <1>3, <2>2, <2>3, <2>4, <3>3, <3>4, BatchAssumption
  <2>7. CASE i \notin Prefilling
    <3>1. Cursor(i) = 0
      BY <2>1, <2>7, CursorBounds DEF Prefilling
    <3>2. n(j) = n(i) /\ room[j] = room[i]
      BY <2>2, <2>4, <2>5, <2>7, <3>1
    <3> QED
      BY <1>3, <2>3, <3>2
  <2> QED
    BY <2>6, <2>7
<1> QED
  BY <1>3, <1>4, <1>5, BatchAssumption

LEMMA ChunksScale ==
  ASSUME NEW n \in Nat, n <= NSeqMax - 1
  PROVE  Chunk * n <= Chunk * (NSeqMax - 1)
BY SMTT(20), Scales, BatchAssumption

LEMMA RoomIsLeft ==
  ASSUME TypeOK, RequestsAhead,
         NEW room \in [0 .. NSeqMax -> 0 .. Budget], Layout(room, Decoding),
         NEW q \in Prefilling, Budget > Chunk * (NSeqMax - 1)
  PROVE  room[q] > 0 /\ room[q] - room[q + 1] > 0
<1>1. q \in Seqs /\ Cursor(q) > 0 /\ q \in 0 .. NSeqMax
  BY BatchAssumption DEF Prefilling, Seqs
<1>2. Cardinality(Served(q)) \in Nat /\ Cardinality(Served(q)) <= NSeqMax - 1
  <2>1. Served(q) \in SUBSET (Seqs \ {q})
    BY ServedIs
  <2>2. IsFiniteSet(Seqs \ {q}) /\ Cardinality(Seqs \ {q}) = NSeqMax - 1
    BY <1>1, SeqsFinite, FS_RemoveElement
  <2> QED
    BY <2>1, <2>2, ServedIs, FS_Subset
<1>3. Chunk * Cardinality(Served(q)) <= Chunk * (NSeqMax - 1)
  BY <1>2, ChunksScale
<1>4. Budget - room[q] <= Chunk * Cardinality(Served(q))
  BY <1>1, BudgetSpent
<1>5. room[q] \in Nat /\ room[q] > 0
  <2> DEFINE a == Chunk * Cardinality(Served(q))
             b == Chunk * (NSeqMax - 1)
  <2>1. a \in Nat /\ b \in Int /\ a <= b /\ b < Budget /\ Budget - room[q] <= a
    BY <1>2, <1>3, <1>4, BatchAssumption
  <2>2. room[q] \in Nat /\ Budget \in Nat
    BY <1>1, BatchAssumption
  <2> HIDE DEF a, b
  <2> QED
    BY <2>1, <2>2
<1>6. room[q + 1] = room[q] - Slice(q, room[q]) /\ Slice(q, room[q]) > 0 /\ Slice(q, room[q]) \in Nat
  BY <1>1, <1>5, SliceBounds DEF Layout
<1> QED
  BY <1>5, <1>6

\* Then a batch that feeds one request feeds them all.
EveryoneFed ==
    [][(\E q \in Seqs : Active(q) /\ nextPos'[q] > nextPos[q]) =>
          \A q \in Prefilling \cup Decoding :
              nextPos'[q] > nextPos[q] \/ reqTable'[q] = NoRequest]_vars

LEMMA StepFeeds ==
  ASSUME BatchInv, Step, Budget > Chunk * (NSeqMax - 1)
  PROVE  \A q \in Prefilling \cup Decoding :
            nextPos'[q] > nextPos[q] \/ reqTable'[q] = NoRequest
<1>1. TypeOK /\ RequestsAhead
  BY DEF BatchInv
<1>2. PICK room \in [0 .. NSeqMax -> 0 .. Budget] :
         /\ Layout(room, Decoding)
         /\ \E markers \in SUBSET MayMark(Decoding) :
                \E stops \in SUBSET (Decoding \ markers) :
                   StepWith(Fed(room, Decoding), LastRow(room, Decoding),
                            Decoding \ markers, markers, stops)
  BY DEF Step, StepOn
<1> DEFINE fed == Fed(room, Decoding)
           row == LastRow(room, Decoding)
<1>3. PICK markers, stops : StepWith(fed, row, Decoding \ markers, markers, stops)
  BY <1>2
<1> SUFFICES ASSUME NEW q \in Prefilling \cup Decoding
             PROVE  nextPos'[q] > nextPos[q] \/ reqTable'[q] = NoRequest
  OBVIOUS
<1>4. q \in Seqs /\ room[q] \in Nat /\ room[q + 1] \in Nat
  BY BatchAssumption DEF Prefilling, Decoding, Seqs
<1>5. q \notin Decoding => room[q] - room[q + 1] > 0
  BY <1>1, <1>2, RoomIsLeft
<1>6. fed[q] > 0 /\ fed[q] \in Int
  BY <1>4, <1>5 DEF Fed
<1> HIDE DEF fed, row
<1> QED
  BY <1>1, <1>3, <1>4, <1>6, FedAdvances

\* A batch that feeds one request feeds every one that is not cancelled, if the
\* budget holds a chunk for each sequence but one and a row more.
THEOREM EveryoneIsFed ==
  ASSUME Budget > Chunk * (NSeqMax - 1)
  PROVE  Spec => EveryoneFed
<1>1. ASSUME BatchInv, [Next]_vars
      PROVE  [(\E q \in Seqs : Active(q) /\ nextPos'[q] > nextPos[q]) =>
                 \A q \in Prefilling \cup Decoding :
                     nextPos'[q] > nextPos[q] \/ reqTable'[q] = NoRequest]_vars
  BY <1>1, OnlyStepsFeed, StepFeeds
<1> QED
  BY <1>1, InitBatchInv, NextBatchInv, PTL DEF Spec, EveryoneFed

--------------------------------------------------------------------------------
(***************************************************************************)
(* Each sequence as if it had a context to itself.                         *)
(***************************************************************************)
SoloInv == MatchInv /\ LogitsOwn

LEMMA SoloFacts ==
  ASSUME SoloInv
  PROVE  /\ BatchInv /\ MatchInv /\ LogitsInv /\ TypeOK /\ CellsMatch /\ CheckpointExact
         /\ \A q \in Seqs : Text[q] \in Nat
         /\ \A q \in Busy \cup pinned : q \in Seqs /\ Text[q] = cells[q] /\ Text[q] = context[q]
         /\ \A q \in Seqs \ (Busy \cup pinned) : Text[q] = 0
<1>1. BatchInv /\ MatchInv /\ LogitsInv /\ TypeOK /\ CellsMatch /\ CheckpointExact
  BY DEF SoloInv, MatchInv, BatchInv, LogitsInv
<1> QED
  BY <1>1 DEF Text, TypeOK, Busy, CellsMatch

\* Only sequence q is touched, and logits stay where they are.
LEMMA Restarted ==
  ASSUME SoloInv, NEW q \in Seqs, Others(q), logits' = logits, checkpoints' = checkpoints,
         \A p \in Seqs \ {q} : p \in Busy' \cup pinned' <=> p \in Busy \cup pinned,
         lastLogits'[q] \in {lastLogits[q], None},
         Decoding' = Decoding \ {q},
         Text'[q] \in (0 .. Text[q]) \cup {n - 1 : n \in Stored}
  PROVE  Solo!Restart(q)
<1>1. \A p \in Seqs \ {q} : Text'[p] = Text[p]
  BY DEF Text, Others
<1>2. Text' = [Text EXCEPT ![q] = Text'[q]]
  BY <1>1 DEF Text
<1>3. Ready' \in {Ready, Ready \ {q}}
  BY DEF Ready, Others
<1>4. Stored' = Stored
  BY DEF Stored
<1> QED
  BY <1>2, <1>3, <1>4 DEF Solo!Restart

\* An admission starts with what its sequence holds, or with a checkpoint
\* but for its last token.
LEMMA StartsFrom ==
  ASSUME SoloInv, NEW q \in Seqs, NEW kind, AdmitOn(q, kind)
  PROVE  /\ cells'[q] \in (0 .. Text[q]) \cup {n - 1 : n \in Stored}
         /\ lastLogits'[q] \in {lastLogits[q], None}
         /\ \A p \in Seqs \ {q} : p \in pinned' <=> p \in pinned
<1>0. TypeOK /\ CheckpointExact /\ Text[q] \in Nat /\ cells[q] \in Nat
      /\ (q \in pinned => Text[q] = cells[q] /\ Text[q] = context[q])
  BY SoloFacts DEF TypeOK
<1>1. ASSUME NEW keep \in BOOLEAN, NEW prompt \in Prompts, NEW ladder \in SUBSET (1 .. prompt),
             AdmitCold(q, keep, prompt, ladder, kind)
      PROVE  /\ cells'[q] = 0 /\ lastLogits'[q] = None /\ pinned' = pinned \ {q}
  BY <1>0, <1>1 DEF AdmitCold, FreeFor, Truncate, Holds, Least, TypeOK
<1>2. ASSUME NEW keep \in BOOLEAN, NEW c \in checkpoints, NEW n \in Prompts,
             AdmitWarm(q, keep, c, n, kind)
      PROVE  /\ cells'[q] \in {m - 1 : m \in Stored}
             /\ lastLogits'[q] = None /\ pinned' = pinned \ {q}
  <2>1. c.tokens = c.cells /\ c.cells \in Nat /\ c.cells \in Stored
    BY <1>0 DEF CheckpointExact, TypeOK, Stored
  <2>2. cells'[q] = c.cells - 1
    BY <1>0, <1>2, <2>1 DEF AdmitWarm, Holds, Least, TypeOK
  <2> QED
    BY <1>0, <1>2, <2>1, <2>2 DEF AdmitWarm, FreeFor, Holds, TypeOK
<1>3. ASSUME NEW n \in Prompts, AdmitSticky(q, n, kind)
      PROVE  cells'[q] = Text[q] /\ lastLogits' = lastLogits /\ pinned' = pinned
  BY <1>0, <1>3 DEF AdmitSticky, InPlace, seqVars
<1>4. ASSUME NEW common \in Lengths, NEW n \in Prompts, AdmitPartial(q, common, n, kind)
      PROVE  cells'[q] \in 0 .. Text[q] /\ lastLogits'[q] = None /\ pinned' = pinned
  <2>1. q \in pinned /\ pinned' = pinned /\ common \in 1 .. context[q] - 1
    BY <1>4 DEF AdmitPartial, InPlace
  <2>2. cells'[q] = Least(cells[q], common - 1) /\ lastLogits'[q] = None
    BY <1>0, <1>4 DEF AdmitPartial, Truncate, Holds, TypeOK
  <2> QED
    BY <1>0, <2>1, <2>2 DEF Least
<1> QED
  BY <1>0, <1>1, <1>2, <1>3, <1>4, PromptsAssumption DEF AdmitOn

LEMMA AdmitRestarts ==
  ASSUME SoloInv, "new_tail" \notin Waived, NEW q \in Seqs,
         NEW kind \in {"generate", "prefill_only"}, AdmitOn(q, kind)
  PROVE  Solo!Restart(q)
<1>0. BatchInv /\ TypeOK /\ CellsMatch /\ CheckpointExact
  BY SoloFacts
<1>1. PICK keep, from, prompt, ladder : Enters(q, keep, from, prompt, ladder, kind)
  BY <1>0, Admission
<1>2. /\ from < prompt /\ prompt \in Nat /\ from \in Nat
      /\ logits' = logits /\ checkpoints' = checkpoints /\ Others(q) /\ q \notin Busy
      /\ \A p \in Seqs \ {q} : reqTable'[p] = reqTable[p]
      /\ reqTable'[q] = [kind |-> kind, session |-> keep, cancelled |-> FALSE,
                         prompt |-> prompt, ladder |-> ladder]
  BY <1>0, <1>1, BatchAssumption DEF Enters, Admit, Prompts, Idle, TypeOK
<1>3. prompt \in Prompts /\ ladder \subseteq Prompts /\ keep \in BOOLEAN
  BY <1>1 DEF Enters, Admit
<1>4. reqTable'[q] \in Request /\ reqTable'[q].prompt # 0
  BY <1>2, <1>3 DEF Request
<1>5. q \in Busy' /\ \A p \in Seqs \ {q} : p \in Busy' <=> p \in Busy
  BY <1>2, <1>4, RequestAssumption DEF Busy
<1>6. Decoding' = Decoding \ {q}
  BY <1>2, <1>4, <1>5 DEF Decoding, Active
<1>7. Text'[q] = cells'[q]
  BY <1>5 DEF Text
<1> QED
  BY <1>2, <1>5, <1>6, <1>7, StartsFrom, Restarted

LEMMA LeavesRestart ==
  ASSUME SoloInv, NEW q \in Seqs, EndSession(q) \/ ResetSession(q)
  PROVE  Solo!Restart(q)
<1>0. BatchInv /\ TypeOK /\ Text[q] \in Nat
  BY SoloFacts
<1>1. /\ GiveUp(q)
      /\ \A p \in Seqs \ {q} : reqTable'[p] = reqTable[p]
      /\ reqTable'[q] = NoRequest
  BY <1>0 DEF EndSession, ResetSession, Idle, Busy, TypeOK
<1>2. /\ logits' = logits /\ checkpoints' = checkpoints /\ Others(q)
      /\ pinned' = pinned \ {q} /\ lastLogits'[q] = None
  BY <1>0, <1>1, HoldsOne DEF GiveUp, Truncate, Holds, TypeOK
<1>3. q \notin Busy' /\ \A p \in Seqs \ {q} : p \in Busy' <=> p \in Busy
  BY <1>1 DEF Busy
<1>4. Decoding' = Decoding \ {q}
  BY <1>1, <1>3 DEF Decoding, Active
<1>5. Text'[q] = 0
  BY <1>2, <1>3 DEF Text
<1> QED
  BY <1>0, <1>2, <1>3, <1>4, <1>5, Restarted

LEMMA CancelRestarts ==
  ASSUME SoloInv, NEW q \in Seqs, Cancel(q)
  PROVE  Solo!Restart(q)
<1>0. TypeOK /\ Text[q] \in Nat
  BY SoloFacts
<1>1. /\ q \in Busy /\ reqTable[q] \in Request
      /\ reqTable' = [reqTable EXCEPT ![q] = [reqTable[q] EXCEPT !.cancelled = TRUE]]
      /\ UNCHANGED <<pinned, cells, nextPos, lastLogits, logits, checkpoints>>
  BY <1>0, InFlight DEF Cancel, seqVars
<1>2. [reqTable[q] EXCEPT !.cancelled = TRUE] \in Request
  BY <1>1 DEF Request
<1>3. /\ reqTable'[q] \in Request /\ reqTable'[q].cancelled
      /\ \A p \in Seqs \ {q} : reqTable'[p] = reqTable[p]
  BY <1>0, <1>1, <1>2 DEF TypeOK, Request
<1>4. Busy' = Busy
  BY <1>1, <1>3, RequestAssumption DEF Busy
<1>5. Decoding' = Decoding \ {q}
  BY <1>3, <1>4 DEF Decoding, Active
<1>6. Others(q) /\ Text'[q] = Text[q]
  BY <1>1, <1>4 DEF Others, Text
<1> QED
  BY <1>0, <1>1, <1>4, <1>5, <1>6, Restarted

LEMMA SaveChecks ==
  ASSUME SoloInv, SaveAll
  PROVE  Solo!Checkpoint
<1>0. CellsMatch /\ CheckpointExact /\ Busy \in SUBSET Seqs /\ \A q \in Busy : Text[q] = context[q]
  BY SoloFacts DEF Busy
<1>1. Text' = Text /\ Decoding' = Decoding /\ Ready' = Ready
  BY DEF SaveAll, seqVars, Text, Decoding, Active, Busy, Ready
<1>2. Stored' \subseteq Stored \cup {Text[q] : q \in {p \in Seqs : Text[p] > 0}}
  BY <1>0 DEF SaveAll, Stored, Save, Saved, CellsMatch
<1> QED
  BY <1>1, <1>2 DEF Solo!Checkpoint

LEMMA VerifyBorrows ==
  ASSUME SoloInv, "free_verify" \notin Waived, NEW n \in Prompts, Verify(n)
  PROVE  Solo!Borrow
<1>0. TypeOK /\ Busy = {} /\ 0 \notin pinned
  BY SoloFacts DEF Verify, BatchInv, IdleEmpty
<1>1. Busy' = {} /\ Decoding = {} /\ Decoding' = {}
  BY <1>0 DEF Verify, Busy, Decoding, Active
<1>2. Text' = Text /\ Stored' = Stored
  BY <1>0, <1>1 DEF Verify, Text, TypeOK, Stored
<1>3. Ready' = {}
  <2>1. \A q \in Seqs : lastLogits'[q] # None => lastLogits'[q] \in Rows
    BY <1>0 DEF Verify, TypeOK
  <2>2. \A q \in Seqs : q # None
    BY BatchAssumption DEF Seqs, None
  <2> QED
    BY <2>1, <2>2 DEF Verify, Ready
<1> QED
  BY <1>1, <1>2, <1>3 DEF Solo!Borrow

LEMMA RenewedEmpties ==
  ASSUME SoloInv, Renewed
  PROVE  Solo!Empty
<1>1. Busy' = {} /\ pinned' = {}
  BY SoloFacts, RenewedKeeps
<1>2. Decoding' = {} /\ Ready' = {} /\ Stored' = Stored
  BY <1>1 DEF Renewed, Decoding, Active, Ready, Stored
<1> QED
  BY <1>1, <1>2 DEF Text, Solo!Empty

LEMMA StepIsFeed ==
  ASSUME SoloInv, LogitsOwn', "no_markers" \notin Waived, Step
  PROVE  \E fed \in [Seqs -> 0 .. Budget], emptied \in SUBSET Seqs : Solo!Feed(fed, emptied)
<1>0. /\ BatchInv /\ TypeOK /\ CellsMatch /\ CheckpointExact /\ MayMark(Decoding) = {}
      /\ \A q \in Seqs : Text[q] \in Nat
      /\ \A q \in Busy \cup pinned : q \in Seqs /\ Text[q] = cells[q] /\ Text[q] = context[q]
      /\ \A q \in Seqs \ (Busy \cup pinned) : Text[q] = 0
  BY SoloFacts DEF MayMark
<1>1. PICK fed, row : \E stops \in SUBSET Decoding :
               /\ WellLaid(fed, row)
               /\ StepWith(fed, row, Decoding, {}, stops)
  BY <1>0, StepPicks
<1>2. PICK stops \in SUBSET Decoding : StepWith(fed, row, Decoding, {}, stops)
  BY <1>1
<1> DEFINE on    == {q \in Seqs : fed[q] > 0}
           held  == [q \in Seqs |-> cells[q] + fed[q]]
           ctx   == Context(fed, {})
           table == Advanced(ctx)
           done  == Finished(table, stops)
           freed == {q \in done : ~table[q].session}
           qs    == done \cup Decoding \cup AtBoundary(ctx)
           grown == [q \in Seqs |-> Text[q] + fed[q]]
<1>3. /\ Save(qs, ctx, held)
      /\ cells'    = [q \in Seqs |-> IF q \in freed THEN 0 ELSE held[q]]
      /\ lastLogits' = [q \in Seqs |-> IF q \in freed THEN None
                                       ELSE IF q \in on THEN row[q]
                                       ELSE lastLogits[q]]
      /\ logits'     = IF on = {} THEN logits ELSE LogitsAfter(on, row)
      /\ reqTable' = [q \in Seqs |-> IF q \in done THEN NoRequest ELSE table[q]]
      /\ pinned'   = pinned \cup (done \ freed)
  BY <1>2 DEF StepWith
<1>4. /\ \A q \in Seqs : ctx[q] = context[q] + fed[q] /\ held[q] = cells[q] + fed[q]
      /\ \A q \in Seqs : grown[q] = Text[q] + fed[q]
  BY DEF Context
<1>5. /\ \A q \in Seqs \ Busy : table[q] = NoRequest
      /\ \A q \in Busy : table[q] # NoRequest
  <2>1. ctx \in [Seqs -> Lengths]
    BY <1>0, <1>1, ContextBounds DEF Context
  <2> HIDE DEF ctx
  <2> QED
    BY <1>0, <2>1, AdvancedAhead, RequestAssumption
<1>6. /\ done \subseteq Busy /\ freed \subseteq done /\ qs \subseteq Busy
      /\ Busy \subseteq Seqs /\ pinned \subseteq Seqs
  BY <1>0, CursorBounds
     DEF Finished, Busy, Decoding, Active, AtBoundary, Prefilling, Cursor, TypeOK
<1>7. /\ fed \in [Seqs -> Nat]
      /\ \A q \in Seqs : q \notin Busy => fed[q] = 0
      /\ \A q \in Seqs : fed[q] <= Budget
  BY <1>0, <1>1, ContextBounds DEF WellLaid
<1>8. /\ \A q \in on : row[q] \in Rows
      /\ \A p, q \in on : row[p] = row[q] => p = q
      /\ \A q \in Decoding : fed[q] = 1
  BY <1>1 DEF WellLaid
<1>9. \A q \in Decoding' : q \in on \ freed
  <2> SUFFICES ASSUME NEW q \in Decoding'
               PROVE  q \in on \ freed
    OBVIOUS
  <2>1. q \in Seqs /\ fed[q] > 0 /\ q \in Busy'
    BY <1>0, <1>1, <1>2, DecodersWereFed DEF Decoding, Active
  <2>2. q \notin done
    BY <1>3, <2>1 DEF Busy
  <2> QED
    BY <1>6, <2>1, <2>2
<1> HIDE DEF held, ctx, table, done, freed, qs
<1>10. \A q \in Seqs : q \in Busy' \cup pinned' <=> q \in (Busy \cup pinned) \ freed \/ q \in pinned
  <2>1. \A q \in Seqs : q \in Busy' <=> q \in Busy \ done
    BY <1>3, <1>5, <1>6 DEF Busy
  <2> QED
    BY <1>3, <1>6, <2>1
<1>11. Text' = [q \in Seqs |-> IF q \in freed THEN 0 ELSE grown[q]]
  <2> SUFFICES ASSUME NEW q \in Seqs
               PROVE  Text'[q] = IF q \in freed THEN 0 ELSE grown[q]
    BY DEF Text
  <2>1. Text'[q] = IF q \in Busy' \cup pinned' THEN cells'[q] ELSE 0
    BY DEF Text
  <2>2. CASE q \in freed
    BY <1>3, <2>1, <2>2
  <2>3. CASE q \in (Busy \cup pinned) \ freed
    BY <1>0, <1>3, <1>4, <1>10, <2>1, <2>3
  <2>4. CASE q \notin Busy \cup pinned
    <3>1. q \notin freed /\ fed[q] = 0 /\ Text[q] = 0
      BY <1>0, <1>6, <1>7, <2>4
    <3> QED
      BY <1>4, <1>10, <2>1, <2>4, <3>1
  <2> QED
    BY <2>2, <2>3, <2>4
<1>12. on \ freed \subseteq Ready' /\ Ready' \subseteq Ready \cup on
  <2>1. \A r \in Rows : \A q \in on : row[q] = r => LogitsAfter(on, row)[r] = q
    BY <1>8 DEF LogitsAfter
  <2>2. \A r \in Rows : LogitsAfter(on, row)[r] \in on \cup {None}
    <3>1. \A r \in Rows : (\E q \in on : row[q] = r) => (CHOOSE q \in on : row[q] = r) \in on
      OBVIOUS
    <3> HIDE DEF on
    <3> QED
      BY <3>1 DEF LogitsAfter
  <2>3. \A r \in Rows : r # None
    BY BatchAssumption DEF Rows, None
  <2>4. \A q \in Seqs : q # None /\ lastLogits[q] \in Rows \cup {None}
    BY <1>0, BatchAssumption DEF TypeOK, Seqs, None
  <2>5. ASSUME NEW q \in on \ freed
        PROVE  q \in Ready'
    <3>1. q \in Seqs /\ lastLogits'[q] = row[q] /\ row[q] \in Rows
      BY <1>3, <1>8, <2>5
    <3>2. logits'[row[q]] = q
      <4> HIDE DEF on
      <4> QED
        BY <1>3, <2>1, <2>5, <3>1
    <3> QED
      BY <2>3, <3>1, <3>2 DEF Ready
  <2>6. ASSUME NEW q \in Ready', q \notin on
        PROVE  q \in Ready
    <3>1. q \in Seqs /\ lastLogits'[q] # None /\ logits'[lastLogits'[q]] = q
      BY <2>6 DEF Ready
    <3>2. lastLogits'[q] = lastLogits[q] /\ lastLogits[q] \in Rows
      BY <1>3, <2>4, <2>6, <3>1
    <3>3. on = {}
      <4> HIDE DEF on
      <4> QED
        BY <1>3, <2>2, <2>4, <2>6, <3>1, <3>2
    <3> HIDE DEF on
    <3> QED
      BY <1>3, <3>1, <3>2, <3>3 DEF Ready
  <2> QED
    BY <2>5, <2>6
<1>13. Stored' \subseteq Stored \cup {grown[q] : q \in {p \in Seqs : grown[p] > 0}}
  <2>1. \A q \in qs : q \in Seqs /\ held[q] = ctx[q] /\ held[q] = grown[q]
    BY <1>0, <1>4, <1>6 DEF CellsMatch
  <2> HIDE DEF grown
  <2> QED
    BY <1>3, <2>1 DEF Save, Saved, Stored
<1>14. fed \in [Seqs -> 0 .. Budget] /\ freed \in SUBSET Seqs
  BY <1>6, <1>7, BatchAssumption
<1>15. Decoding \subseteq Ready
  BY DEF SoloInv, LogitsOwn, Decoding, Ready
<1>16. Solo!Feed(fed, freed)
  BY <1>8, <1>9, <1>11, <1>12, <1>13, <1>15 DEF Solo!Feed
<1> QED
  BY <1>14, <1>16

LEMMA SoloStep ==
  ASSUME SoloInv, SoloInv', Next, Waived \cap {"new_tail", "no_markers", "free_verify"} = {}
  PROVE  Solo!SoloNext
<1>1. ASSUME NEW q \in Seqs, NEW kind \in {"generate", "prefill_only"}, AdmitOn(q, kind)
      PROVE  Solo!SoloNext
  BY <1>1, AdmitRestarts DEF Solo!SoloNext
<1>2. ASSUME NEW q \in Seqs, Cancel(q) \/ EndSession(q) \/ ResetSession(q)
      PROVE  Solo!SoloNext
  BY <1>2, CancelRestarts, LeavesRestart DEF Solo!SoloNext
<1>3. CASE SaveAll
  BY <1>3, SaveChecks DEF Solo!SoloNext
<1>4. ASSUME NEW n \in Prompts, Verify(n)
      PROVE  Solo!SoloNext
  BY <1>4, VerifyBorrows DEF Solo!SoloNext
<1>5. CASE Step
  BY <1>5, StepIsFeed DEF SoloInv, Solo!SoloNext
<1>6. CASE Recover \/ Reload
  BY <1>6, RenewedEmpties DEF Recover, Reload, Solo!SoloNext
<1> QED
  BY <1>1, <1>2, <1>3, <1>4, <1>5, <1>6 DEF Next, Tick

\* If every turn brings a new token, there are no thinking markers and
\* verify/4 keeps away from pinned sequences, then batches, checkpoints,
\* admissions and recoveries implement a context for each sequence, for any
\* number of sequences, budget and chunk.
THEOREM BatchImplementsSolo ==
  ASSUME Waived \cap {"new_tail", "no_markers", "free_verify"} = {}
  PROVE  Spec => ImplementsSolo
<1>1. Init => Solo!SoloInit
  BY DEF Init, Solo!SoloInit, Text, Ready, Stored, Decoding, Active, Busy
<1>2. Init => MatchInv /\ LogitsInv
  BY InitMatchInv, InitLogitsInv
<1>3. MatchInv /\ LogitsInv /\ [Next]_vars => (MatchInv /\ LogitsInv)'
  BY NextMatchInv, NextLogitsInv
<1>4. MatchInv /\ LogitsInv /\ (MatchInv /\ LogitsInv)' /\ [Next]_vars
         => [Solo!SoloNext]_(Solo!soloVars)
  <2> SUFFICES ASSUME MatchInv, LogitsInv, (MatchInv /\ LogitsInv)', [Next]_vars
               PROVE  Solo!SoloNext \/ UNCHANGED Solo!soloVars
    OBVIOUS
  <2>1. SoloInv /\ SoloInv'
    BY DEF SoloInv, LogitsInv
  <2>2. CASE Next
    BY <2>1, <2>2, SoloStep
  <2>3. CASE UNCHANGED vars
    BY <2>3 DEF vars, seqVars, Solo!soloVars, Text, Ready, Stored, Decoding, Active, Busy
  <2> QED
    BY <2>2, <2>3
<1> QED
  BY <1>1, <1>2, <1>3, <1>4, PTL DEF Spec, ImplementsSolo, Solo!SoloSpec
================================================================================
