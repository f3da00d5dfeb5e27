---------------------------- MODULE CacheIndexProofs ----------------------------
(***************************************************************************)
(* The index of the meta server: what its rows, reservations, claims, pins *)
(* and parked callers have to do with each other, whatever its clients do, *)
(* reservations that lapse and restarts of the server included.            *)
(***************************************************************************)
EXTENDS CacheProofs

\* A claim is on a published row: only such rows are counted.
ClaimPublished == \A c \in Clients : claim[c] # NoKey => claim[c] \in Available

\* A namespace pins keys of its own.
PinInNamespace == \A ns \in Namespaces : pinned[ns] # NoKey => NsOf[pinned[ns]] = ns

IndexInv ==
    /\ MetaTypeOK
    /\ WritingReserved
    /\ ClaimPublished
    /\ PinInNamespace
    /\ PinConsistent
    /\ NoStrandedWaiter
    /\ RefcountExact

--------------------------------------------------------------------------------
(***************************************************************************)
(* Sets of claimants.                                                      *)
(***************************************************************************)
LEMMA ClaimantsFinite == \A k : IsFiniteSet(Claimants(k))
BY ClientsAssumption, FS_Subset DEF Claimants

\* Eviction looks at the counter and not at the claims.
LEMMA UncountedUnclaimed ==
  ASSUME RefcountExact, NEW k \in Keys
  PROVE  row[k].refcount = 0 <=> \A c \in Clients : claim[c] # k
<1>1. Cardinality(Claimants(k)) = 0 <=> Claimants(k) = {}
  BY ClaimantsFinite, FS_EmptySet
<1>2. QED BY <1>1 DEF RefcountExact, Claimants

\* Nobody has claimed a row that is being saved.
LEMMA WritingUnclaimed ==
  ASSUME IndexInv, NEW k \in Keys, k \notin Available
  PROVE  Claimants(k) = {} /\ row[k].refcount = 0
<1>1. \A c \in Clients : claim[c] # k
  BY KeysAssumption DEF IndexInv, ClaimPublished
<1>2. QED BY <1>1, UncountedUnclaimed DEF IndexInv, Claimants

\* The flag that a published row gets when it is installed.
LEMMA InstalledPinned ==
  ASSUME IndexInv, NEW k \in Keys
  PROVE  Installed(k).pinned <=> pinned[NsOf[k]] = k
BY KeysAssumption DEF IndexInv, MetaTypeOK, PinInNamespace, Installed, IsPinnedKey

LEMMA CardinalityNone == Cardinality({}) = 0
BY FS_EmptySet

LEMMA RowFields ==
  /\ Absent.status = "absent" /\ Absent.refcount = 0
  /\ Placeholder.status = "writing" /\ Placeholder.refcount = 0
  /\ \A k : Installed(k).status = "available" /\ Installed(k).refcount = 0
BY DEF Absent, Placeholder, Installed

LEMMA RowTypes ==
  Absent \in Row /\ Placeholder \in Row /\ \A k : Installed(k) \in Row
BY DEF Absent, Placeholder, Installed, IsPinnedKey, Row

--------------------------------------------------------------------------------
(***************************************************************************)
(* Steps that replace the rows of keys nobody has claimed.                 *)
(***************************************************************************)
LEMMA UnclaimedReplaced ==
  ASSUME IndexInv,
         UNCHANGED <<claim, pinned>>, row' \in [Keys -> Row],
         \A k \in Keys :
            \/ row'[k] = row[k]
            \/ Claimants(k) = {} /\ row'[k] \in {Absent, Placeholder, Installed(k)}
  PROVE  (ClaimPublished /\ PinInNamespace /\ PinConsistent /\ RefcountExact)'
<1>1. ClaimPublished'
  BY KeysAssumption DEF IndexInv, ClaimPublished, Available, Claimants, MetaTypeOK
<1>2. PinInNamespace'
  BY DEF IndexInv, PinInNamespace
<1>3. ASSUME NEW k \in Available' PROVE row'[k].pinned <=> pinned'[NsOf[k]] = k
  <2>1. k \in Keys /\ row'[k].status = "available"
    BY <1>3 DEF Available
  <2>2. CASE row'[k] = row[k]
    BY <2>1, <2>2 DEF IndexInv, PinConsistent, Available
  <2>3. CASE row'[k] = Installed(k)
    BY <2>1, <2>3, InstalledPinned
  <2>4. QED BY <2>1, <2>2, <2>3 DEF Absent, Placeholder
<1>4. ASSUME NEW k \in Keys PROVE row'[k].refcount = Cardinality(Claimants(k)')
  <2>1. Claimants(k)' = Claimants(k)
    BY DEF Claimants
  <2>2. CASE row'[k] = row[k]
    BY <2>1, <2>2 DEF IndexInv, RefcountExact
  <2>3. CASE Claimants(k) = {} /\ row'[k] \in {Absent, Placeholder, Installed(k)}
    BY <2>1, <2>3, CardinalityNone DEF Absent, Placeholder, Installed
  <2>4. QED BY <2>2, <2>3
<1>5. QED BY <1>1, <1>2, <1>3, <1>4 DEF PinConsistent, RefcountExact

LEMMA ReserveKept ==
  ASSUME IndexInv, NEW c \in Clients, NEW k \in Keys, NEW t \in Tokens,
         ReserveSave(c, k, t)
  PROVE  (WritingReserved /\ ClaimPublished /\ PinInNamespace /\ PinConsistent
          /\ NoStrandedWaiter /\ RefcountExact)'
<1> DEFINE stale == IF row[k].status = "writing" THEN {k} ELSE {}
<1>1. k \notin Available
  BY DEF ReserveSave, CanReserve, Available
<1>2. /\ row' = [j \in Keys |-> IF j = k THEN Placeholder ELSE row[j]]
      /\ reservation'[k] \in Reservation
      /\ \A j \in Keys \ {k} : reservation'[j] = reservation[j]
      /\ \A j \in Keys \ {k} : waiters'[j] = waiters[j]
      /\ UNCHANGED <<claim, pinned>>
  BY DEF IndexInv, MetaTypeOK, ReserveSave, CleanRow, CleanWaiters, Adopted, PostLink, Reservation
<1>3. row' \in [Keys -> Row]
  BY <1>2 DEF IndexInv, MetaTypeOK, Row, Placeholder
<1>4. (ClaimPublished /\ PinInNamespace /\ PinConsistent /\ RefcountExact)'
  BY <1>1, <1>2, <1>3, UnclaimedReplaced, WritingUnclaimed
<1>5. WritingReserved'
  BY <1>2, ReservationAssumption DEF IndexInv, WritingReserved, Reserved, Placeholder
<1>6. NoStrandedWaiter'
  BY <1>2 DEF IndexInv, NoStrandedWaiter, Available, Placeholder
<1>7. QED BY <1>4, <1>5, <1>6

LEMMA CleanUpKept ==
  ASSUME IndexInv, NEW S \in SUBSET Reserved, CleanUp(S)
  PROVE  (WritingReserved /\ ClaimPublished /\ PinInNamespace /\ PinConsistent
          /\ NoStrandedWaiter /\ RefcountExact)'
<1>1. \A k \in S : k \in Keys /\ k \notin Available
  BY DEF IndexInv, WritingReserved, Reserved, Available
<1>2. /\ row' = CleanRow(S)
      /\ reservation' = [k \in Keys |-> IF k \in S THEN NoReservation ELSE reservation[k]]
      /\ waiters' = CleanWaiters(S)
      /\ UNCHANGED <<claim, pinned>>
  BY DEF CleanUp
<1>3. \A k \in Keys : \/ k \notin S /\ row'[k] = row[k]
                      \/ k \in S /\ k \in Adopted(S) /\ row'[k] = Installed(k)
                      \/ k \in S /\ k \notin Adopted(S) /\ row'[k] = Absent
  BY <1>2 DEF CleanRow, Adopted, PostLink
<1>4. row' \in [Keys -> Row]
  BY <1>2 DEF IndexInv, MetaTypeOK, CleanRow, Row, Absent, Installed, IsPinnedKey
<1>5. (ClaimPublished /\ PinInNamespace /\ PinConsistent /\ RefcountExact)'
  BY <1>1, <1>2, <1>3, <1>4, UnclaimedReplaced, WritingUnclaimed
<1>6. WritingReserved'
  <2>1. \A k \in Keys : reservation'[k] # NoReservation <=>
                          k \notin S /\ reservation[k] # NoReservation
    BY <1>2
  <2>2. \A k \in Keys : row'[k].status = "writing" <=> k \notin S /\ row[k].status = "writing"
    BY <1>3, RowFields
  <2>3. QED BY <2>1, <2>2 DEF IndexInv, WritingReserved, Reserved
<1>7. NoStrandedWaiter'
  BY <1>2, <1>3 DEF IndexInv, NoStrandedWaiter, Available, CleanWaiters, Absent
<1>8. QED BY <1>5, <1>6, <1>7

LEMMA OwnerStepKept ==
  ASSUME IndexInv, NEW k \in Keys, NEW t,
         \/ CheckReservation(k, t)
         \/ MarkPublished(k, t)
         \/ AnnounceSaved(k, t)
         \/ CancelReservation(k, t)
  PROVE  (WritingReserved /\ ClaimPublished /\ PinInNamespace /\ PinConsistent
          /\ NoStrandedWaiter /\ RefcountExact)'
<1>1. Owns(k, t) => k \notin Available /\ reservation[k] \in Reservation
  BY DEF IndexInv, MetaTypeOK, WritingReserved, Reserved, Available, Owns
<1>2. CASE UNCHANGED <<row, reservation, claim, waiters, pinned>>
  BY <1>2 DEF IndexInv, WritingReserved, Reserved, ClaimPublished, Available, PinInNamespace,
              PinConsistent, NoStrandedWaiter, RefcountExact, Claimants
<1>3. CASE CheckReservation(k, t) \/ MarkPublished(k, t)
  <2>1. UNCHANGED <<row, claim, waiters, pinned>> /\ Owns(k, t)
    BY <1>3 DEF CheckReservation, MarkPublished
  <2>2. \/ reservation' = [reservation EXCEPT ![k] = [@ EXCEPT !.lapsed = FALSE]]
        \/ reservation' = [reservation EXCEPT ![k] =
                             [@ EXCEPT !.stage = "post_link", !.lapsed = FALSE]]
    BY <1>3 DEF CheckReservation, MarkPublished
  <2>3. /\ [reservation[k] EXCEPT !.lapsed = FALSE] \in Reservation
        /\ [reservation[k] EXCEPT !.stage = "post_link", !.lapsed = FALSE] \in Reservation
    BY <1>1, <2>1 DEF Reservation
  <2>4. Reserved' = Reserved
    BY <2>1, <2>2, <2>3, ReservationAssumption DEF Reserved, Owns, IndexInv, MetaTypeOK
  <2>5. QED
    BY <2>1, <2>4 DEF IndexInv, WritingReserved, ClaimPublished, Available, PinInNamespace,
                      PinConsistent, NoStrandedWaiter, RefcountExact, Claimants
<1>4. CASE Owns(k, t) /\ (AnnounceSaved(k, t) \/ CancelReservation(k, t))
  <2>1. /\ UNCHANGED <<claim, pinned>>
        /\ reservation' = [reservation EXCEPT ![k] = NoReservation]
        /\ \/ /\ row' = [row EXCEPT ![k] = Installed(k)]
              /\ waiters' = [waiters EXCEPT ![k] = {}]
           \/ /\ row' = [row EXCEPT ![k] = Absent]
              /\ UNCHANGED waiters
    BY <1>4 DEF AnnounceSaved, CancelReservation
  <2>2. row' \in [Keys -> Row]
    BY <2>1, RowTypes DEF IndexInv, MetaTypeOK
  <2>3. (ClaimPublished /\ PinInNamespace /\ PinConsistent /\ RefcountExact)'
    BY <1>1, <1>4, <2>1, <2>2, UnclaimedReplaced, WritingUnclaimed DEF IndexInv, MetaTypeOK
  <2>4. WritingReserved'
    BY <2>1 DEF IndexInv, MetaTypeOK, WritingReserved, Reserved, Absent, Installed
  <2>5. NoStrandedWaiter'
    BY <2>1 DEF IndexInv, MetaTypeOK, NoStrandedWaiter, Available, Absent
  <2>6. QED BY <2>3, <2>4, <2>5
<1>5. CASE CancelReservation(k, t) /\ ~Owns(k, t)
  BY <1>2, <1>5 DEF CancelReservation
<1>6. QED BY <1>3, <1>4, <1>5 DEF AnnounceSaved

LEMMA EvictKept ==
  ASSUME IndexInv, NEW S \in SUBSET Evictable, Evict(S)
  PROVE  (WritingReserved /\ ClaimPublished /\ PinInNamespace /\ PinConsistent
          /\ NoStrandedWaiter /\ RefcountExact)'
<1>1. \A k \in S : k \in Available /\ Claimants(k) = {}
  BY UncountedUnclaimed DEF Evictable, Available, IndexInv, Claimants
<1>2. /\ row' = [k \in Keys |-> IF k \in S THEN Absent ELSE row[k]]
      /\ UNCHANGED <<reservation, claim, waiters, pinned>>
  BY DEF Evict
<1>3. row' \in [Keys -> Row]
  BY <1>2 DEF IndexInv, MetaTypeOK, Row, Absent
<1>4. (ClaimPublished /\ PinInNamespace /\ PinConsistent /\ RefcountExact)'
  BY <1>1, <1>2, <1>3, UnclaimedReplaced
<1>5. WritingReserved' /\ NoStrandedWaiter'
  BY <1>1, <1>2 DEF IndexInv, WritingReserved, NoStrandedWaiter, Reserved, Available, Absent
<1>6. QED BY <1>4, <1>5

--------------------------------------------------------------------------------
(***************************************************************************)
(* Steps of readers, and pins.                                             *)
(***************************************************************************)
LEMMA CheckoutKept ==
  ASSUME IndexInv, NEW c \in Clients, NEW k \in Keys, claim[c] = NoKey, Checkout(c, k)
  PROVE  (WritingReserved /\ ClaimPublished /\ PinInNamespace /\ PinConsistent
          /\ NoStrandedWaiter /\ RefcountExact)'
<1>1. /\ k \in Available
      /\ row' = [row EXCEPT ![k].refcount = @ + 1]
      /\ claim' = [claim EXCEPT ![c] = k]
      /\ UNCHANGED <<reservation, waiters, pinned>>
  BY DEF Checkout, Available
<1>2. \A j \in Keys : /\ row'[j].status = row[j].status
                      /\ row'[j].pinned = row[j].pinned
                      /\ row'[j].refcount = IF j = k THEN row[k].refcount + 1
                                            ELSE row[j].refcount
  BY <1>1 DEF IndexInv, MetaTypeOK, Row
<1>3. (WritingReserved /\ PinInNamespace /\ PinConsistent /\ NoStrandedWaiter)'
  BY <1>1, <1>2 DEF IndexInv, WritingReserved, Reserved, PinInNamespace, PinConsistent,
                    NoStrandedWaiter, Available
<1>4. ClaimPublished'
  BY <1>1, <1>2 DEF IndexInv, MetaTypeOK, ClaimPublished, Available
<1>5. ASSUME NEW j \in Keys PROVE row'[j].refcount = Cardinality(Claimants(j)')
  <2>1. CASE j = k
    <3>1. Claimants(j)' = Claimants(k) \cup {c} /\ c \notin Claimants(k)
      BY <1>1, <2>1, KeysAssumption DEF Claimants, IndexInv, MetaTypeOK
    <3>2. QED
      BY <1>2, <2>1, <3>1, ClaimantsFinite, FS_AddElement DEF IndexInv, RefcountExact
  <2>2. CASE j # k
    <3>1. Claimants(j)' = Claimants(j)
      BY <1>1, <2>2, KeysAssumption DEF Claimants, IndexInv, MetaTypeOK
    <3>2. QED BY <1>2, <2>2, <3>1 DEF IndexInv, RefcountExact
  <2>3. QED BY <2>1, <2>2
<1>6. QED BY <1>3, <1>4, <1>5 DEF RefcountExact

LEMMA ReleaseKept ==
  ASSUME IndexInv, NEW c \in Clients, ReleaseClaim(c)
  PROVE  (WritingReserved /\ ClaimPublished /\ PinInNamespace /\ PinConsistent
          /\ NoStrandedWaiter /\ RefcountExact)'
<1>1. /\ claim' = [claim EXCEPT ![c] = NoKey]
      /\ UNCHANGED <<reservation, waiters, pinned>>
  BY DEF ReleaseClaim
<1>2. \A j \in Keys :
         /\ row'[j].status = row[j].status
         /\ row'[j].pinned = row[j].pinned
         /\ row'[j].refcount = IF j # claim[c] \/ row[j].refcount = 0 THEN row[j].refcount
                               ELSE row[j].refcount - 1
  <2>1. CASE claim[c] = NoKey
    BY <2>1, KeysAssumption DEF ReleaseClaim
  <2>2. CASE claim[c] \in Keys
    <3>1. row' = [row EXCEPT ![claim[c]].refcount = IF @ = 0 THEN 0 ELSE @ - 1]
      BY <2>2, KeysAssumption DEF ReleaseClaim, Decremented
    <3>2. QED BY <2>2, <3>1 DEF IndexInv, MetaTypeOK, Row
  <2>3. QED BY <2>1, <2>2 DEF IndexInv, MetaTypeOK
<1>3. (WritingReserved /\ PinInNamespace /\ PinConsistent /\ NoStrandedWaiter)'
  BY <1>1, <1>2 DEF IndexInv, WritingReserved, Reserved, PinInNamespace, PinConsistent,
                    NoStrandedWaiter, Available
<1>4. ClaimPublished'
  BY <1>1, <1>2 DEF IndexInv, MetaTypeOK, ClaimPublished, Available
<1>5. ASSUME NEW j \in Keys PROVE row'[j].refcount = Cardinality(Claimants(j)')
  <2>1. CASE claim[c] = j
    <3>1. Claimants(j)' = Claimants(j) \ {c} /\ c \in Claimants(j)
      BY <1>1, <2>1, KeysAssumption DEF Claimants, IndexInv, MetaTypeOK
    <3>2. row[j].refcount # 0
      BY <2>1, UncountedUnclaimed DEF IndexInv
    <3>3. Cardinality(Claimants(j) \ {c}) = Cardinality(Claimants(j)) - 1
      BY <3>1, ClaimantsFinite, FS_RemoveElement
    <3>4. row'[j].refcount = row[j].refcount - 1
      BY <1>2, <2>1, <3>2
    <3>5. QED BY <3>1, <3>3, <3>4 DEF IndexInv, RefcountExact
  <2>2. CASE claim[c] # j
    <3>1. Claimants(j)' = Claimants(j)
      BY <1>1, <2>2, KeysAssumption DEF Claimants, IndexInv, MetaTypeOK
    <3>2. QED BY <1>2, <2>2, <3>1 DEF IndexInv, RefcountExact
  <2>3. QED BY <2>1, <2>2
<1>6. QED BY <1>3, <1>4, <1>5 DEF RefcountExact

LEMMA PinKept ==
  ASSUME IndexInv, NEW k \in Keys, PinRow(k)
  PROVE  (WritingReserved /\ ClaimPublished /\ PinInNamespace /\ PinConsistent
          /\ NoStrandedWaiter /\ RefcountExact)'
<1> DEFINE prior == pinned[NsOf[k]]
<1>1. /\ pinned' = [pinned EXCEPT ![NsOf[k]] = k]
      /\ NsOf[k] \in Namespaces
      /\ prior \in Keys => NsOf[prior] = NsOf[k]
      /\ UNCHANGED <<reservation, claim, waiters>>
  BY KeysAssumption DEF PinRow, IndexInv, MetaTypeOK, PinInNamespace
<1>2. \A j \in Keys :
         /\ row'[j].status = row[j].status
         /\ row'[j].refcount = row[j].refcount
         /\ j \in Available => row'[j].pinned = IF j = k THEN TRUE
                                               ELSE IF j = prior THEN FALSE
                                               ELSE row[j].pinned
  <2> SUFFICES ASSUME NEW j \in Keys
               PROVE  /\ row'[j].status = row[j].status
                      /\ row'[j].refcount = row[j].refcount
                      /\ j \in Available => row'[j].pinned = IF j = k THEN TRUE
                                                           ELSE IF j = prior THEN FALSE
                                                           ELSE row[j].pinned
    OBVIOUS
  <2> DEFINE Flag(r, b) == IF r.status = "absent" THEN r ELSE [r EXCEPT !.pinned = b]
  <2>1. row[j] \in Row
    BY DEF IndexInv, MetaTypeOK
  <2>2. row'[j] = IF j = k THEN Flag(row[j], TRUE)
                  ELSE IF j = prior THEN Flag(row[j], FALSE) ELSE row[j]
    BY DEF PinRow
  <2>3. \A b \in BOOLEAN : /\ Flag(row[j], b).status = row[j].status
                           /\ Flag(row[j], b).refcount = row[j].refcount
                           /\ j \in Available => Flag(row[j], b).pinned = b
    BY <2>1 DEF Row, Available
  <2> HIDE DEF Flag
  <2>4. CASE j = k
    BY <2>2, <2>3, <2>4
  <2>5. CASE j # k /\ j = prior
    BY <2>2, <2>3, <2>5
  <2>6. CASE j # k /\ j # prior
    BY <2>2, <2>6
  <2> QED BY <2>4, <2>5, <2>6
<1>3. (WritingReserved /\ ClaimPublished /\ NoStrandedWaiter)' /\ Available' = Available
  <2>1. Available' = Available /\ Reserved' = Reserved
    BY ZenonT(40), <1>1, <1>2 DEF Available, Reserved
  <2>2. QED
    BY <1>1, <1>2, <2>1 DEF IndexInv, WritingReserved, ClaimPublished, NoStrandedWaiter
<1>4. PinInNamespace'
  BY <1>1 DEF IndexInv, MetaTypeOK, PinInNamespace
<1>5. PinConsistent'
  BY ZenonT(40), <1>1, <1>2, <1>3, KeysAssumption DEF IndexInv, MetaTypeOK, PinConsistent, Available
<1>6. RefcountExact'
  <2>1. \A j \in Keys : Claimants(j)' = Claimants(j)
    BY <1>1 DEF Claimants
  <2>2. ASSUME NEW j \in Keys PROVE row'[j].refcount = Cardinality(Claimants(j)')
    <3>1. row'[j].refcount = row[j].refcount
      BY <1>2
    <3>2. row[j].refcount = Cardinality(Claimants(j))
      BY DEF IndexInv, RefcountExact
    <3>3. QED BY <2>1, <3>1, <3>2
  <2>3. QED BY <2>2 DEF RefcountExact
<1>7. QED BY <1>3, <1>4, <1>5, <1>6

LEMMA ParkKept ==
  ASSUME IndexInv, NEW c \in Clients, NEW k \in Keys, Park(c, k) \/ WaiterExpire(c, k)
  PROVE  (WritingReserved /\ ClaimPublished /\ PinInNamespace /\ PinConsistent
          /\ NoStrandedWaiter /\ RefcountExact)'
<1>1. /\ UNCHANGED <<row, reservation, claim, pinned>>
      /\ \A j \in Available : waiters'[j] \subseteq waiters[j]
  BY DEF Park, WaiterExpire, Available, IndexInv, MetaTypeOK
<1>2. QED
  BY <1>1 DEF IndexInv, WritingReserved, Reserved, ClaimPublished, Available, PinInNamespace,
              PinConsistent, NoStrandedWaiter, RefcountExact, Claimants

--------------------------------------------------------------------------------
LEMMA IndexKept == IndexInv /\ MetaMove => IndexInv'
<1> SUFFICES ASSUME IndexInv, MetaMove PROVE IndexInv'
  OBVIOUS
<1> DEFINE Rest == WritingReserved /\ ClaimPublished /\ PinInNamespace /\ PinConsistent
                   /\ NoStrandedWaiter /\ RefcountExact
<1>0. MetaTypeOK'
  BY MetaTypes DEF IndexInv
<1> SUFFICES Rest'
  BY <1>0 DEF IndexInv
<1>1. CASE \E c \in Clients, k \in Keys, t \in Tokens : ReserveSave(c, k, t)
  BY <1>1, ReserveKept
<1>2. CASE \E k \in Keys, t \in Tokens \cup {NoToken} :
             \/ CheckReservation(k, t)
             \/ MarkPublished(k, t)
             \/ AnnounceSaved(k, t)
             \/ CancelReservation(k, t)
  BY <1>2, OwnerStepKept
<1>3. CASE \E c \in Clients, k \in Keys : claim[c] = NoKey /\ Checkout(c, k)
  BY <1>3, CheckoutKept
<1>4. CASE \E c \in Clients : ReleaseClaim(c)
  BY <1>4, ReleaseKept
<1>5. CASE \E c \in Clients, k \in Keys : Park(c, k) \/ WaiterExpire(c, k)
  BY <1>5, ParkKept
<1>6. CASE \E k \in Keys : PinRow(k)
  BY <1>6, PinKept
<1>7. CASE \E S \in SUBSET Evictable : Evict(S)
  BY <1>7, EvictKept
<1>8. CASE \E S \in SUBSET Reserved : CleanUp(S)
  BY <1>8, CleanUpKept
<1>9. CASE \E k \in Keys : Lapse(k)
  <2>1. PICK k \in Keys : Lapse(k)
    BY <1>9
  <2>2. reservation' = [reservation EXCEPT ![k] = [@ EXCEPT !.lapsed = TRUE]]
    BY <2>1 DEF Lapse
  <2>3. /\ reservation[k] \in Reservation
        /\ [reservation[k] EXCEPT !.lapsed = TRUE] \in Reservation
    BY <2>1 DEF Lapse, Reserved, IndexInv, MetaTypeOK, Reservation
  <2>4. Reserved' = Reserved /\ UNCHANGED <<row, claim, waiters, pinned>>
    BY <2>1, <2>2, <2>3, ReservationAssumption DEF Lapse, Reserved, IndexInv, MetaTypeOK
  <2>5. Rest'
    BY <2>4 DEF IndexInv, WritingReserved, ClaimPublished, Available, PinInNamespace,
                PinConsistent, NoStrandedWaiter, RefcountExact, Claimants
  <2>6. QED BY <2>5
<1>10. CASE MetaRestart
  <2>1. /\ row'         = [k \in Keys |-> Absent]
        /\ reservation' = [k \in Keys |-> NoReservation]
        /\ claim'       = [c \in Clients |-> NoKey]
        /\ waiters'     = [k \in Keys |-> {}]
        /\ pinned'      = [ns \in Namespaces |-> NoKey]
    BY <1>10 DEF MetaRestart
  <2>2. \A k \in Keys : Claimants(k)' = {}
    BY <2>1, KeysAssumption DEF Claimants
  <2>3. RefcountExact'
    BY <2>1, <2>2, CardinalityNone DEF RefcountExact, Absent
  <2>4. QED
    BY <2>1, <2>3 DEF IndexInv, WritingReserved, Reserved, ClaimPublished, Available,
                            PinInNamespace, PinConsistent, NoStrandedWaiter, Absent
<1>11. CASE UNCHANGED <<row, reservation, claim, waiters, pinned>>
  BY <1>11 DEF IndexInv, WritingReserved, Reserved, ClaimPublished, Available,
                     PinInNamespace, PinConsistent, NoStrandedWaiter, RefcountExact, Claimants
<1>12. CASE \E k \in Keys : SetLiveKey(k)
  BY <1>11, <1>12 DEF SetLiveKey
<1>13. CASE \E k \in Keys, x \in {"plain", "prefix", "none"} : WriteFile(k, x)
  BY <1>11, <1>13 DEF WriteFile
<1>14. QED
  BY <1>1, <1>2, <1>3, <1>4, <1>5, <1>6, <1>7, <1>8, <1>9, <1>10, <1>11, <1>12, <1>13
     DEF MetaMove

LEMMA IndexInit == Init => IndexInv
<1> SUFFICES ASSUME Init PROVE IndexInv
  OBVIOUS
<1>1. MetaTypeOK
  BY ClientsInit DEF ClientInv, PublishTypeOK
<1>2. /\ row         = [k \in Keys |-> Absent]
      /\ reservation = [k \in Keys |-> NoReservation]
      /\ claim       = [c \in Clients |-> NoKey]
      /\ waiters     = [k \in Keys |-> {}]
      /\ pinned      = [ns \in Namespaces |-> NoKey]
  BY DEF Init, MetaInit
<1>3. \A k \in Keys : Claimants(k) = {}
  BY <1>2, KeysAssumption DEF Claimants
<1>4. RefcountExact
  BY <1>2, <1>3, CardinalityNone DEF RefcountExact, Absent
<1>5. QED
  BY <1>1, <1>2, <1>4 DEF IndexInv, WritingReserved, Reserved, ClaimPublished, Available,
                          PinInNamespace, PinConsistent, NoStrandedWaiter, Absent

THEOREM IndexInvariant == Spec => [](ClientInv /\ IndexInv)
<1>1. Init => ClientInv /\ IndexInv
  BY ClientsInit, IndexInit
<1>2. ClientInv /\ IndexInv /\ [Next]_vars => (ClientInv /\ IndexInv)'
  BY ClientsKept, MetaMoves, IndexKept
<1>3. QED BY <1>1, <1>2, PTL DEF Spec

(***************************************************************************)
(* A key has a placeholder row exactly while a save holds its reservation. *)
(***************************************************************************)
THEOREM PlaceholdersReserved == Spec => []WritingReserved
<1>1. IndexInv => WritingReserved
  BY DEF IndexInv
<1>2. QED BY <1>1, IndexInvariant, PTL

(***************************************************************************)
(* The refcount of a row is the number of readers that hold it.            *)
(***************************************************************************)
THEOREM RefcountsExact == Spec => []RefcountExact
<1>1. IndexInv => RefcountExact
  BY DEF IndexInv
<1>2. QED BY <1>1, IndexInvariant, PTL

(***************************************************************************)
(* A published row is pinned exactly if its namespace pins it.             *)
(***************************************************************************)
THEOREM PinsConsistent == Spec => []PinConsistent
<1>1. IndexInv => PinConsistent
  BY DEF IndexInv
<1>2. QED BY <1>1, IndexInvariant, PTL

(***************************************************************************)
(* No caller stays parked on a published key.                              *)
(***************************************************************************)
THEOREM NoWaiterStranded == Spec => []NoStrandedWaiter
<1>1. IndexInv => NoStrandedWaiter
  BY DEF IndexInv
<1>2. QED BY <1>1, IndexInvariant, PTL

--------------------------------------------------------------------------------
(***************************************************************************)
(* Eviction.  The handlers look at the refcount and at the flag of a row;  *)
(* what they must not disturb are the claims and the pins those stand for. *)
(***************************************************************************)
LEMMA ShieldedProtected ==
  ASSUME IndexInv, NEW k \in Available
  PROVE  IsProtected(k) <=> Shielded(k)
BY DEF IndexInv, PinConsistent, IsProtected, Shielded

LEMMA EvictableUnclaimed ==
  ASSUME IndexInv, NEW k \in Available
  PROVE  k \in Evictable <=> Claimants(k) = {}
BY UncountedUnclaimed DEF IndexInv, Evictable, Available, Claimants

LEMMA EvictLost ==
  ASSUME IndexInv, NEW S \in SUBSET Evictable, Evict(S)
  PROVE  Lost = S
BY RowFields DEF Lost, Evict, Evictable, Available

LEMMA StepEvictsLegally ==
  ASSUME IndexInv, MetaStep, NEW k \in Lost
  PROVE  /\ Claimants(k) = {}
         /\ Shielded(k) => \A j \in Available \ Lost : Claimants(j) # {} \/ Shielded(j)
<1>1. k \in Available
  BY DEF Lost
<1>2. CASE Gc
  <2>1. Evict(Evictable \ Protected) /\ Evictable \ Protected \in SUBSET Evictable
    BY <1>2 DEF Gc
  <2>2. k \in Evictable /\ k \notin Protected
    BY <2>1, EvictLost
  <2>3. ~Shielded(k)
    BY <1>1, <2>2, ShieldedProtected DEF Protected
  <2>4. QED BY <1>1, <2>2, <2>3, EvictableUnclaimed
<1>3. CASE \E target \in Targets : EvictBytes(target)
  <2>1. PICK target \in Targets, S \in SUBSET Evictable : IsVictimSet(S, target) /\ Evict(S)
    BY <1>3 DEF EvictBytes
  <2>2. Lost = S
    BY <2>1, EvictLost
  <2>3. S \cap Protected # {} => Evictable \ Protected \subseteq S
    BY <2>1 DEF IsVictimSet
  <2>4. ASSUME Shielded(k), NEW j \in Available \ Lost, Claimants(j) = {} PROVE Shielded(j)
    <3>1. k \in S \cap Protected
      BY <1>1, <2>1, <2>2, <2>4, ShieldedProtected DEF Protected
    <3>2. j \in Evictable
      BY <2>4, EvictableUnclaimed
    <3>3. j \in Protected
      BY <2>2, <2>3, <2>4, <3>1, <3>2
    <3>4. QED BY <2>4, <3>3, ShieldedProtected DEF Protected
  <2>5. QED BY <1>1, <2>1, <2>2, <2>4, EvictableUnclaimed
<1>4. CASE \/ \E c \in Clients : ReaderDown(c)
           \/ \E c \in Clients, j \in Keys : WaiterExpire(c, j)
  <2>1. row'[k].status = row[k].status
    <3>1. ASSUME NEW c \in Clients, ReleaseClaim(c) PROVE row'[k].status = row[k].status
      BY <1>1, <3>1 DEF ReleaseClaim, Decremented, IndexInv, MetaTypeOK, Row, Available
    <3>2. QED BY <1>4, <3>1 DEF ReaderDown, WaiterExpire
  <2>2. QED BY <2>1 DEF Lost, Available
<1>5. CASE Sweep \/ \E j \in Keys : WriterDown(j)
  <2>1. PICK S \in SUBSET Reserved : CleanUp(S)
    BY <1>5 DEF Sweep, WriterDown
  <2>2. k \notin S /\ k \in Keys
    BY <1>1, <2>1 DEF IndexInv, WritingReserved, Reserved, Available
  <2>3. row'[k] = row[k]
    BY <2>1, <2>2 DEF CleanUp, CleanRow, Adopted, PostLink
  <2>4. QED BY <2>3 DEF Lost, Available
<1>6. QED BY <1>2, <1>3, <1>4, <1>5 DEF MetaStep

(***************************************************************************)
(* Eviction takes no row a reader holds, and a pinned or live one only     *)
(* when nothing else is left to take.                                      *)
(***************************************************************************)
THEOREM EvictionIsLegal == Spec => EvictionLegal
<1>1. IndexInv /\ [Next]_vars => [MetaStep =>
        \A k \in Lost :
            /\ Claimants(k) = {}
            /\ Shielded(k) =>
                  \A j \in Available \ Lost : Claimants(j) # {} \/ Shielded(j)]_vars
  BY StepEvictsLegally
<1>2. QED BY <1>1, IndexInvariant, PTL DEF Spec, EvictionLegal

-----------------------------------------------------------------------------
(***************************************************************************)
(* The publish protocol implements the contract of the index: readers see  *)
(* keys published and withdrawn, and nothing is withdrawn that they hold.  *)
(* The index is the published rows, a reader holds what it has checked out.*)
(***************************************************************************)
LEMMA ContractStart == Init => Contract!ContractInit
BY DEF Init, MetaInit, Contract!ContractInit, Available, Absent

(***************************************************************************)
(* Every step of the server maps to a step of the contract or leaves the   *)
(* contract's state alone.                                                 *)
(***************************************************************************)
LEMMA ContractStep ==
  ASSUME IndexInv, MetaMove
  PROVE  Contract!ContractNext \/ UNCHANGED <<Available, claim>>
<1> USE DEF Contract!ContractNext
<1>1. CASE \E c \in Clients, k \in Keys, t \in Tokens : ReserveSave(c, k, t)
  <2>1. PICK c \in Clients, k \in Keys, t \in Tokens : ReserveSave(c, k, t)
    BY <1>1
  <2>2. k \notin Available
    BY <2>1 DEF ReserveSave, CanReserve, Available
  <2>3. \A j \in Keys : row'[j] = IF j = k THEN Placeholder ELSE row[j]
    BY <2>1 DEF IndexInv, MetaTypeOK, ReserveSave, CleanRow, Adopted, PostLink
  <2>4. Available' = Available
    BY <2>2, <2>3, RowFields DEF Available
  <2>5. QED BY <2>1, <2>4 DEF ReserveSave
<1>2. CASE \E k \in Keys, t \in Tokens \cup {NoToken} :
             \/ CheckReservation(k, t)
             \/ MarkPublished(k, t)
             \/ AnnounceSaved(k, t)
             \/ CancelReservation(k, t)
  <2>1. PICK k \in Keys, t \in Tokens \cup {NoToken} :
             \/ CheckReservation(k, t)
             \/ MarkPublished(k, t)
             \/ AnnounceSaved(k, t)
             \/ CancelReservation(k, t)
    BY <1>2
  <2>2. UNCHANGED claim
    BY <2>1 DEF CheckReservation, MarkPublished, AnnounceSaved, CancelReservation
  <2>3. CASE UNCHANGED row
    BY <2>2, <2>3 DEF Available
  <2>4. CASE AnnounceSaved(k, t)
    <3>1. Available' = Available \cup {k}
      BY <2>4, RowFields DEF AnnounceSaved, Available, IndexInv, MetaTypeOK
    <3>2. Contract!Publish({k})
      BY <2>2, <3>1 DEF Contract!Publish
    <3>3. QED BY <3>2
  <2>5. CASE CancelReservation(k, t) /\ Owns(k, t)
    <3>1. k \notin Available
      BY <2>5 DEF Owns, IndexInv, WritingReserved, Available
    <3>2. Available' = Available
      BY <2>5, <3>1, RowFields DEF CancelReservation, Available, IndexInv, MetaTypeOK
    <3>3. QED BY <2>2, <3>2
  <2>6. QED
    BY <2>1, <2>3, <2>4, <2>5 DEF CheckReservation, MarkPublished, CancelReservation
<1>3. CASE \E c \in Clients, k \in Keys : claim[c] = NoKey /\ Checkout(c, k)
  <2>1. PICK c \in Clients, k \in Keys : claim[c] = NoKey /\ Checkout(c, k)
    BY <1>3
  <2>2. k \in Available /\ claim' = [claim EXCEPT ![c] = k]
    BY <2>1 DEF Checkout, Available
  <2>3. \A j \in Keys : row'[j].status = row[j].status
    BY <2>1 DEF Checkout, IndexInv, MetaTypeOK, Row
  <2>4. Contract!Hold(c, k)
    BY <2>1, <2>2, <2>3 DEF Contract!Hold, Available
  <2>5. QED BY <2>4
<1>4. CASE \E c \in Clients : ReleaseClaim(c)
  <2>1. PICK c \in Clients : ReleaseClaim(c)
    BY <1>4
  <2>2. \A j \in Keys : row'[j].status = row[j].status
    BY <2>1 DEF ReleaseClaim, Decremented, IndexInv, MetaTypeOK, Row
  <2>3. Contract!LetGo(c)
    BY <2>1, <2>2 DEF Contract!LetGo, ReleaseClaim, Available
  <2>4. QED BY <2>3
<1>5. CASE \E k \in Keys : PinRow(k)
  <2>1. PICK k \in Keys : PinRow(k)
    BY <1>5
  <2>2. \A j \in Keys : row'[j].status = row[j].status
    BY <2>1 DEF PinRow, IndexInv, MetaTypeOK, Row
  <2>3. QED BY <2>1, <2>2 DEF PinRow, Available
<1>6. CASE \E S \in SUBSET Evictable : Evict(S)
  <2>1. PICK S \in SUBSET Evictable : Evict(S)
    BY <1>6
  <2>2. \A c \in Clients : claim[c] \notin S
    BY <2>1, UncountedUnclaimed DEF Evictable, Available, IndexInv
  <2>3. Available' = Available \ S
    BY <2>1, RowFields DEF Evict, Available
  <2>4. Contract!Withdraw(S) /\ S \in SUBSET Keys
    BY <2>1, <2>2, <2>3 DEF Contract!Withdraw, Evict, Evictable, Available
  <2>5. QED BY <2>4
<1>7. CASE \E S \in SUBSET Reserved : CleanUp(S)
  <2>1. PICK S \in SUBSET Reserved : CleanUp(S)
    BY <1>7
  <2>2. \A k \in S : k \in Keys /\ k \notin Available
    BY DEF IndexInv, WritingReserved, Reserved, Available
  <2>3. Adopted(S) \in SUBSET S /\ Adopted(S) \in SUBSET Keys
    BY <2>2 DEF Adopted, PostLink
  <2>4. Available' = Available \cup Adopted(S)
    BY <2>1, <2>2, <2>3, RowFields DEF CleanUp, CleanRow, Available
  <2>5. Contract!Publish(Adopted(S))
    BY <2>1, <2>4 DEF Contract!Publish, CleanUp
  <2>6. QED BY <2>3, <2>5
<1>8. CASE MetaRestart
  <2>1. Available' = {} /\ claim' = [c \in Clients |-> NoKey]
    BY <1>8, RowFields DEF MetaRestart, Available
  <2>2. Contract!Forget
    BY <2>1 DEF Contract!Forget
  <2>3. QED BY <2>2
<1>9. CASE UNCHANGED <<row, claim>>
  BY <1>9 DEF Available
<1>10. QED
  BY <1>1, <1>2, <1>3, <1>4, <1>5, <1>6, <1>7, <1>8, <1>9
     DEF MetaMove, Park, WaiterExpire, SetLiveKey, Lapse, WriteFile

(***************************************************************************)
(* The composed system implements the contract of the index.  Neither a    *)
(* crash of a client, nor a lapsed reservation, nor a restart of the       *)
(* server makes it withdraw a key that a reader holds, short of losing the *)
(* whole index.                                                            *)
(***************************************************************************)
THEOREM ContractImplemented == Spec => ImplementsContract
<1>1. ClientInv /\ IndexInv /\ [Next]_vars => [Contract!ContractNext]_<<Available, claim>>
  BY MetaMoves, ContractStep
<1>2. QED
  BY <1>1, ContractStart, IndexInvariant, PTL
     DEF Spec, ImplementsContract, Contract!ContractSpec, Contract!contractVars
================================================================================
