------------------------------- MODULE CacheMeta -------------------------------
(***************************************************************************)
(* The KV-cache meta server, barrel_inference_cache_meta_srv: one row per  *)
(* cache key, the reservation of the save in flight for a key, the claims  *)
(* of readers, the callers parked on an unpublished key, the pinned        *)
(* checkpoint of each namespace, and the published .kvc files, which the   *)
(* server deletes on eviction and validates when it cleans up after a      *)
(* writer.                                                                 *)
(*                                                                         *)
(* Every operator named after a request of the server is the whole handler *)
(* of that request; the modules that extend this one say which process     *)
(* sends it and when.                                                      *)
(***************************************************************************)
EXTENDS Naturals, FiniteSets, FiniteSetsExt

CONSTANTS
    Clients,      \* the model processes: the server's writers and readers
    Keys,         \* cache keys
    Tokens,       \* reservation tokens (make_ref/0)
    Namespaces,   \* (fingerprint, quantisation, context) namespaces
    NsOf,         \* the namespace a key belongs to
    Size,         \* the bytes of a key's row
    NoKey, NoToken, NoReservation

ASSUME KeysAssumption ==
    /\ NoKey \notin Keys
    /\ NoToken \notin Tokens
    /\ NsOf \in [Keys -> Namespaces]
    /\ Size \in [Keys -> Nat \ {0}]

ASSUME ClientsAssumption == IsFiniteSet(Clients)

VARIABLES
    row,          \* the meta table
    reservation,  \* Key -> the save in flight
    claim,        \* Client -> the key it has checked out
    waiters,      \* Key -> the clients parked in lookup_exact_or_wait
    pinned,       \* Namespace -> its pinned key
    liveKey,      \* the key of the session that finished last
    file,         \* Key -> what the path of its .kvc file holds
    dead          \* clients that have exited

metaVars == <<row, reservation, claim, waiters, pinned, liveKey, file, dead>>

(***************************************************************************)
(* A file is a checkpoint saved for an ordinary reason ("plain"), one      *)
(* saved as a static prefix ("prefix": its header says agent_prefix), or   *)
(* bytes that do not parse.                                                *)
(***************************************************************************)
ValidFile == {"plain", "prefix"}
FileState == ValidFile \cup {"none", "corrupt"}

Row == [status : {"absent", "writing", "available"},
        refcount : Nat, pinned : BOOLEAN]

(***************************************************************************)
(* lapsed stands for expires_ns =< monotonic_ns().                         *)
(***************************************************************************)
Reservation == [writer : Clients, token : Tokens,
                stage : {"pre_link", "post_link"}, lapsed : BOOLEAN]

ASSUME ReservationAssumption == NoReservation \notin Reservation

Absent      == [status |-> "absent",  refcount |-> 0, pinned |-> FALSE]
Placeholder == [status |-> "writing", refcount |-> 0, pinned |-> FALSE]

IsPinnedKey(k) == \E ns \in Namespaces : pinned[ns] = k

\* Deviation: the pin of the namespace is not restored.
InstalledUnpinned(k) == [status |-> "available", refcount |-> 0, pinned |-> FALSE]

\* install_available_row followed by maybe_restore_pin
Installed(k) == [status |-> "available", refcount |-> 0, pinned |-> IsPinnedKey(k)]

Reserved    == {k \in Keys : reservation[k] # NoReservation}
Available   == {k \in Keys : row[k].status = "available"}

Owns(k, t)  == k \in Reserved /\ reservation[k].token = t

IsLive(k)   == reservation[k].writer \notin dead /\ ~reservation[k].lapsed

MetaInit ==
    /\ row         = [k \in Keys |-> Absent]
    /\ reservation = [k \in Keys |-> NoReservation]
    /\ claim       = [c \in Clients |-> NoKey]
    /\ waiters     = [k \in Keys |-> {}]
    /\ pinned      = [ns \in Namespaces |-> NoKey]
    /\ liveKey     = NoKey
    /\ file        = [k \in Keys |-> "none"]
    /\ dead        = {}

MetaTypeOK ==
    /\ row         \in [Keys -> Row]
    /\ reservation \in [Keys -> Reservation \cup {NoReservation}]
    /\ claim       \in [Clients -> Keys \cup {NoKey}]
    /\ waiters     \in [Keys -> SUBSET Clients]
    /\ pinned      \in [Namespaces -> Keys \cup {NoKey}]
    /\ liveKey     \in Keys \cup {NoKey}
    /\ file        \in [Keys -> FileState]
    /\ dead        \subseteq Clients

--------------------------------------------------------------------------------
(***************************************************************************)
(* Cleaning up after the writers of the keys in S.  A save that was still  *)
(* pre_link leaves nothing; one that was post_link is validated and        *)
(* adopted, which answers the callers parked on the key, or deleted.       *)
(***************************************************************************)
PostLink(S) == {k \in S : reservation[k].stage = "post_link"}
Adopted(S)  == {k \in PostLink(S) : file[k] \in ValidFile}

CleanRow(S) == [k \in Keys |-> IF k \in Adopted(S) THEN Installed(k)
                               ELSE IF k \in S THEN Absent
                               ELSE row[k]]

CleanFile(S) == [k \in Keys |-> IF k \in PostLink(S) \ Adopted(S)
                                THEN "none" ELSE file[k]]

\* Deviation: adopting a file does not answer the parked callers.
CleanWaitersKept(S) == waiters

CleanWaiters(S) == [k \in Keys |-> IF k \in Adopted(S) THEN {} ELSE waiters[k]]

CleanUp(S) ==
    /\ row'         = CleanRow(S)
    /\ file'        = CleanFile(S)
    /\ waiters'     = CleanWaiters(S)
    /\ reservation' = [k \in Keys |-> IF k \in S THEN NoReservation
                                      ELSE reservation[k]]
    /\ UNCHANGED <<claim, pinned, liveKey, dead>>

--------------------------------------------------------------------------------
(***************************************************************************)
(* Writers.  A reservation is granted for a key without a row, and for one *)
(* whose reservation is stale: that save is cleaned up first, and if it    *)
(* was adopted the new placeholder replaces the adopted row.               *)
(***************************************************************************)
\* Deviation: a reservation is granted although a live writer holds it.
CanReserveTaken(k) == row[k].status # "available"

\* Deviation: a reservation is granted although the key is published.
CanReserveOver(k) == row[k].status = "writing" => ~IsLive(k)

CanReserve(k) ==
    \/ row[k].status = "absent"
    \/ row[k].status = "writing" /\ ~IsLive(k)

ReserveSave(c, k, t) ==
    LET stale == IF row[k].status = "writing" THEN {k} ELSE {} IN
    /\ CanReserve(k)
    /\ row' = [CleanRow(stale) EXCEPT ![k] = Placeholder]
    /\ file' = CleanFile(stale)
    /\ waiters' = CleanWaiters(stale)
    /\ reservation' = [reservation EXCEPT ![k] =
                         [writer |-> c, token |-> t,
                          stage |-> "pre_link", lapsed |-> FALSE]]
    /\ UNCHANGED <<claim, pinned, liveKey, dead>>

CheckReservation(k, t) ==
    /\ Owns(k, t)
    /\ reservation' = [reservation EXCEPT ![k].lapsed = FALSE]
    /\ UNCHANGED <<row, claim, waiters, pinned, liveKey, file, dead>>

MarkPublished(k, t) ==
    /\ Owns(k, t)
    /\ reservation' = [reservation EXCEPT ![k].stage = "post_link",
                                          ![k].lapsed = FALSE]
    /\ UNCHANGED <<row, claim, waiters, pinned, liveKey, file, dead>>

AnnounceSaved(k, t) ==
    /\ Owns(k, t)
    /\ row' = [row EXCEPT ![k] = Installed(k)]
    /\ reservation' = [reservation EXCEPT ![k] = NoReservation]
    /\ waiters' = [waiters EXCEPT ![k] = {}]
    /\ UNCHANGED <<claim, pinned, liveKey, file, dead>>

\* Deviation: the placeholder row stays behind.
CancelKeepsRow(k, t) ==
    /\ IF Owns(k, t) THEN reservation' = [reservation EXCEPT ![k] = NoReservation]
                     ELSE UNCHANGED reservation
    /\ UNCHANGED <<row, claim, waiters, pinned, liveKey, file, dead>>

\* Cancelling with a token that is not the key's any more changes nothing.
CancelReservation(k, t) ==
    /\ IF Owns(k, t)
       THEN /\ row' = [row EXCEPT ![k] = Absent]
            /\ reservation' = [reservation EXCEPT ![k] = NoReservation]
       ELSE UNCHANGED <<row, reservation>>
    /\ UNCHANGED <<claim, waiters, pinned, liveKey, file, dead>>

--------------------------------------------------------------------------------
(***************************************************************************)
(* Readers.                                                                *)
(***************************************************************************)
Checkout(c, k) ==
    /\ row[k].status = "available"
    /\ row' = [row EXCEPT ![k].refcount = @ + 1]
    /\ claim' = [claim EXCEPT ![c] = k]
    /\ UNCHANGED <<reservation, waiters, pinned, liveKey, file, dead>>

\* The row after one claim on it has gone: the counter clamps at zero, and
\* a key without a row is left alone.
Decremented(k) ==
    [row EXCEPT ![k].refcount = IF @ = 0 THEN 0 ELSE @ - 1]

\* Deviation: the claim of a client that died is dropped without being counted.
ReleaseUncounted(c) ==
    /\ row' = IF claim[c] = NoKey \/ c \in dead THEN row ELSE Decremented(claim[c])
    /\ claim' = [claim EXCEPT ![c] = NoKey]
    /\ UNCHANGED <<reservation, waiters, pinned, liveKey, file, dead>>

ReleaseClaim(c) ==
    /\ row' = IF claim[c] = NoKey THEN row ELSE Decremented(claim[c])
    /\ claim' = [claim EXCEPT ![c] = NoKey]
    /\ UNCHANGED <<reservation, waiters, pinned, liveKey, file, dead>>

\* lookup_or_wait while a save is in flight parks the caller.
Park(c, k) ==
    /\ row[k].status = "writing"
    /\ waiters' = [waiters EXCEPT ![k] = @ \cup {c}]
    /\ UNCHANGED <<row, reservation, claim, pinned, liveKey, file, dead>>

\* Deviation: the timer is dropped with the reservation.
WaiterExpireReserved(c, k) ==
    /\ c \in waiters[k]
    /\ k \in Reserved
    /\ waiters' = [waiters EXCEPT ![k] = @ \ {c}]
    /\ UNCHANGED <<row, reservation, claim, pinned, liveKey, file, dead>>

WaiterExpire(c, k) ==
    /\ c \in waiters[k]
    /\ waiters' = [waiters EXCEPT ![k] = @ \ {c}]
    /\ UNCHANGED <<row, reservation, claim, pinned, liveKey, file, dead>>

--------------------------------------------------------------------------------
(***************************************************************************)
(* Pins, the live key and eviction.                                        *)
(***************************************************************************)
PinRow(k) ==
    LET prior == pinned[NsOf[k]]
        Flag(r, b) == IF r.status = "absent" THEN r ELSE [r EXCEPT !.pinned = b]
    IN
    /\ row' = [j \in Keys |-> IF j = k THEN Flag(row[j], TRUE)
                              ELSE IF j = prior THEN Flag(row[j], FALSE)
                              ELSE row[j]]
    /\ pinned' = [pinned EXCEPT ![NsOf[k]] = k]
    /\ UNCHANGED <<reservation, claim, waiters, liveKey, file, dead>>

SetLiveKey(k) ==
    /\ liveKey' = k
    /\ UNCHANGED <<row, reservation, claim, waiters, pinned, file, dead>>

\* Deviation: eviction looks at the refcount only.
EvictableUnpublished == {k \in Keys : row[k].status # "absent" /\ row[k].refcount = 0}

Evictable   == {k \in Available : row[k].refcount = 0}
\* Deviation: pinned rows are not protected.
IsProtectedLive(k) == k = liveKey

IsProtected(k) == row[k].pinned \/ k = liveKey
Protected   == {k \in Evictable : IsProtected(k)}

Evict(S) ==
    /\ row'  = [k \in Keys |-> IF k \in S THEN Absent ELSE row[k]]
    /\ file' = [k \in Keys |-> IF k \in S THEN "none" ELSE file[k]]
    /\ UNCHANGED <<reservation, claim, waiters, pinned, liveKey, dead>>

Gc == Evict(Evictable \ Protected)

(***************************************************************************)
(* The frecency score orders the rows of each rank; every order of them is *)
(* allowed here.  A row that is not protected is evicted before one that   *)
(* is, and the walk stops at the first row that reaches the target.        *)
(***************************************************************************)
Bytes(S) == MapThenSumSet(LAMBDA k : Size[k], S)

IsVictimSet(S, target) ==
    /\ S \subseteq Evictable
    /\ S \cap Protected # {} => (Evictable \ Protected) \subseteq S
    /\ \/ S = Evictable /\ Bytes(S) < target
       \/ /\ Bytes(S) >= target
          /\ \E last \in S :
                /\ last \in Protected \/ S \cap Protected = {}
                /\ Bytes(S \ {last}) < target

EvictBytes(target) ==
    \E S \in SUBSET Evictable : IsVictimSet(S, target) /\ Evict(S)

--------------------------------------------------------------------------------
(***************************************************************************)
(* Monitors, the time-to-live of reservations, and the sweep timer.        *)
(***************************************************************************)
\* 'DOWN' of a client that held a claim
ReaderDown(c) ==
    /\ c \in dead
    /\ claim[c] # NoKey
    /\ ReleaseClaim(c)

\* Deviation: only a post_link reservation is cleaned up.
WriterDownPostLink(k) ==
    /\ k \in Reserved
    /\ reservation[k].writer \in dead
    /\ reservation[k].stage = "post_link"
    /\ CleanUp({k})

\* 'DOWN' of a client that held a reservation
WriterDown(k) ==
    /\ k \in Reserved
    /\ reservation[k].writer \in dead
    /\ CleanUp({k})

Lapse(k) ==
    /\ k \in Reserved
    /\ ~reservation[k].lapsed
    /\ reservation' = [reservation EXCEPT ![k].lapsed = TRUE]
    /\ UNCHANGED <<row, claim, waiters, pinned, liveKey, file, dead>>

Sweep ==
    LET stale == {k \in Reserved : ~IsLive(k)} IN
    /\ stale # {}
    /\ CleanUp(stale)

\* The supervisor restarts the server: the tables and its state are gone,
\* the files stay.
MetaRestart ==
    /\ row'         = [k \in Keys |-> Absent]
    /\ reservation' = [k \in Keys |-> NoReservation]
    /\ claim'       = [c \in Clients |-> NoKey]
    /\ waiters'     = [k \in Keys |-> {}]
    /\ pinned'      = [ns \in Namespaces |-> NoKey]
    /\ liveKey'     = NoKey
    /\ UNCHANGED file
================================================================================
