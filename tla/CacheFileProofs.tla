----------------------------- MODULE CacheFileProofs -----------------------------
(***************************************************************************)
(* Who has authority over a path: first of every behaviour, then what it   *)
(* means for the files as long as the authority of a live writer does not  *)
(* go stale inside the link window, that is, the writer gets from          *)
(* check_reservation/2 to mark_published/3 before its reservation lapses   *)
(* and without a restart of the server (StaleAuthority = {}).              *)
(***************************************************************************)
EXTENDS CacheIndexProofs

--------------------------------------------------------------------------------
(***************************************************************************)
(* Tokens are the clients' own, and a reservation with a client's token is *)
(* that client's.                                                          *)
(***************************************************************************)
TokenUnique == \A c, d \in Clients : token[c] = token[d] /\ token[c] # NoToken => c = d

TokenOwner == \A k \in Reserved, c \in Clients :
                 reservation[k].token = token[c] => reservation[k].writer = c

TokenInv == TokenUnique /\ TokenOwner

LEMMA TokenMoves ==
  ASSUME ClientInv, [Next]_vars,
         \A c \in Clients, k \in Keys, r \in Reason, t \in Tokens : ~StartSave(c, k, r, t)
  PROVE  \A d \in Clients : token'[d] \in {token[d], NoToken}
<1> USE DEF ClientInv, PublishTypeOK, Goto, Return
<1>1. CASE UNCHANGED vars
  BY <1>1 DEF vars
<1>2. ASSUME NEW c \in Clients, Begin(c) PROVE \A d \in Clients : token'[d] = token[d]
  BY <1>2 DEF Begin, SaveAlreadyPresent, StartRead, StartWait
<1>3. ASSUME NEW c \in Clients, SaveStep(c)
      PROVE  \A d \in Clients : token'[d] \in {token[d], NoToken}
  <2>1. CASE WriteTmp(c) \/ Check(c) \/ CheckExpired(c) \/ Link(c) \/ Exists(c) \/ Relink(c)
    BY <2>1 DEF WriteTmp, Check, CheckExpired, Link, LinkTmp, PublishFails, Exists, Relink
  <2>2. CASE Replace(c) \/ Unlink(c) \/ Finalise(c) \/ Cancel(c) \/ Mark(c) \/ Announce(c)
             \/ Expired(c) \/ AfterSave(c)
    BY <2>2 DEF Replace, Unlink, Finalise, PublishFails, Cancel, Mark, Announce, Expired, AfterSave
  <2>3. QED BY <1>3, <2>1, <2>2 DEF SaveStep
<1>4. ASSUME NEW c \in Clients, ReadStep(c) \/ Crash(c) \/ Spawn(c)
      PROVE  \A d \in Clients : token'[d] \in {token[d], NoToken}
  BY <1>4 DEF ReadStep, Load, Checkin, AfterHit, Answered, Crash, Spawn, clientVars
<1>5. CASE MetaStep \/ Restart \/ \E k \in Keys : TimePasses(k)
  BY <1>5 DEF MetaStep, Restart, TimePasses, clientVars
<1>6. QED BY <1>1, <1>2, <1>3, <1>4, <1>5 DEF Next

LEMMA TokensKept == ClientInv /\ TokenInv /\ [Next]_vars => TokenInv'
<1> SUFFICES ASSUME ClientInv, TokenInv, [Next]_vars PROVE TokenInv'
  OBVIOUS
<1> USE DEF ClientInv, PublishTypeOK
<1>1. CASE \A c \in Clients, k \in Keys :
              ~StartWait(c, k) /\ \A r \in Reason, t \in Tokens : ~StartSave(c, k, r, t)
  <2>1. Shrunk /\ \A d \in Clients : token'[d] \in {token[d], NoToken}
    BY <1>1, ServerShrinks, TokenMoves
  <2>2. \A k \in Reserved : reservation[k].token # NoToken
    BY KeysAssumption DEF MetaTypeOK, Reservation, Reserved
  <2>3. QED BY <2>1, <2>2 DEF TokenInv, TokenUnique, TokenOwner, Shrunk
<1>2. ASSUME NEW c \in Clients, NEW k \in Keys, StartWait(c, k) PROVE TokenInv'
  BY <1>2 DEF StartWait, Park, TokenInv, TokenUnique, TokenOwner, Reserved
<1>3. ASSUME NEW c \in Clients, NEW k \in Keys, NEW r \in Reason, NEW t \in Tokens,
             StartSave(c, k, r, t)
      PROVE  TokenInv'
  <2>1. /\ \A d \in Clients : token[d] # t /\ token'[d] = IF d = c THEN t ELSE token[d]
        /\ \A j \in Reserved : reservation[j].token # t
        /\ \A j \in Keys \ {k} : reservation'[j] = reservation[j]
        /\ reservation'[k].writer = c /\ reservation'[k].token = t
    BY <1>3 DEF StartSave, ReserveSave, UsedTokens, MetaTypeOK
  <2>2. TokenUnique'
    BY <2>1 DEF TokenInv, TokenUnique
  <2>3. TokenOwner'
    BY <2>1 DEF TokenInv, TokenOwner, Reserved
  <2>4. QED BY <2>2, <2>3 DEF TokenInv
<1>4. QED BY <1>1, <1>2, <1>3

LEMMA TokenInvariant == Spec => []TokenInv
<1>1. Init => TokenInv
  BY DEF Init, MetaInit, TokenInv, TokenUnique, TokenOwner, Reserved
<1>2. QED BY <1>1, TokensKept, ClientInvariant, PTL DEF Spec

--------------------------------------------------------------------------------
(***************************************************************************)
(* A step that takes the reservation of a live writer inside the link      *)
(* window finds it lapsed, or is a restart of the server.                  *)
(***************************************************************************)
LEMMA TakenWhenLapsed ==
  ASSUME ClientInv, IndexInv, TokenInv, [Next]_vars,
         NEW c \in InWindow, c \in InWindow', Owns(key[c], token[c]),
         ~Owns(key[c], token[c])' \/ key[c] \notin Reserved'
  PROVE  Restart \/ reservation[key[c]].lapsed
<1> USE DEF ClientInv, PublishTypeOK
<1> DEFINE k == key[c]
<1>0. /\ k \in Reserved /\ k \in Keys /\ c \in Clients /\ c \notin dead
      /\ reservation[k] \in Reservation /\ reservation[k].token = token[c]
      /\ reservation[k].writer = c
      /\ pc[c] \in LinkWindow
  BY DEF Owns, Reserved, InWindow, Live, MetaTypeOK, TokenInv, TokenOwner
<1>1. key'[c] = k /\ token'[c] = token[c]
  BY <1>0, SaveMoves, ClientMoves
     DEF InWindow, Live, LinkWindow, SavePc, Begin, StartSave, SaveAlreadyPresent, StartRead,
         StartWait, At, ReadStep, Load, Checkin, AfterHit, Answered
<1>2. ~IsLive(k) => reservation[k].lapsed
  BY <1>0 DEF IsLive
<1>3. CASE UNCHANGED reservation
  BY <1>0, <1>1, <1>3 DEF Owns, Reserved
<1>4. ASSUME NEW S \in SUBSET Reserved, CleanUp(S), \A j \in S : ~IsLive(j)
      PROVE  reservation[k].lapsed
  <2>1. k \in S
    BY <1>0, <1>1, <1>4 DEF CleanUp, Owns, Reserved, MetaTypeOK
  <2>2. QED BY <1>2, <1>4, <2>1
<1>5. ASSUME NEW d \in Clients, NEW j \in Keys, NEW r \in Reason, NEW t \in Tokens,
             StartSave(d, j, r, t)
      PROVE  reservation[k].lapsed
  <2>1. j = k
    BY <1>0, <1>1, <1>5 DEF StartSave, ReserveSave, Owns, Reserved, MetaTypeOK
  <2>2. CanReserve(k)
    BY <1>5, <2>1 DEF StartSave, ReserveSave
  <2>3. QED BY <1>0, <1>2, <2>2 DEF CanReserve, IndexInv, WritingReserved
<1>6. ASSUME NEW d \in Clients, SaveStep(d)
      PROVE  UNCHANGED reservation
  <2>1. ASSUME NEW j \in Keys, CheckReservation(j, token[d]) \/ MarkPublished(j, token[d])
        PROVE  FALSE
    <3>1. PICK r : /\ reservation' = [reservation EXCEPT ![j] = r]
                   /\ r \in {[reservation[j] EXCEPT !.lapsed = FALSE],
                             [reservation[j] EXCEPT !.stage = "post_link", !.lapsed = FALSE]}
      BY ZenonT(40), <2>1 DEF CheckReservation, MarkPublished
    <3>2. reservation[j] \in Reservation
      BY <2>1 DEF CheckReservation, MarkPublished, Owns, Reserved, MetaTypeOK
    <3>3. r \in Reservation /\ r.token = reservation[j].token
      BY <3>1, <3>2 DEF Reservation
    <3>4. QED BY <1>0, <1>1, <3>1, <3>3, ReservationAssumption DEF Owns, Reserved, MetaTypeOK
  <2>2. ASSUME AnnounceSaved(key[d], token[d]) \/ CancelReservation(key[d], token[d]),
               pc'[d] \notin LinkWindow, key[d] \in Keys
        PROVE  UNCHANGED reservation
    <3>1. d # c
      BY <2>2 DEF InWindow
    <3>2. CASE Owns(key[d], token[d]) /\ key[d] = k
      <4>1. token[d] = token[c] /\ token[c] # NoToken
        BY <1>0, <3>2, KeysAssumption DEF Owns, Reservation
      <4>2. QED BY <1>0, <3>1, <4>1 DEF TokenInv, TokenUnique
    <3>3. CASE Owns(key[d], token[d]) /\ key[d] # k
      BY <1>0, <1>1, <2>2, <3>3 DEF AnnounceSaved, CancelReservation, Owns, Reserved, MetaTypeOK
    <3>4. CASE ~Owns(key[d], token[d])
      BY <2>2, <3>4 DEF AnnounceSaved, CancelReservation
    <3>5. QED BY <3>2, <3>3, <3>4
  <2>3. pc[d] # "idle" => key[d] \in Keys
    BY DEF KeyHeld
  <2>4. CASE Check(d) \/ Mark(d)
    BY <2>1, <2>3, <2>4 DEF Check, Mark, At
  <2>5. CASE Announce(d) \/ Cancel(d)
    BY <2>2, <2>3, <2>5 DEF Announce, Cancel, At, Goto, Return, LinkWindow
  <2>6. CASE ~(Check(d) \/ Mark(d) \/ Announce(d) \/ Cancel(d))
    BY <1>6, <2>6
       DEF SaveStep, WriteTmp, CheckExpired, Link, LinkTmp, PublishFails, WriteFile, Exists,
           Relink, Replace, Unlink, Finalise, Expired, AfterSave, PinRow, SetLiveKey, metaVars
  <2>7. QED BY <2>4, <2>5, <2>6
<1>7. CASE MetaStep
  <2>1. CASE \E j \in Keys : WriterDown(j)
    <3>1. PICK j \in Keys : WriterDown(j)
      BY <2>1
    <3>2. {j} \in SUBSET Reserved /\ ~IsLive(j) /\ CleanUp({j})
      BY <3>1 DEF WriterDown, IsLive
    <3>3. QED BY <1>4, <3>2
  <2>2. CASE Sweep
    BY <1>4, <2>2 DEF Sweep
  <2>3. CASE ~Sweep /\ \A j \in Keys : ~WriterDown(j)
    BY <1>3, <1>7, <2>3
       DEF MetaStep, Gc, EvictBytes, Evict, ReaderDown, ReleaseClaim, WaiterExpire
  <2>4. QED BY <2>1, <2>2, <2>3
<1>8. CASE \E j \in Keys : TimePasses(j)
  <2>1. PICK j \in Keys : Lapse(j)
    BY <1>8 DEF TimePasses
  <2>2. /\ reservation[j] \in Reservation
        /\ reservation' = [reservation EXCEPT ![j] = [reservation[j] EXCEPT !.lapsed = TRUE]]
    BY <2>1 DEF Lapse, Reserved, MetaTypeOK
  <2>3. /\ [reservation[j] EXCEPT !.lapsed = TRUE] \in Reservation
        /\ [reservation[j] EXCEPT !.lapsed = TRUE].token = reservation[j].token
    BY <2>2 DEF Reservation
  <2>4. QED BY <1>0, <1>1, <2>2, <2>3, ReservationAssumption DEF Owns, Reserved, MetaTypeOK
<1>9. ASSUME NEW d \in Clients, Begin(d) \/ ReadStep(d) \/ Crash(d) \/ Spawn(d)
      PROVE  Restart \/ reservation[k].lapsed
  <2>1. CASE \E j \in Keys, r \in Reason, t \in Tokens : StartSave(d, j, r, t)
    BY <1>5, <2>1
  <2>2. CASE \A j \in Keys, r \in Reason, t \in Tokens : ~StartSave(d, j, r, t)
    BY <1>3, <1>9, <2>2
       DEF Begin, SaveAlreadyPresent, StartRead, StartWait, Checkout, Park, ReadStep, Load,
           WriteFile, Checkin, ReleaseClaim, AfterHit, PinRow, Answered, Crash, Spawn, metaVars
  <2>3. QED BY <2>1, <2>2
<1>10. QED
  <2>1. CASE UNCHANGED vars
    BY <1>3, <2>1 DEF vars
  <2>2. QED BY <1>3, <1>6, <1>7, <1>8, <1>9, <2>1 DEF Next

\* A token that was taken does not come back.
LEMMA OvertakenStays ==
  ASSUME ClientInv, [Next]_vars, NEW c \in Clients, Overtaken(c), c \in InWindow'
  PROVE  Overtaken(c)'
<1> USE DEF ClientInv, PublishTypeOK
<1>0. pc[c] \in LinkWindow /\ c \notin dead /\ key[c] \in Keys
  BY DEF Overtaken, InWindow, Live, KeyHeld, LinkWindow
<1>1. key'[c] = key[c] /\ token'[c] = token[c]
  BY <1>0, SaveMoves, ClientMoves
     DEF InWindow, Live, LinkWindow, SavePc, Begin, StartSave, SaveAlreadyPresent, StartRead,
         StartWait, At, ReadStep, Load, Checkin, AfterHit, Answered
<1>2. CASE \A d \in Clients, k \in Keys :
              ~StartWait(d, k) /\ \A r \in Reason, t \in Tokens : ~StartSave(d, k, r, t)
  BY <1>1, <1>2, ServerShrinks DEF Shrunk, Overtaken, Owns
<1>3. CASE \E d \in Clients, k \in Keys : StartWait(d, k)
  BY <1>1, <1>3 DEF StartWait, Park, Overtaken, Owns, Reserved
<1>4. ASSUME NEW d \in Clients, NEW k \in Keys, NEW r \in Reason, NEW t \in Tokens,
             StartSave(d, k, r, t)
      PROVE  Overtaken(c)'
  <2>1. /\ \A j \in Keys \ {k} : reservation'[j] = reservation[j]
        /\ reservation'[k].token = t /\ token[c] # t
    BY <1>4 DEF StartSave, ReserveSave, UsedTokens, MetaTypeOK
  <2>2. QED BY <1>0, <1>1, <2>1 DEF Overtaken, Owns, Reserved
<1>5. QED BY <1>2, <1>3, <1>4

LEMMA LinkStep ==
  ASSUME ClientInv, IndexInv, TokenInv, ClientInv', TokenInv', [Next]_vars
  PROVE  /\ \A c, d \in InWindow' :
               c # d /\ key'[c] = key'[d] => Overtaken(c)' \/ Overtaken(d)'
         /\ \A c \in InWindow \cap InWindow' :
               /\ Overtaken(c) => Overtaken(c)'
               /\ Overtaken(c)' =>
                     Overtaken(c) \/ Restart \/ reservation[key[c]].lapsed
<1>1. ASSUME NEW c \in InWindow', NEW d \in InWindow', key'[c] = key'[d],
             ~Overtaken(c)', ~Overtaken(d)'
      PROVE  c = d
  <2>1. /\ c \in Clients /\ d \in Clients
        /\ reservation'[key'[c]] \in Reservation
        /\ reservation'[key'[c]].token = token'[c] /\ token'[c] = token'[d]
    BY <1>1 DEF InWindow, Live, Overtaken, Owns, Reserved, ClientInv, PublishTypeOK, MetaTypeOK
  <2>2. QED BY <2>1, KeysAssumption DEF TokenInv, TokenUnique, Reservation
<1>2. ASSUME NEW c \in InWindow, c \in InWindow', Overtaken(c)', ~Overtaken(c)
      PROVE  Restart \/ reservation[key[c]].lapsed
  BY <1>2, TakenWhenLapsed DEF Overtaken
<1>3. \A c \in InWindow : c \in Clients
  BY DEF InWindow, Live
<1>4. QED BY <1>1, <1>2, <1>3, OvertakenStays

(***************************************************************************)
(* Of the writers of one key between check_reservation/2 and               *)
(* mark_published/3 all but one have been overtaken, and a writer is       *)
(* overtaken only once its reservation has lapsed or by a restart of the   *)
(* server, whatever ends reservations and whenever.                        *)
(***************************************************************************)
THEOREM LinksExclusive == Spec => LinkExclusive
<1>1. ClientInv /\ IndexInv /\ TokenInv /\ ClientInv' /\ TokenInv' /\ [Next]_vars =>
        [/\ \A c, d \in InWindow' :
               c # d /\ key'[c] = key'[d] => Overtaken(c)' \/ Overtaken(d)'
         /\ \A c \in InWindow \cap InWindow' :
               /\ Overtaken(c) => Overtaken(c)'
               /\ Overtaken(c)' =>
                     Overtaken(c) \/ Restart \/ reservation[key[c]].lapsed]_vars
  BY LinkStep
<1>2. QED BY <1>1, IndexInvariant, TokenInvariant, PTL DEF Spec, LinkExclusive

--------------------------------------------------------------------------------
(***************************************************************************)
(* Authority, from here on without staleness: a live client inside the     *)
(* link window holds the reservation of its key, unlapsed.                 *)
(***************************************************************************)
WindowOwned == \A c \in InWindow : Owns(key[c], token[c]) /\ ~reservation[key[c]].lapsed

Authority == TokenUnique /\ TokenOwner /\ WindowOwned

(***************************************************************************)
(* Files: from the link on the file of the save in flight is whole, also   *)
(* when nobody but the server remembers the save, so every row that is     *)
(* installed has one; the writer never gets to the error paths that unlink *)
(* a file.                                                                 *)
(***************************************************************************)
LinkedFile == \A c \in Live :
                 pc[c] \in {"exists", "linked", "published"} => file[key[c]] \in ValidFile

NothingUnlinked == \A c \in Live : pc[c] \notin {"replace", "relink", "unlink"}

MarkedPostLink == \A c \in Live : pc[c] = "marked" /\ Owns(key[c], token[c])
                                  => reservation[key[c]].stage = "post_link"

PostLinkFile == \A k \in Reserved : reservation[k].stage = "post_link" => file[k] \in ValidFile

NeverCorrupt == \A k \in Keys : file[k] # "corrupt"

FileInv == LinkedFile /\ NothingUnlinked /\ MarkedPostLink /\ PostLinkFile /\ NeverCorrupt
           /\ RowBacked

SafeInv == ClientInv /\ IndexInv /\ Authority /\ FileInv

--------------------------------------------------------------------------------
LEMMA WindowKey ==
  ASSUME SafeInv, NEW c \in InWindow
  PROVE  /\ key[c] \in Reserved /\ key[c] \in Keys
         /\ key[c] \notin Available
         /\ reservation[key[c]].token = token[c]
         /\ reservation[key[c]].writer = c
         /\ ~CanReserve(key[c])
         /\ IsLive(key[c])
<1>1. key[c] \in Reserved /\ key[c] \in Keys /\ reservation[key[c]].token = token[c]
  BY DEF SafeInv, Authority, WindowOwned, Owns, Reserved
<1>2. reservation[key[c]].writer = c /\ c \in Live
  BY <1>1 DEF SafeInv, Authority, TokenOwner, InWindow, Live
<1>3. IsLive(key[c])
  BY <1>1, <1>2 DEF SafeInv, Authority, WindowOwned, IsLive, Live
<1>4. row[key[c]].status = "writing"
  BY <1>1 DEF SafeInv, IndexInv, WritingReserved
<1>5. QED BY <1>1, <1>2, <1>3, <1>4 DEF Available, CanReserve

LEMMA WindowAlone ==
  ASSUME SafeInv, NEW c \in InWindow, NEW d \in Clients,
         Owns(key[c], token[d])
  PROVE  c = d
<1>1. reservation[key[c]] \in Reservation /\ reservation[key[c]].token = token[c]
  BY WindowKey DEF SafeInv, IndexInv, MetaTypeOK, Reserved
<1>2. token[c] \in Tokens
  BY <1>1 DEF Reservation
<1>3. token[c] = token[d]
  BY <1>1 DEF Owns
<1>4. QED
  BY <1>2, <1>3, KeysAssumption DEF SafeInv, Authority, TokenUnique, InWindow, Live

--------------------------------------------------------------------------------
(***************************************************************************)
(* Steps of a client that leave the reservations, the rows and the files   *)
(* alone.                                                                  *)
(***************************************************************************)
LEMMA QuietKept ==
  ASSUME SafeInv, NEW c \in Clients,
         UNCHANGED <<reservation, file>>, Available' = Available,
         dead \subseteq dead',
         \A d \in Clients \ {c} : /\ pc'[d] = pc[d] /\ key'[d] = key[d]
                                 /\ token'[d] = token[d],
         token'[c] \in {token[c], NoToken},
         \/ c \in dead'
         \/ pc'[c] \notin LinkWindow \cup {"marked"}
         \/ pc'[c] = "marked" /\ pc[c] = "marked" /\ key'[c] = key[c]
         \/ c \in InWindow /\ key'[c] = key[c] /\ token'[c] = token[c]
            /\ pc'[c] \in {"exists", "published"} /\ file[key[c]] \in ValidFile
  PROVE  (Authority /\ FileInv)'
<1> USE DEF SafeInv, Authority, FileInv
<1>1. Reserved' = Reserved
  BY DEF Reserved
<1>2. TokenUnique'
  BY DEF TokenUnique
<1>a. \A k \in Reserved : reservation[k].token # NoToken
  BY KeysAssumption DEF IndexInv, MetaTypeOK, Reservation, Reserved
<1>3. TokenOwner'
  BY <1>1, <1>a DEF TokenOwner
<1>4. WindowOwned'
  <2>1. ASSUME NEW d \in InWindow' PROVE Owns(key[d], token[d]) /\ ~reservation[key[d]].lapsed
                                         /\ key'[d] = key[d] /\ token'[d] = token[d]
    BY <2>1 DEF WindowOwned, InWindow, Live, LinkWindow
  <2>2. QED BY <1>1, <2>1 DEF WindowOwned, Owns
<1>5. LinkedFile' /\ NothingUnlinked'
  BY DEF LinkedFile, NothingUnlinked, Live, LinkWindow
<1>6. MarkedPostLink'
  <2>1. ASSUME NEW d \in Live', pc'[d] = "marked", Owns(key'[d], token'[d])
        PROVE  reservation[key'[d]].stage = "post_link"
    BY <2>1, <1>a DEF MarkedPostLink, Owns, Live, LinkWindow
  <2>2. QED BY <1>1, <2>1 DEF MarkedPostLink, Owns
<1>7. PostLinkFile' /\ NeverCorrupt' /\ RowBacked'
  BY <1>1 DEF PostLinkFile, NeverCorrupt, RowBacked
<1>8. QED BY <1>2, <1>3, <1>4, <1>5, <1>6, <1>7

LEMMA ReadKept ==
  ASSUME SafeInv, NEW c \in Clients,
         \/ ReadStep(c) \/ AfterSave(c)
         \/ \E k \in Keys : StartRead(c, k) \/ StartWait(c, k)
         \/ \E k \in Keys, r \in Reason : SaveAlreadyPresent(c, k, r)
  PROVE  (Authority /\ FileInv)'
<1> USE DEF At, Goto, Return, LinkWindow
<1>0. /\ MetaTypeOK /\ IndexInv /\ NeverCorrupt /\ PublishTypeOK
      /\ \A k \in Keys : PinRow(k) => Available' = Available
      /\ \A k \in Keys : Checkout(c, k) => Available' = Available
      /\ ReleaseClaim(c) => Available' = Available
  <2>1. MetaTypeOK /\ IndexInv /\ NeverCorrupt /\ PublishTypeOK
    BY DEF SafeInv, IndexInv, FileInv, ClientInv
  <2>2. ASSUME NEW k \in Keys, PinRow(k) \/ Checkout(c, k)
        PROVE  Available' = Available
    <3>1. CASE PinRow(k)
      <4>1. \A j \in Keys : row'[j].status = row[j].status
        BY <2>1, <3>1 DEF PinRow, MetaTypeOK, Row
      <4>2. QED BY <4>1 DEF Available
    <3>2. CASE Checkout(c, k)
      <4>1. \A j \in Keys : row'[j].status = row[j].status
        BY <2>1, <3>2 DEF Checkout, MetaTypeOK, Row
      <4>2. QED BY <4>1 DEF Available
    <3>3. QED BY <2>2, <3>1, <3>2
  <2>3. ASSUME ReleaseClaim(c) PROVE Available' = Available
    <3>1. \A j \in Keys : row'[j].status = row[j].status
      BY <2>1, <2>3 DEF ReleaseClaim, Decremented, MetaTypeOK, Row
    <3>2. QED BY <3>1 DEF Available
  <2>4. QED BY <2>1, <2>2, <2>3
<1>1. UNCHANGED <<reservation, dead>> /\ Available' = Available
  BY <1>0 DEF ReadStep, Load, WriteFile, Checkin, AfterHit, Answered, AfterSave, StartRead,
              StartWait, SaveAlreadyPresent, Checkout, ReleaseClaim, Park, PinRow, SetLiveKey,
              metaVars, Available, KeyHeld, SafeInv, ClientInv
<1>2. UNCHANGED file
  BY <1>0 DEF ReadStep, Load, WriteFile, Checkin, AfterHit, Answered, AfterSave, StartRead,
              StartWait, SaveAlreadyPresent, Checkout, ReleaseClaim, Park, PinRow, SetLiveKey,
              metaVars, NeverCorrupt, KeyHeld, SafeInv, ClientInv
<1>3. /\ pc'[c] \notin LinkWindow \cup {"marked"}
      /\ token'[c] \in {token[c], NoToken}
      /\ \A d \in Clients \ {c} : pc'[d] = pc[d] /\ key'[d] = key[d] /\ token'[d] = token[d]
  BY <1>0 DEF ReadStep, Load, Checkin, AfterHit, Answered, AfterSave, StartRead,
              StartWait, SaveAlreadyPresent, PublishTypeOK
<1>4. QED BY <1>1, <1>2, <1>3, QuietKept

LEMMA QuietSaveKept ==
  ASSUME SafeInv, NEW c \in Clients,
         \/ WriteTmp(c) \/ CheckExpired(c) \/ Exists(c) \/ Expired(c) \/ Finalise(c)
         \/ Crash(c)
         \/ (Link(c) \/ Relink(c)) /\ ~LinkTmp(c)
  PROVE  (Authority /\ FileInv)'
<1> USE DEF At, Goto, Return, LinkWindow
<1>1. /\ UNCHANGED <<reservation, file>> /\ Available' = Available /\ dead \subseteq dead'
  BY DEF WriteTmp, CheckExpired, Exists, Expired, Finalise, Crash, Link, Relink,
         PublishFails, metaVars, Available
<1>2. \A d \in Clients \ {c} : pc'[d] = pc[d] /\ key'[d] = key[d] /\ token'[d] = token[d]
  BY DEF WriteTmp, CheckExpired, Exists, Expired, Finalise, Crash, Link, Relink,
         PublishFails, SafeInv, ClientInv, PublishTypeOK
<1>3. token'[c] \in {token[c], NoToken}
  BY DEF WriteTmp, CheckExpired, Exists, Expired, Finalise, Crash, Link, Relink,
         PublishFails, SafeInv, ClientInv, PublishTypeOK
<1>4. CASE WriteTmp(c) \/ CheckExpired(c) \/ Expired(c) \/ Crash(c)
  <2>1. pc'[c] \notin LinkWindow \cup {"marked"}
    BY <1>4 DEF WriteTmp, CheckExpired, Expired, Crash, SafeInv, ClientInv, PublishTypeOK
  <2>2. QED BY <1>1, <1>2, <1>3, <2>1, QuietKept
<1>5. CASE Exists(c) \/ Finalise(c)
  <2>1. c \in InWindow /\ file[key[c]] \in ValidFile
    BY <1>5 DEF Exists, Finalise, InWindow, SafeInv, FileInv, LinkedFile, Live
  <2>2. /\ key'[c] = key[c] /\ token'[c] = token[c]
        /\ pc'[c] = "published" \/ pc'[c] = "cancel"
    BY <1>5, <2>1 DEF Exists, Finalise, PublishFails, SafeInv, ClientInv, PublishTypeOK
  <2>3. QED BY <1>1, <1>2, <1>3, <2>1, <2>2, QuietKept
<1>6. CASE Link(c) /\ ~LinkTmp(c)
  <2>1. c \in InWindow
    BY <1>6 DEF Link, InWindow, Live
  <2>2. /\ key'[c] = key[c] /\ token'[c] = token[c]
        /\ \/ pc'[c] = "exists" /\ file[key[c]] # "none"
           \/ pc'[c] = "cancel"
    BY <1>6, <2>1 DEF Link, PublishFails, SafeInv, ClientInv, PublishTypeOK
  <2>3. file[key[c]] # "none" => file[key[c]] \in ValidFile
    BY <2>1, WindowKey DEF SafeInv, IndexInv, MetaTypeOK, FileState, FileInv, NeverCorrupt
  <2>4. QED BY <1>1, <1>2, <1>3, <2>1, <2>2, <2>3, QuietKept
<1>7. CASE Relink(c)
  BY <1>7 DEF Relink, Live, SafeInv, FileInv, NothingUnlinked
<1>8. QED BY <1>4, <1>5, <1>6, <1>7

LEMMA LinkKept ==
  ASSUME SafeInv, NEW c \in InWindow, pc[c] = "checked", LinkTmp(c)
  PROVE  (Authority /\ FileInv)'
<1>1. /\ UNCHANGED <<row, reservation, dead, key, token>>
      /\ pc' = [pc EXCEPT ![c] = "linked"]
      /\ file' = [file EXCEPT ![key[c]] = Content(c)]
      /\ Content(c) \in ValidFile
  BY DEF LinkTmp, WriteFile, Goto, Content, ValidFile
<1>2. /\ Reserved' = Reserved /\ Available' = Available /\ Live' = Live
      /\ \A d \in Clients : pc'[d] = IF d = c THEN "linked" ELSE pc[d]
      /\ \A k \in Keys : file'[k] = file[k] \/ file'[k] \in ValidFile
  BY <1>1 DEF Reserved, Available, Live, SafeInv, ClientInv, PublishTypeOK, IndexInv, MetaTypeOK
<1>3. file'[key[c]] \in ValidFile
  BY <1>1, WindowKey DEF SafeInv, IndexInv, MetaTypeOK
<1> USE <1>1, <1>2 DEF SafeInv, Authority, FileInv
<1>4. TokenUnique' /\ TokenOwner'
  BY DEF TokenUnique, TokenOwner
<1>5. WindowOwned'
  BY DEF WindowOwned, InWindow, Owns, LinkWindow, Live
<1>6. LinkedFile'
  BY <1>3 DEF LinkedFile, Live, KeyHeld, ClientInv
<1>7. NothingUnlinked' /\ MarkedPostLink'
  BY DEF NothingUnlinked, MarkedPostLink, Owns, Live
<1>8. PostLinkFile' /\ RowBacked'
  BY DEF PostLinkFile, RowBacked, Reserved, Available
<1>9. NeverCorrupt'
  BY DEF NeverCorrupt, ValidFile
<1>10. QED BY <1>4, <1>5, <1>6, <1>7, <1>8, <1>9

--------------------------------------------------------------------------------
(***************************************************************************)
(* Steps of the owner of a reservation.                                    *)
(***************************************************************************)
LEMMA StartKept ==
  ASSUME SafeInv, NEW c \in Clients, NEW k \in Keys, NEW r \in Reason, NEW t \in Tokens,
         StartSave(c, k, r, t)
  PROVE  (Authority /\ FileInv)'
<1> USE DEF SafeInv, Authority, FileInv
<1>0. MetaTypeOK /\ PublishTypeOK /\ c \in Live /\ pc[c] = "idle" /\ CanReserve(k)
  BY DEF IndexInv, ClientInv, StartSave, ReserveSave, At
<1>1. /\ UNCHANGED dead
      /\ \A d \in Clients : /\ pc'[d] = IF d = c THEN "reserved" ELSE pc[d]
                            /\ key'[d] = IF d = c THEN k ELSE key[d]
                            /\ token'[d] = IF d = c THEN t ELSE token[d]
      /\ \A j \in Keys : reservation'[j] = IF j = k THEN [writer |-> c, token |-> t,
                             stage |-> "pre_link", lapsed |-> FALSE] ELSE reservation[j]
      /\ \A d \in Clients : token[d] # t
      /\ \A j \in Reserved : reservation[j].token # t
  BY <1>0 DEF StartSave, ReserveSave, PublishTypeOK, MetaTypeOK, UsedTokens
<1>2. /\ k \notin Available
      /\ \A d \in InWindow : key[d] # k
  BY <1>0, WindowKey DEF CanReserve, Available
<1>3. \A j \in Keys : file'[j] = file[j]
  <2>1. row[k].status = "writing" => k \in Reserved
    BY DEF IndexInv, WritingReserved
  <2>2. QED
    BY <2>1, <1>0 DEF StartSave, ReserveSave, CleanFile, Adopted, PostLink, PostLinkFile, MetaTypeOK
<1>4. \A j \in Keys : row'[j] = IF j = k THEN Placeholder ELSE row[j]
  BY <1>0 DEF StartSave, ReserveSave, CleanRow, Adopted, PostLink, MetaTypeOK
<1>5. /\ Reserved' = Reserved \cup {k}
      /\ Available' = Available
      /\ Live' = Live
  <2>1. [writer |-> c, token |-> t, stage |-> "pre_link", lapsed |-> FALSE] \in Reservation
    BY DEF Reservation
  <2>2. QED
    BY <1>1, <1>2, <1>4, <2>1, ReservationAssumption, RowFields DEF Reserved, Available, Live
<1>6. TokenUnique'
  BY <1>1 DEF TokenUnique
<1>7. TokenOwner'
  BY <1>1, <1>5 DEF TokenOwner, Reserved
<1>8. WindowOwned'
  <2>1. ASSUME NEW d \in InWindow' PROVE d \in InWindow /\ d # c
    BY <1>1, <1>5, <2>1 DEF InWindow, LinkWindow, Live
  <2>2. ASSUME NEW d \in InWindow, d # c
        PROVE  (Owns(key[d], token[d]) /\ ~reservation[key[d]].lapsed)'
    BY <1>1, <1>2, <1>5, <2>2, WindowKey DEF WindowOwned, Owns, InWindow, Live, Reserved
  <2>3. QED BY <2>1, <2>2 DEF WindowOwned
<1>9. LinkedFile' /\ NothingUnlinked'
  BY <1>0, <1>1, <1>3, <1>5 DEF LinkedFile, NothingUnlinked, Live, ClientInv, KeyHeld
<1>10. MarkedPostLink'
  BY <1>1, <1>5 DEF MarkedPostLink, Owns, Live, Reserved
<1>11. PostLinkFile' /\ NeverCorrupt' /\ RowBacked'
  BY <1>1, <1>3, <1>5 DEF PostLinkFile, NeverCorrupt, RowBacked, Reserved, Available
<1>12. QED BY <1>6, <1>7, <1>8, <1>9, <1>10, <1>11

LEMMA RenewKept ==
  ASSUME SafeInv, NEW c \in Clients, Check(c) \/ Mark(c)
  PROVE  (Authority /\ FileInv)'
<1> USE DEF SafeInv, Authority, FileInv
<1> DEFINE k == key[c]
           next == IF pc[c] = "published" THEN "marked" ELSE "checked"
<1>0. /\ c \in Live /\ pc[c] \in {"written", "published"}
      /\ k \in Reserved /\ k \in Keys /\ reservation[k].token = token[c]
      /\ reservation[k] \in Reservation
      /\ reservation[k].writer = c
  BY DEF Check, Mark, At, CheckReservation, MarkPublished, Owns, Reserved, TokenOwner,
         IndexInv, MetaTypeOK, Live
<1>1. /\ UNCHANGED <<row, file, dead, key, token>>
      /\ \A d \in Clients : pc'[d] = IF d = c THEN next ELSE pc[d]
      /\ \A j \in Keys : j # k => reservation'[j] = reservation[j]
  BY DEF Check, Mark, At, Goto, CheckReservation, MarkPublished, ClientInv, PublishTypeOK,
         IndexInv, MetaTypeOK
<1>2. /\ reservation'[k] \in Reservation
      /\ reservation'[k].token = reservation[k].token
      /\ reservation'[k].writer = reservation[k].writer
      /\ ~reservation'[k].lapsed
      /\ reservation'[k].stage = IF pc[c] = "published" THEN "post_link"
                                 ELSE reservation[k].stage
  <2>1. \/ /\ pc[c] = "written"
           /\ reservation' = [reservation EXCEPT ![k] = [@ EXCEPT !.lapsed = FALSE]]
        \/ /\ pc[c] = "published"
           /\ reservation' = [reservation EXCEPT ![k] =
                               [@ EXCEPT !.stage = "post_link", !.lapsed = FALSE]]
    BY DEF Check, Mark, At, CheckReservation, MarkPublished
  <2>2. reservation \in [Keys -> Reservation \cup {NoReservation}]
    BY DEF IndexInv, MetaTypeOK
  <2>3. \/ /\ pc[c] = "written"
           /\ reservation'[k] = [reservation[k] EXCEPT !.lapsed = FALSE]
        \/ /\ pc[c] = "published"
           /\ reservation'[k] = [reservation[k] EXCEPT !.stage = "post_link", !.lapsed = FALSE]
    BY <1>0, <2>1, <2>2
  <2>4. QED BY <1>0, <2>3 DEF Reservation
<1>3. Reserved' = Reserved /\ Available' = Available /\ Live' = Live
  BY <1>0, <1>1, <1>2, ReservationAssumption DEF Reserved, Available, Live
<1>4. \A j \in Keys : /\ reservation'[j].token = reservation[j].token
                      /\ reservation'[j].writer = reservation[j].writer
                      /\ reservation[j].lapsed = FALSE => reservation'[j].lapsed = FALSE
  BY <1>1, <1>2 DEF IndexInv, MetaTypeOK, Reservation
<1>5. TokenUnique' /\ TokenOwner'
  BY <1>1, <1>3, <1>4 DEF TokenUnique, TokenOwner, Reserved
<1>6. WindowOwned'
  <2>1. ASSUME NEW d \in InWindow', d # c
        PROVE  d \in InWindow /\ key[d] \in Reserved /\ key[d] \in Keys
               /\ reservation[key[d]].token = token[d] /\ reservation[key[d]].writer = d
    BY <1>1, <1>3, <2>1, WindowKey DEF InWindow, Live
  <2>2. ASSUME NEW d \in InWindow', d # c
        PROVE  (Owns(key[d], token[d]) /\ ~reservation[key[d]].lapsed)'
    <3>1. key[d] # k
      BY <1>0, <2>1, <2>2
    <3>2. QED BY <1>1, <1>3, <2>1, <2>2, <3>1 DEF Owns, WindowOwned
  <2>3. (Owns(key[c], token[c]) /\ ~reservation[key[c]].lapsed)'
    BY <1>0, <1>1, <1>2, <1>3 DEF Owns
  <2>4. QED BY <2>2, <2>3 DEF WindowOwned
<1>7. LinkedFile' /\ NothingUnlinked'
  BY <1>1, <1>3 DEF LinkedFile, NothingUnlinked, Live
<1>8. MarkedPostLink'
  <2>1. ASSUME NEW d \in Live, pc'[d] = "marked", Owns(key[d], token[d])'
        PROVE  reservation'[key[d]].stage = "post_link"
    <3>1. key[d] \in Reserved /\ key[d] \in Keys /\ reservation[key[d]].token = token[d]
      BY <1>1, <1>3, <1>4, <2>1 DEF Owns, Reserved
    <3>2. CASE d = c
      BY <1>1, <1>2, <2>1, <3>2 DEF Live
    <3>3. CASE d # c
      <4>1. key[d] # k
        BY <1>0, <3>1, <3>3 DEF TokenOwner, Live
      <4>2. QED BY <1>1, <2>1, <3>1, <3>3, <4>1 DEF MarkedPostLink, Owns, Live
    <3>4. QED BY <3>2, <3>3
  <2>2. QED BY <1>1, <1>3, <2>1 DEF MarkedPostLink
<1>9. PostLinkFile'
  <2>1. pc[c] = "published" => file[k] \in ValidFile
    BY <1>0 DEF LinkedFile
  <2>2. QED BY <1>0, <1>1, <1>2, <1>3, <2>1 DEF PostLinkFile, Reserved
<1>10. NeverCorrupt' /\ RowBacked'
  BY <1>1, <1>3 DEF NeverCorrupt, RowBacked
<1>11. QED BY <1>5, <1>6, <1>7, <1>8, <1>9, <1>10

LEMMA EndKept ==
  ASSUME SafeInv, NEW c \in Clients, Announce(c) \/ Cancel(c)
  PROVE  (Authority /\ FileInv)'
<1> USE DEF SafeInv, Authority, FileInv
<1> DEFINE k == key[c]
<1>0. /\ c \in Live /\ k \in Keys
      /\ pc[c] \in {"marked", "cancel"}
      /\ pc'[c] \notin LinkWindow \cup {"marked"}
      /\ token'[c] \in {token[c], NoToken}
      /\ \A d \in Clients \ {c} : pc'[d] = pc[d] /\ key'[d] = key[d] /\ token'[d] = token[d]
      /\ UNCHANGED <<file, dead>>
  BY DEF Announce, Cancel, At, Live, Goto, Return, AnnounceSaved, CancelReservation,
         ClientInv, PublishTypeOK, KeyHeld, LinkWindow
<1>1. CASE ~Owns(k, token[c])
  <2>1. UNCHANGED <<row, reservation>>
    BY <1>1 DEF Announce, Cancel, AnnounceSaved, CancelReservation
  <2>2. QED BY <1>0, <2>1, QuietKept DEF Available
<1>2. CASE Owns(k, token[c])
  <2>1. /\ \A j \in Keys : reservation'[j] = IF j = k THEN NoReservation ELSE reservation[j]
        /\ \/ row' = [row EXCEPT ![k] = Installed(k)] /\ pc[c] = "marked"
           \/ row' = [row EXCEPT ![k] = Absent]
    BY <1>2 DEF Announce, Cancel, At, AnnounceSaved, CancelReservation, IndexInv, MetaTypeOK
  <2>2. /\ Reserved' = Reserved \ {k}
        /\ \/ Available' \subseteq Available
           \/ Available' = Available \cup {k} /\ pc[c] = "marked"
    BY <1>0, <2>1, RowFields DEF Reserved, Available, IndexInv, MetaTypeOK
  <2>3. Live' = Live
    BY <1>0 DEF Live
  <2>4. \A d \in InWindow' : d \in InWindow /\ d # c /\ key'[d] = key[d] /\ token'[d] = token[d]
    BY <1>0, <2>3 DEF InWindow, Live
  <2>5. \A d \in InWindow' : key[d] # k
    BY <1>0, <1>2, <2>4, WindowAlone
  <2>6. TokenUnique'
    BY <1>0 DEF TokenUnique
  <2>7. TokenOwner'
    <3>1. \A j \in Reserved : reservation[j].token # NoToken
      BY KeysAssumption DEF IndexInv, MetaTypeOK, Reservation, Reserved
    <3>2. QED BY <1>0, <2>1, <2>2, <3>1 DEF TokenOwner, Reserved
  <2>8. WindowOwned'
    <3>1. ASSUME NEW d \in InWindow'
          PROVE  (Owns(key[d], token[d]) /\ ~reservation[key[d]].lapsed)'
      BY <2>1, <2>2, <2>4, <2>5, <3>1 DEF WindowOwned, Owns, Reserved
    <3>2. QED BY <3>1 DEF WindowOwned
  <2>9. LinkedFile' /\ NothingUnlinked'
    BY <1>0, <2>3 DEF LinkedFile, NothingUnlinked, Live, LinkWindow
  <2>10. MarkedPostLink'
    <3>1. ASSUME NEW d \in Live', pc'[d] = "marked", Owns(key[d], token[d])'
          PROVE  reservation'[key'[d]].stage = "post_link"
      BY <1>0, <2>1, <2>2, <2>3, <3>1 DEF MarkedPostLink, Owns, Live, Reserved
    <3>2. QED BY <3>1 DEF MarkedPostLink
  <2>11. PostLinkFile' /\ NeverCorrupt'
    BY <1>0, <2>1, <2>2 DEF PostLinkFile, NeverCorrupt, Reserved
  <2>12. RowBacked'
    <3>1. pc[c] = "marked" => file[k] \in ValidFile
      BY <1>0, <1>2 DEF MarkedPostLink, PostLinkFile, Owns
    <3>2. QED BY <1>0, <2>2, <3>1 DEF RowBacked
  <2>13. QED BY <2>6, <2>7, <2>8, <2>9, <2>10, <2>11, <2>12
<1>3. QED BY <1>1, <1>2

--------------------------------------------------------------------------------
(***************************************************************************)
(* Steps of the server.                                                    *)
(***************************************************************************)
LEMMA CleanUpSafe ==
  ASSUME SafeInv, NEW S \in SUBSET Reserved, \A k \in S : ~IsLive(k),
         CleanUp(S), UNCHANGED clientVars
  PROVE  (Authority /\ FileInv)'
<1> USE DEF SafeInv, Authority, FileInv
<1>1. PostLink(S) = Adopted(S)
  BY DEF PostLink, Adopted, PostLinkFile
<1>2. /\ UNCHANGED <<dead, pc, key, token>>
      /\ \A k \in Keys : file'[k] = file[k]
      /\ \A k \in Keys : reservation'[k] = IF k \in S THEN NoReservation ELSE reservation[k]
      /\ \A k \in Keys : row'[k] = IF k \in Adopted(S) THEN Installed(k)
                                   ELSE IF k \in S THEN Absent ELSE row[k]
  BY <1>1 DEF CleanUp, CleanFile, CleanRow, clientVars
<1>3. Reserved' = Reserved \ S /\ Available' \subseteq Available \cup Adopted(S) /\ Live' = Live
  BY <1>2, RowFields DEF Reserved, Available, Live
<1>4. InWindow' = InWindow /\ \A d \in InWindow : key[d] \notin S
  BY <1>2, <1>3, WindowKey DEF InWindow
<1>5. TokenUnique' /\ TokenOwner'
  BY <1>2, <1>3 DEF TokenUnique, TokenOwner, Reserved
<1>6. WindowOwned'
  <2>1. ASSUME NEW d \in InWindow
        PROVE  (Owns(key[d], token[d]) /\ ~reservation[key[d]].lapsed)'
    BY <1>2, <1>3, <1>4, <2>1 DEF WindowOwned, Owns, Reserved
  <2>2. QED BY <1>4, <2>1 DEF WindowOwned
<1>7. LinkedFile' /\ NothingUnlinked'
  BY <1>2, <1>3 DEF LinkedFile, NothingUnlinked, Live, ClientInv, KeyHeld
<1>8. MarkedPostLink'
  BY <1>2, <1>3 DEF MarkedPostLink, Owns, Reserved
<1>9. PostLinkFile' /\ NeverCorrupt'
  BY <1>2, <1>3 DEF PostLinkFile, NeverCorrupt, Reserved
<1>10. RowBacked'
  BY <1>2, <1>3 DEF RowBacked, Adopted, PostLink, Available
<1>11. QED BY <1>5, <1>6, <1>7, <1>8, <1>9, <1>10

LEMMA EvictSafe ==
  ASSUME SafeInv, NEW S \in SUBSET Evictable, Evict(S), UNCHANGED clientVars
  PROVE  (Authority /\ FileInv)'
<1> USE DEF SafeInv, Authority, FileInv
<1>1. /\ UNCHANGED <<reservation, dead, pc, key, token>>
      /\ \A k \in Keys : file'[k] = IF k \in S THEN "none" ELSE file[k]
      /\ \A k \in Keys : row'[k] = IF k \in S THEN Absent ELSE row[k]
  BY DEF Evict, clientVars
<1>2. Reserved' = Reserved /\ Available' = Available \ S /\ Live' = Live /\ InWindow' = InWindow
  BY <1>1, RowFields DEF Reserved, Available, Live, InWindow
<1>3. \A k \in Reserved : k \notin S
  BY DEF IndexInv, WritingReserved, Evictable, Available, Reserved
<1>4. Authority' /\ NothingUnlinked' /\ MarkedPostLink'
  BY <1>1, <1>2 DEF TokenUnique, TokenOwner, WindowOwned, NothingUnlinked, MarkedPostLink, Owns
<1>5. LinkedFile'
  <2>1. ASSUME NEW d \in Live, pc[d] \in {"exists", "linked", "published"}
        PROVE  file'[key[d]] \in ValidFile
    <3>1. d \in InWindow
      BY <2>1 DEF InWindow, LinkWindow
    <3>2. key[d] \in Keys /\ key[d] \notin S
      BY <1>3, <3>1, WindowKey
    <3>3. QED BY <1>1, <2>1, <3>2 DEF LinkedFile
  <2>2. QED BY <1>1, <1>2, <2>1 DEF LinkedFile
<1>6. PostLinkFile' /\ NeverCorrupt' /\ RowBacked'
  BY <1>1, <1>2, <1>3 DEF PostLinkFile, NeverCorrupt, RowBacked, Reserved, Available
<1>7. QED BY <1>4, <1>5, <1>6

LEMMA IdleServerKept ==
  ASSUME SafeInv, UNCHANGED <<reservation, file, dead, pc, key, token>>, Available' = Available
  PROVE  (Authority /\ FileInv)'
<1>1. Reserved' = Reserved /\ Live' = Live /\ InWindow' = InWindow
  BY DEF Reserved, Live, InWindow
<1>2. QED
  BY <1>1 DEF SafeInv, Authority, FileInv, TokenUnique, TokenOwner, WindowOwned, LinkedFile,
              NothingUnlinked, MarkedPostLink, PostLinkFile, NeverCorrupt, RowBacked, Owns

LEMMA LapseKept ==
  ASSUME SafeInv, StaleAuthority = {}, NEW k \in Keys, TimePasses(k)
  PROVE  (Authority /\ FileInv)'
<1> USE DEF SafeInv, Authority, FileInv
<1>1. /\ UNCHANGED <<row, file, dead, pc, key, token>>
      /\ k \in Reserved /\ reservation[k].writer \notin InWindow
      /\ reservation' = [reservation EXCEPT ![k] = [@ EXCEPT !.lapsed = TRUE]]
  BY DEF TimePasses, Lapse, clientVars
<1>2. reservation[k] \in Reservation
  BY <1>1 DEF Reserved, IndexInv, MetaTypeOK
<1>3. /\ \A j \in Keys : j # k => reservation'[j] = reservation[j]
      /\ reservation'[k] \in Reservation
      /\ reservation'[k].token = reservation[k].token
      /\ reservation'[k].writer = reservation[k].writer
      /\ reservation'[k].stage = reservation[k].stage
  BY <1>1, <1>2 DEF IndexInv, MetaTypeOK, Reservation
<1>4. Reserved' = Reserved /\ Available' = Available /\ Live' = Live /\ InWindow' = InWindow
  BY <1>1, <1>2, <1>3, ReservationAssumption DEF Reserved, Available, Live, InWindow
<1>5. TokenUnique' /\ TokenOwner'
  BY <1>1, <1>3, <1>4 DEF TokenUnique, TokenOwner, Reserved
<1>6. WindowOwned'
  <2>1. ASSUME NEW d \in InWindow
        PROVE  (Owns(key[d], token[d]) /\ ~reservation[key[d]].lapsed)'
    <3>1. key[d] # k /\ key[d] \in Keys
      BY <1>1, WindowKey
    <3>2. QED BY <1>1, <1>3, <1>4, <3>1 DEF WindowOwned, Owns
  <2>2. QED BY <1>4, <2>1 DEF WindowOwned
<1>7. LinkedFile' /\ NothingUnlinked' /\ NeverCorrupt' /\ RowBacked'
  BY <1>1, <1>4 DEF LinkedFile, NothingUnlinked, NeverCorrupt, RowBacked
<1>8. MarkedPostLink' /\ PostLinkFile'
  BY <1>1, <1>3, <1>4 DEF MarkedPostLink, PostLinkFile, Owns, Reserved
<1>9. QED BY <1>5, <1>6, <1>7, <1>8

LEMMA RestartKept ==
  ASSUME SafeInv, StaleAuthority = {}, Restart
  PROVE  (Authority /\ FileInv)'
<1> USE DEF SafeInv, Authority, FileInv
<1>1. /\ InWindow = {} /\ UNCHANGED <<file, token>>
      /\ row' = [k \in Keys |-> Absent]
      /\ reservation' = [k \in Keys |-> NoReservation]
      /\ dead' = dead \cup {c \in Live : pc[c] = "waiting"}
      /\ pc' = [c \in Clients |-> IF pc[c] = "waiting" THEN "idle" ELSE pc[c]]
  BY DEF Restart, MetaRestart
<1>2. Reserved' = {} /\ Available' = {}
  BY <1>1, RowFields DEF Reserved, Available
<1>3. \A c \in Live' : c \in Live /\ pc'[c] = pc[c] /\ pc[c] \notin LinkWindow
  BY <1>1 DEF Live, InWindow
<1>4. TokenUnique' /\ TokenOwner'
  BY <1>1, <1>2 DEF TokenUnique, TokenOwner
<1>5. WindowOwned' /\ LinkedFile' /\ NothingUnlinked'
  BY <1>3 DEF WindowOwned, InWindow, LinkedFile, NothingUnlinked, LinkWindow
<1>6. MarkedPostLink' /\ PostLinkFile' /\ RowBacked'
  BY <1>2 DEF MarkedPostLink, PostLinkFile, RowBacked, Owns
<1>7. NeverCorrupt'
  BY <1>1 DEF NeverCorrupt
<1>8. QED BY <1>4, <1>5, <1>6, <1>7

LEMMA SpawnKept ==
  ASSUME SafeInv, NEW c \in Clients, Spawn(c)
  PROVE  (Authority /\ FileInv)'
<1> USE DEF SafeInv, Authority, FileInv
<1>1. UNCHANGED <<row, reservation, file, pc, key, token>>
  BY DEF Spawn, clientVars
<1>2. /\ Reserved' = Reserved /\ Available' = Available
      /\ \A d \in Live' : d = c \/ d \in Live
      /\ pc[c] = "idle"
  BY <1>1 DEF Spawn, Reserved, Available, Live, ClientInv, DeadIdle
<1>3. InWindow' = InWindow
  BY <1>1, <1>2 DEF InWindow, LinkWindow, Spawn, Live
<1>4. Authority'
  BY <1>1, <1>2, <1>3 DEF TokenUnique, TokenOwner, WindowOwned, Owns
<1>5. LinkedFile' /\ NothingUnlinked' /\ MarkedPostLink'
  BY <1>1, <1>2 DEF LinkedFile, NothingUnlinked, MarkedPostLink, Owns
<1>6. PostLinkFile' /\ NeverCorrupt' /\ RowBacked'
  BY <1>1, <1>2 DEF PostLinkFile, NeverCorrupt, RowBacked
<1>7. QED BY <1>4, <1>5, <1>6

LEMMA MetaStepKept ==
  ASSUME SafeInv, MetaStep
  PROVE  (Authority /\ FileInv)'
<1>1. UNCHANGED clientVars
  BY DEF MetaStep
<1>2. CASE Gc \/ \E target \in Targets : EvictBytes(target)
  <2>1. \E S \in SUBSET Evictable : Evict(S)
    BY <1>2 DEF Gc, EvictBytes
  <2>2. QED BY <1>1, <2>1, EvictSafe
<1>3. CASE \E k \in Keys : WriterDown(k)
  <2>1. PICK k \in Keys : WriterDown(k)
    BY <1>3
  <2>2. {k} \in SUBSET Reserved /\ ~IsLive(k) /\ CleanUp({k})
    BY <2>1 DEF WriterDown, IsLive
  <2>3. QED BY <1>1, <2>2, CleanUpSafe
<1>4. CASE Sweep
  <2>1. PICK S \in SUBSET Reserved : (\A k \in S : ~IsLive(k)) /\ CleanUp(S)
    BY <1>4 DEF Sweep
  <2>2. QED BY <1>1, <2>1, CleanUpSafe
<1>5. CASE \E c \in Clients : ReaderDown(c)
  <2>1. PICK c \in Clients : ReleaseClaim(c)
    BY <1>5 DEF ReaderDown
  <2>2. \A j \in Keys : row'[j].status = row[j].status
    BY <2>1 DEF ReleaseClaim, Decremented, SafeInv, IndexInv, MetaTypeOK, Row
  <2>3. /\ UNCHANGED <<reservation, file, dead, pc, key, token>>
        /\ Available' = Available
    BY <1>1, <2>1, <2>2 DEF ReleaseClaim, clientVars, Available
  <2>4. QED BY <2>3, IdleServerKept
<1>6. CASE \E c \in Clients, k \in Keys : WaiterExpire(c, k)
  <2>1. /\ UNCHANGED <<reservation, file, dead, pc, key, token>>
        /\ Available' = Available
    BY <1>1, <1>6 DEF WaiterExpire, clientVars, Available
  <2>2. QED BY <2>1, IdleServerKept
<1>7. QED BY <1>2, <1>3, <1>4, <1>5, <1>6 DEF MetaStep

--------------------------------------------------------------------------------
LEMMA SafeStep ==
  ASSUME StaleAuthority = {}, SafeInv, Next
  PROVE  (Authority /\ FileInv)'
<1>1. CASE \E c \in Clients : Begin(c)
  BY <1>1, StartKept, ReadKept DEF Begin
<1>2. ASSUME NEW c \in Clients, SaveStep(c) PROVE (Authority /\ FileInv)'
  <2>1. CASE \/ WriteTmp(c) \/ CheckExpired(c) \/ Exists(c) \/ Expired(c) \/ Finalise(c)
             \/ (Link(c) \/ Relink(c)) /\ ~LinkTmp(c)
    BY <2>1, QuietSaveKept
  <2>2. CASE Link(c) /\ LinkTmp(c)
    <3>1. c \in InWindow /\ pc[c] = "checked"
      BY <2>2 DEF Link, At, InWindow, LinkWindow
    <3>2. QED BY <2>2, <3>1, LinkKept
  <2>3. CASE Check(c) \/ Mark(c)
    BY <2>3, RenewKept
  <2>4. CASE Announce(c) \/ Cancel(c)
    BY <2>4, EndKept
  <2>5. CASE Replace(c) \/ Relink(c) \/ Unlink(c)
    BY <2>5 DEF Replace, Relink, Unlink, At, SafeInv, FileInv, NothingUnlinked
  <2>6. CASE AfterSave(c)
    BY <2>6, ReadKept
  <2>7. QED BY <1>2, <2>1, <2>2, <2>3, <2>4, <2>5, <2>6 DEF SaveStep
<1>3. CASE \E c \in Clients : ReadStep(c)
  BY <1>3, ReadKept
<1>4. CASE \E c \in Clients : Crash(c) \/ Spawn(c)
  BY <1>4, QuietSaveKept, SpawnKept
<1>5. CASE MetaStep
  BY <1>5, MetaStepKept
<1>6. CASE Restart
  BY <1>6, RestartKept
<1>7. CASE \E k \in Keys : TimePasses(k)
  BY <1>7, LapseKept
<1>8. QED BY <1>1, <1>2, <1>3, <1>4, <1>5, <1>6, <1>7 DEF Next

LEMMA SafeStutter == SafeInv /\ UNCHANGED vars => (Authority /\ FileInv)'
<1> SUFFICES ASSUME SafeInv, UNCHANGED vars PROVE (Authority /\ FileInv)'
  OBVIOUS
<1>1. /\ UNCHANGED <<reservation, file, dead, pc, key, token>>
      /\ Available' = Available
  BY DEF vars, Available
<1>2. QED BY <1>1, IdleServerKept

LEMMA SafeInit == Init => Authority /\ FileInv
<1> SUFFICES ASSUME Init PROVE Authority /\ FileInv
  OBVIOUS
<1>1. Reserved = {} /\ Available = {} /\ InWindow = {}
  BY RowFields DEF Init, MetaInit, Reserved, Available, InWindow, Live, LinkWindow
<1>2. QED
  BY <1>1 DEF Init, MetaInit, Authority, FileInv, TokenUnique, TokenOwner, WindowOwned,
              LinkedFile, NothingUnlinked, MarkedPostLink, PostLinkFile, NeverCorrupt,
              RowBacked, Live

THEOREM SafeInvariant ==
  ASSUME StaleAuthority = {}
  PROVE  Spec => []SafeInv
<1>1. Init => SafeInv
  BY ClientsInit, IndexInit, SafeInit DEF SafeInv
<1>2. SafeInv /\ [Next]_vars => SafeInv'
  <2> SUFFICES ASSUME SafeInv, [Next]_vars PROVE SafeInv'
    OBVIOUS
  <2>1. ClientInv' /\ IndexInv'
    BY ClientsKept, MetaMoves, IndexKept DEF SafeInv
  <2>2. (Authority /\ FileInv)'
    BY SafeStep, SafeStutter
  <2>3. QED BY <2>1, <2>2 DEF SafeInv
<1>3. QED BY <1>1, <1>2, PTL DEF Spec

(***************************************************************************)
(* The index never offers a key whose file is missing or does not parse.   *)
(***************************************************************************)
THEOREM RowsBacked ==
  ASSUME StaleAuthority = {}
  PROVE  Spec => []RowBacked
<1>1. SafeInv => RowBacked
  BY DEF SafeInv, FileInv
<1>2. QED BY <1>1, SafeInvariant, PTL

(***************************************************************************)
(* A reader that holds a claim finds its key published and the file whole. *)
(***************************************************************************)
ClaimedReadable ==
    \A c \in Clients : claim[c] # NoKey =>
        claim[c] \in Available /\ file[claim[c]] \in ValidFile

\* It holds as long as no reservation ends inside the link window.
THEOREM ClaimsReadable ==
  ASSUME StaleAuthority = {}
  PROVE  Spec => []ClaimedReadable
<1>1. SafeInv => ClaimedReadable
  BY DEF SafeInv, IndexInv, ClaimPublished, FileInv, RowBacked, ClaimedReadable
<1>2. QED BY <1>1, SafeInvariant, PTL
================================================================================
