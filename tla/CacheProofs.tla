------------------------------ MODULE CacheProofs ------------------------------
(***************************************************************************)
(* Theorems about CachePublish, for every set of clients, keys, tokens and *)
(* namespaces.                                                             *)
(***************************************************************************)
EXTENDS CachePublish, TLAPS, FiniteSetTheorems

(***************************************************************************)
(* The client side of the inductive invariant: a client that is inside an  *)
(* operation has a key, a dead one is inside none, only a dead client or   *)
(* one inside a read holds a claim, and a temporary file exists only       *)
(* between the write and the answer of publish/1.                          *)
(***************************************************************************)
KeyHeld    == \A c \in Clients : pc[c] # "idle" => key[c] \in Keys
DeadIdle   == \A c \in dead : pc[c] = "idle"
TmpPlace   == \A c \in Clients : tmp[c] =>
                 pc[c] \in {"written", "checked", "exists", "replace", "relink"}

ClientInv == PublishTypeOK /\ KeyHeld /\ DeadIdle /\ ReaderTied /\ TmpPlace

(***************************************************************************)
(* What one step of the composed system does to the state of the server.   *)
(***************************************************************************)
MetaMove ==
    \/ \E c \in Clients, k \in Keys, t \in Tokens : ReserveSave(c, k, t)
    \/ \E k \in Keys, t \in Tokens \cup {NoToken} :
          \/ CheckReservation(k, t)
          \/ MarkPublished(k, t)
          \/ AnnounceSaved(k, t)
          \/ CancelReservation(k, t)
    \/ \E c \in Clients, k \in Keys : claim[c] = NoKey /\ Checkout(c, k)
    \/ \E c \in Clients : ReleaseClaim(c)
    \/ \E c \in Clients, k \in Keys : Park(c, k) \/ WaiterExpire(c, k)
    \/ \E k \in Keys : PinRow(k) \/ SetLiveKey(k)
    \/ \E S \in SUBSET Evictable : Evict(S)
    \/ \E S \in SUBSET Reserved : CleanUp(S)
    \/ \E k \in Keys : Lapse(k)
    \/ \E k \in Keys, x \in {"plain", "prefix", "none"} : WriteFile(k, x)
    \/ MetaRestart /\ dead' \subseteq Clients
    \/ /\ UNCHANGED <<row, reservation, claim, waiters, pinned, liveKey, file>>
       /\ dead' \subseteq Clients

LEMMA MetaMoves == ClientInv /\ [Next]_vars => MetaMove
<1> SUFFICES ASSUME ClientInv, [Next]_vars PROVE MetaMove
  OBVIOUS
<1> USE DEF ClientInv, PublishTypeOK
<1>1. CASE UNCHANGED vars
  BY <1>1 DEF MetaMove, vars, MetaTypeOK
<1>2. ASSUME NEW c \in Clients, Begin(c) PROVE MetaMove
  <2>1. PICK k \in Keys :
           \/ \E r \in Reason, t \in Tokens : StartSave(c, k, r, t)
           \/ \E r \in Reason : SaveAlreadyPresent(c, k, r)
           \/ StartRead(c, k)
           \/ StartWait(c, k)
    BY <1>2 DEF Begin
  <2>2. CASE \E r \in Reason, t \in Tokens : StartSave(c, k, r, t)
    BY <2>2 DEF MetaMove, StartSave
  <2>3. CASE \E r \in Reason : SaveAlreadyPresent(c, k, r)
    BY <2>3 DEF MetaMove, SaveAlreadyPresent, metaVars, MetaTypeOK
  <2>4. CASE StartRead(c, k)
    <3>1. claim[c] = NoKey
      BY <2>4 DEF StartRead, At, Live, ReaderTied
    <3>2. QED BY <2>4, <3>1 DEF MetaMove, StartRead
  <2>5. CASE StartWait(c, k)
    BY <2>5 DEF MetaMove, StartWait
  <2>6. QED BY <2>1, <2>2, <2>3, <2>4, <2>5
<1>3. ASSUME NEW c \in Clients, SaveStep(c) PROVE MetaMove
  <2> DEFINE Quiet == UNCHANGED <<row, reservation, claim, waiters, pinned, liveKey, file, dead>>
  <2>0. /\ Quiet => MetaMove
        /\ token[c] \in Tokens \cup {NoToken}
        /\ pc[c] # "idle" => key[c] \in Keys
    BY DEF MetaMove, MetaTypeOK, KeyHeld
  <2>1. CASE WriteTmp(c) \/ CheckExpired(c) \/ Exists(c) \/ Expired(c)
    BY <2>0, <2>1 DEF WriteTmp, CheckExpired, Exists, Expired, metaVars
  <2>2. CASE Check(c) \/ Mark(c) \/ Announce(c) \/ Cancel(c)
    BY <2>0, <2>2 DEF Check, Mark, Announce, Cancel, At, MetaMove
  <2>3. CASE Link(c) \/ Relink(c)
    BY <2>0, <2>3 DEF Link, Relink, At, LinkTmp, PublishFails, Content, metaVars, MetaMove
  <2>4. CASE Replace(c) \/ Unlink(c) \/ Finalise(c)
    BY <2>0, <2>4 DEF Replace, Unlink, Finalise, PublishFails, At, metaVars, MetaMove
  <2>5. CASE AfterSave(c)
    BY <2>0, <2>5 DEF AfterSave, At, metaVars, MetaMove
  <2>6. QED BY <1>3, <2>1, <2>2, <2>3, <2>4, <2>5 DEF SaveStep
<1>4. ASSUME NEW c \in Clients, ReadStep(c) PROVE MetaMove
  <2>1. pc[c] # "idle" => key[c] \in Keys
    BY DEF KeyHeld
  <2>2. QED
    BY <1>4, <2>1 DEF ReadStep, Load, Checkin, AfterHit, Answered, At, metaVars,
                      MetaMove, MetaTypeOK
<1>5. ASSUME NEW c \in Clients, Crash(c) \/ Spawn(c) PROVE MetaMove
  BY <1>5 DEF Crash, Spawn, MetaMove, MetaTypeOK, Live
<1>6. CASE MetaStep
  <2>1. CASE Gc
    BY <2>1 DEF Gc, MetaMove
  <2>2. CASE \E target \in Targets : EvictBytes(target)
    BY <2>2 DEF EvictBytes, MetaMove
  <2>3. CASE \E c \in Clients : ReaderDown(c)
    BY <2>3 DEF ReaderDown, MetaMove
  <2>4. CASE \E k \in Keys : WriterDown(k)
    BY <2>4 DEF WriterDown, MetaMove
  <2>5. CASE Sweep
    BY <2>5 DEF Sweep, MetaMove
  <2>6. CASE \E c \in Clients, k \in Keys : WaiterExpire(c, k)
    BY <2>6 DEF MetaMove
  <2>7. QED BY <1>6, <2>1, <2>2, <2>3, <2>4, <2>5, <2>6 DEF MetaStep
<1>7. CASE Restart
  BY <1>7 DEF Restart, MetaMove, MetaTypeOK, Live
<1>8. CASE \E k \in Keys : TimePasses(k)
  BY <1>8 DEF TimePasses, MetaMove
<1>9. QED
  BY <1>1, <1>2, <1>3, <1>4, <1>5, <1>6, <1>7, <1>8 DEF Next

--------------------------------------------------------------------------------
(***************************************************************************)
(* Type correctness, and what holds of the clients.                        *)
(***************************************************************************)
LEMMA MetaTypes == MetaTypeOK /\ MetaMove => MetaTypeOK'
<1> SUFFICES ASSUME MetaTypeOK, MetaMove PROVE MetaTypeOK'
  OBVIOUS
<1> USE DEF MetaTypeOK
<1>0. /\ Absent \in Row /\ Placeholder \in Row
      /\ \A k : Installed(k) \in Row
      /\ "none" \in FileState
      /\ \A S : CleanRow(S) \in [Keys -> Row]
      /\ \A S : CleanFile(S) \in [Keys -> FileState]
      /\ \A S : CleanWaiters(S) \in [Keys -> SUBSET Clients]
  BY DEF Absent, Placeholder, Installed, IsPinnedKey, Row, FileState,
         CleanRow, CleanFile, CleanWaiters
<1>1. ASSUME NEW c \in Clients, NEW k \in Keys, NEW t \in Tokens, ReserveSave(c, k, t)
      PROVE MetaTypeOK'
  <2>1. row' \in [Keys -> Row]
    BY <1>0, <1>1 DEF ReserveSave
  <2>2. reservation' \in [Keys -> Reservation \cup {NoReservation}]
    BY <1>1 DEF ReserveSave, Reservation
  <2>3. QED BY <1>0, <1>1, <2>1, <2>2 DEF ReserveSave
<1>2. ASSUME NEW k \in Keys, NEW t \in Tokens \cup {NoToken},
             \/ CheckReservation(k, t)
             \/ MarkPublished(k, t)
             \/ AnnounceSaved(k, t)
             \/ CancelReservation(k, t)
      PROVE MetaTypeOK'
  <2>1. CASE CheckReservation(k, t) \/ MarkPublished(k, t)
    <3>1. reservation[k] \in Reservation
      BY <2>1 DEF CheckReservation, MarkPublished, Owns, Reserved
    <3>2. /\ [reservation[k] EXCEPT !.lapsed = FALSE] \in Reservation
          /\ [reservation[k] EXCEPT !.stage = "post_link", !.lapsed = FALSE] \in Reservation
      BY <3>1 DEF Reservation
    <3>3. QED BY <2>1, <3>2 DEF CheckReservation, MarkPublished
  <2>2. CASE AnnounceSaved(k, t) \/ CancelReservation(k, t)
    BY <1>0, <2>2 DEF AnnounceSaved, CancelReservation
  <2>3. QED BY <1>2, <2>1, <2>2
<1>3. ASSUME NEW c \in Clients, NEW k \in Keys, Checkout(c, k) PROVE MetaTypeOK'
  BY <1>3 DEF Checkout, Row
<1>4. ASSUME NEW c \in Clients, ReleaseClaim(c) PROVE MetaTypeOK'
  <2>1. ASSUME NEW k \in Keys PROVE Decremented(k) \in [Keys -> Row]
    BY SMTT(20) DEF Decremented, Row
  <2>2. QED BY <1>4, <2>1 DEF ReleaseClaim
<1>5. ASSUME NEW c \in Clients, NEW k \in Keys, Park(c, k) \/ WaiterExpire(c, k)
      PROVE MetaTypeOK'
  <2>1. waiters' \in [Keys -> SUBSET Clients]
    <3>1. waiters[k] \cup {c} \in SUBSET Clients /\ waiters[k] \ {c} \in SUBSET Clients
      OBVIOUS
    <3>2. QED BY <1>5, <3>1 DEF Park, WaiterExpire
  <2>2. QED BY <1>5, <2>1 DEF Park, WaiterExpire
<1>6. ASSUME NEW k \in Keys, PinRow(k) \/ SetLiveKey(k) PROVE MetaTypeOK'
  <2>1. ASSUME NEW r \in Row, NEW b \in BOOLEAN PROVE [r EXCEPT !.pinned = b] \in Row
    BY DEF Row
  <2>2. CASE PinRow(k)
    <3>1. row' \in [Keys -> Row]
      BY <2>1, <2>2 DEF PinRow
    <3>2. QED BY <2>2, <3>1 DEF PinRow
  <2>3. CASE SetLiveKey(k)
    BY <2>3 DEF SetLiveKey
  <2>4. QED BY <1>6, <2>2, <2>3
<1>7. ASSUME NEW S \in SUBSET Evictable, Evict(S) PROVE MetaTypeOK'
  BY <1>0, <1>7 DEF Evict
<1>8. ASSUME NEW S \in SUBSET Reserved, CleanUp(S) PROVE MetaTypeOK'
  BY <1>0, <1>8 DEF CleanUp
<1>9. ASSUME NEW k \in Keys, Lapse(k) PROVE MetaTypeOK'
  BY <1>9 DEF Lapse, Reserved, Reservation
<1>10. ASSUME NEW k \in Keys, NEW x \in {"plain", "prefix", "none"}, WriteFile(k, x)
       PROVE MetaTypeOK'
  BY <1>10 DEF WriteFile, FileState, ValidFile
<1>11. CASE MetaRestart /\ dead' \subseteq Clients
  BY <1>0, <1>11 DEF MetaRestart
<1>12. CASE /\ UNCHANGED <<row, reservation, claim, waiters, pinned, liveKey, file>>
            /\ dead' \subseteq Clients
  BY <1>12
<1>13. QED
  BY <1>1, <1>2, <1>3, <1>4, <1>5, <1>6, <1>7, <1>8, <1>9, <1>10, <1>11, <1>12 DEF MetaMove

LEMMA ClientsKept == ClientInv /\ [Next]_vars => ClientInv'
<1> SUFFICES ASSUME ClientInv, [Next]_vars PROVE ClientInv'
  OBVIOUS
<1> USE DEF ClientInv
<1> DEFINE ClientTypes ==
        /\ pc     \in [Clients -> PcState]
        /\ key    \in [Clients -> Keys \cup {NoKey}]
        /\ token  \in [Clients -> Tokens \cup {NoToken}]
        /\ reason \in [Clients -> Reason]
        /\ tmp    \in [Clients -> BOOLEAN]
        ClientPart == ClientTypes /\ KeyHeld /\ DeadIdle /\ ReaderTied /\ TmpPlace
<1>0. MetaTypeOK' /\ MetaTypeOK /\ ClientPart
  BY MetaMoves, MetaTypes DEF PublishTypeOK
<1> SUFFICES ClientPart'
  BY <1>0 DEF PublishTypeOK
<1>a. claim \in [Clients -> Keys \cup {NoKey}] /\ dead \subseteq Clients /\ ClientPart
  BY <1>0 DEF MetaTypeOK
<1> HIDE DEF ClientInv
<1> USE <1>a
<1> USE DEF KeyHeld, DeadIdle, ReaderTied, TmpPlace
<1>1. CASE UNCHANGED vars
  BY <1>1 DEF vars
<1>2. ASSUME NEW c \in Clients, Begin(c) PROVE ClientPart'
  <2>1. ASSUME NEW k \in Keys, NEW r \in Reason, NEW t \in Tokens, StartSave(c, k, r, t)
        PROVE ClientPart'
    BY <2>1 DEF StartSave, ReserveSave, At, Live, KeepTmp, PcState, SavePc
  <2>2. ASSUME NEW k \in Keys, NEW r \in Reason, SaveAlreadyPresent(c, k, r)
        PROVE ClientPart'
    BY <2>2 DEF SaveAlreadyPresent, At, Live, KeepTmp, PcState, metaVars
  <2>3. ASSUME NEW k \in Keys, StartRead(c, k) PROVE ClientPart'
    BY <2>3 DEF StartRead, Checkout, At, Live, PcState, ReadPc
  <2>4. ASSUME NEW k \in Keys, StartWait(c, k) PROVE ClientPart'
    BY <2>4 DEF StartWait, Park, At, Live, PcState
  <2>5. QED BY <1>2, <2>1, <2>2, <2>3, <2>4 DEF Begin
<1>3. ASSUME NEW c \in Clients, SaveStep(c) PROVE ClientPart'
  <2> USE DEF At, Live, Goto, Return, KeepTmp, DropTmp, PcState, SavePc, LinkWindow, Reason
  <2>1. CASE WriteTmp(c)
    BY <2>1 DEF WriteTmp, metaVars
  <2>2. CASE CheckExpired(c)
    BY <2>2 DEF CheckExpired, metaVars
  <2>3. CASE Exists(c)
    BY ZenonT(40), <2>3 DEF Exists, metaVars
  <2>4. CASE Expired(c)
    BY <2>4 DEF Expired, metaVars
  <2>5. CASE Check(c)
    BY <2>5 DEF Check, CheckReservation
  <2>6. CASE Mark(c)
    BY <2>6 DEF Mark, MarkPublished
  <2>7. CASE Announce(c)
    BY <2>7 DEF Announce, AnnounceSaved
  <2>8. CASE Cancel(c)
    BY <2>8 DEF Cancel, CancelReservation
  <2>9. CASE Link(c)
    BY ZenonT(40), <2>9 DEF Link, LinkTmp, PublishFails, WriteFile, metaVars
  <2>10. CASE Relink(c)
    BY ZenonT(40), <2>10 DEF Relink, LinkTmp, PublishFails, WriteFile, metaVars
  <2>11. CASE Replace(c)
    BY <2>11 DEF Replace, WriteFile
  <2>12. CASE Unlink(c)
    BY <2>12 DEF Unlink, WriteFile
  <2>13. CASE Finalise(c)
    BY <2>13 DEF Finalise, PublishFails, metaVars
  <2>14. CASE AfterSave(c)
    BY <2>14 DEF AfterSave, PinRow, SetLiveKey, metaVars
  <2>15. QED
    BY <1>3, <2>1, <2>2, <2>3, <2>4, <2>5, <2>6, <2>7, <2>8, <2>9, <2>10, <2>11, <2>12, <2>13, <2>14 DEF SaveStep
<1>4. ASSUME NEW c \in Clients, ReadStep(c) PROVE ClientPart'
  <2> USE DEF At, Live, Goto, Return, KeepTmp, PcState, ReadPc, Reason
  <2>1. CASE Load(c)
    BY <2>1 DEF Load, WriteFile, metaVars
  <2>2. CASE Checkin(c)
    BY <2>2 DEF Checkin, ReleaseClaim
  <2>3. CASE AfterHit(c) \/ Answered(c)
    BY <2>3 DEF AfterHit, Answered, PinRow, metaVars
  <2>4. QED BY <1>4, <2>1, <2>2, <2>3 DEF ReadStep
<1>5. ASSUME NEW c \in Clients, Crash(c) \/ Spawn(c) PROVE ClientPart'
  <2>1. CASE Crash(c)
    BY <2>1 DEF Crash, Return, DropTmp, Live, PcState, Reason
  <2>2. CASE Spawn(c)
    BY <2>2 DEF Spawn, Forgotten, clientVars
  <2>3. QED BY <1>5, <2>1, <2>2
<1>6. CASE MetaStep
  <2>1. UNCHANGED clientVars /\ UNCHANGED dead
    BY <1>6 DEF MetaStep, Gc, EvictBytes, Evict, ReaderDown, ReleaseClaim, WriterDown,
                Sweep, CleanUp, WaiterExpire
  <2>2. \A c \in Clients : claim'[c] = claim[c] \/ claim'[c] = NoKey
    BY <1>6 DEF MetaStep, Gc, EvictBytes, Evict, ReaderDown, ReleaseClaim, WriterDown,
                Sweep, CleanUp, WaiterExpire
  <2>3. QED BY <2>1, <2>2 DEF clientVars
<1>7. CASE Restart
  <2>1. /\ claim' = [c \in Clients |-> NoKey]
        /\ UNCHANGED <<token, reason, tmp>>
        /\ dead' = dead \cup {c \in Live : pc[c] = "waiting"}
        /\ pc'  = [c \in Clients |-> IF pc[c] = "waiting" THEN "idle" ELSE pc[c]]
        /\ key' = [c \in Clients |-> IF pc[c] = "waiting" THEN NoKey ELSE key[c]]
    BY <1>7 DEF Restart, MetaRestart
  <2>2. ClientTypes'
    BY <2>1 DEF PcState
  <2>3. QED BY <2>1, <2>2 DEF Live
<1>8. CASE \E k \in Keys : TimePasses(k)
  BY <1>8 DEF TimePasses, Lapse, clientVars
<1>9. QED
  BY <1>1, <1>2, <1>3, <1>4, <1>5, <1>6, <1>7, <1>8 DEF Next

LEMMA ClientsInit == Init => ClientInv
BY DEF Init, MetaInit, ClientInv, PublishTypeOK, MetaTypeOK, KeyHeld, DeadIdle,
       ReaderTied, TmpPlace, Row, Absent, FileState, PcState, Reason

THEOREM ClientInvariant == Spec => []ClientInv
BY ClientsInit, ClientsKept, PTL DEF Spec

(***************************************************************************)
(* Every variable of the meta server and of its clients keeps its type.    *)
(***************************************************************************)
THEOREM TypeCorrect == Spec => []TypeOK
<1>1. ClientInv => TypeOK
  BY DEF ClientInv, TypeOK
<1>2. QED BY <1>1, ClientInvariant, PTL

(***************************************************************************)
(* A save that is over left no temporary file, whichever of its error      *)
(* paths it took.                                                          *)
(***************************************************************************)
THEOREM NoTmpIsLeft == Spec => []NoTmpLeft
<1>1. ClientInv => NoTmpLeft
  BY DEF ClientInv, TmpPlace, NoTmpLeft, Live, SavePc, LinkWindow, PublishTypeOK, MetaTypeOK
<1>2. QED BY <1>1, ClientInvariant, PTL

--------------------------------------------------------------------------------
(***************************************************************************)
(* Who moves a client, and what the server forgets in a step that begins   *)
(* neither a save nor a wait.                                              *)
(***************************************************************************)
LEMMA ClientMoves ==
  ASSUME ClientInv, [Next]_vars, NEW d \in Clients
  PROVE  /\ \/ UNCHANGED <<pc[d], key[d], token[d]>>
            \/ Begin(d) \/ SaveStep(d) \/ ReadStep(d)
            \/ d \in dead' /\ pc'[d] = "idle"
         /\ d \in dead /\ d \notin dead' => Forgotten(d)
<1> USE DEF ClientInv, PublishTypeOK
<1>1. CASE UNCHANGED vars
  BY <1>1 DEF vars
<1>2. ASSUME NEW c \in Clients, Begin(c) \/ SaveStep(c) \/ ReadStep(c), c # d
      PROVE  UNCHANGED <<pc[d], key[d], token[d], dead>>
  <2> USE DEF Goto, Return, metaVars
  <2>1. CASE Begin(c)
    BY <1>2, <2>1 DEF Begin, StartSave, SaveAlreadyPresent, StartRead, StartWait,
                      ReserveSave, Checkout, Park
  <2>2. CASE SaveStep(c)
    <3>1. CASE WriteTmp(c) \/ Check(c) \/ CheckExpired(c) \/ Link(c) \/ Exists(c) \/ Relink(c)
      BY <1>2, <3>1 DEF WriteTmp, Check, CheckReservation, CheckExpired, Link, LinkTmp,
                        PublishFails, WriteFile, Exists, Relink
    <3>2. CASE Replace(c) \/ Unlink(c) \/ Finalise(c) \/ Cancel(c) \/ Mark(c) \/ Announce(c)
               \/ Expired(c) \/ AfterSave(c)
      BY <1>2, <3>2 DEF Replace, Unlink, Finalise, PublishFails, WriteFile, Cancel,
                        CancelReservation, Mark, MarkPublished, Announce, AnnounceSaved,
                        Expired, AfterSave, PinRow, SetLiveKey
    <3>3. QED BY <2>2, <3>1, <3>2 DEF SaveStep
  <2>3. CASE ReadStep(c)
    BY <1>2, <2>3 DEF ReadStep, Load, WriteFile, Checkin, ReleaseClaim, AfterHit, PinRow, Answered
  <2>4. QED BY <1>2, <2>1, <2>2, <2>3
<1>3. ASSUME NEW c \in Clients, Begin(c) \/ SaveStep(c) \/ ReadStep(c)
      PROVE  UNCHANGED dead
  <2> USE DEF metaVars
  <2>1. CASE Begin(c)
    BY <1>3, <2>1 DEF Begin, StartSave, SaveAlreadyPresent, StartRead, StartWait,
                      ReserveSave, Checkout, Park
  <2>2. CASE SaveStep(c)
    BY <1>3, <2>2 DEF SaveStep, WriteTmp, Check, CheckReservation, CheckExpired, Link, LinkTmp,
                      PublishFails, WriteFile, Exists, Relink, Replace, Unlink, Finalise,
                      Cancel, CancelReservation, Mark, MarkPublished, Announce, AnnounceSaved,
                      Expired, AfterSave, PinRow, SetLiveKey
  <2>3. CASE ReadStep(c)
    BY <1>3, <2>3 DEF ReadStep, Load, WriteFile, Checkin, ReleaseClaim, AfterHit, PinRow, Answered
  <2>4. QED BY <1>3, <2>1, <2>2, <2>3
<1>4. CASE \E c \in Clients : Begin(c) \/ SaveStep(c) \/ ReadStep(c)
  BY <1>2, <1>3, <1>4
<1>5. CASE \E c \in Clients : Crash(c) \/ Spawn(c)
  BY <1>5 DEF Crash, Spawn, Return, clientVars
<1>6. CASE MetaStep
  BY <1>6 DEF MetaStep, Gc, EvictBytes, Evict, ReaderDown, ReleaseClaim, WriterDown,
              Sweep, CleanUp, WaiterExpire, clientVars
<1>7. CASE Restart
  BY <1>7 DEF Restart, Live
<1>8. CASE \E k \in Keys : TimePasses(k)
  BY <1>8 DEF TimePasses, Lapse, clientVars
<1>9. QED BY <1>1, <1>4, <1>5, <1>6, <1>7, <1>8 DEF Next

Shrunk ==
    /\ \A k \in Keys : waiters'[k] \subseteq waiters[k]
    /\ \A k \in Reserved' : /\ k \in Reserved
                            /\ reservation'[k].writer = reservation[k].writer
                            /\ reservation'[k].token = reservation[k].token

LEMMA ServerShrinks ==
  ASSUME ClientInv, [Next]_vars,
         \A c \in Clients, k \in Keys :
            ~StartWait(c, k) /\ \A r \in Reason, t \in Tokens : ~StartSave(c, k, r, t)
  PROVE  Shrunk
<1> USE DEF ClientInv, PublishTypeOK
<1>0. /\ UNCHANGED <<waiters, reservation>> => Shrunk
      /\ \A S \in SUBSET Reserved : CleanUp(S) => Shrunk
      /\ MetaRestart => Shrunk
  BY DEF Shrunk, Reserved, CleanUp, CleanWaiters, MetaRestart, MetaTypeOK
<1>1. CASE UNCHANGED vars
  BY <1>0, <1>1 DEF vars
<1>2. ASSUME NEW c \in Clients, Begin(c) PROVE Shrunk
  BY <1>0, <1>2 DEF Begin, SaveAlreadyPresent, StartRead, Checkout, metaVars
<1>3. ASSUME NEW c \in Clients, SaveStep(c) PROVE Shrunk
  <2>1. ASSUME NEW k \in Keys, NEW t,
               \/ CheckReservation(k, t) \/ MarkPublished(k, t)
               \/ AnnounceSaved(k, t) \/ CancelReservation(k, t)
        PROVE  Shrunk
    <3>1. CASE CheckReservation(k, t) \/ MarkPublished(k, t)
      <4>1. PICK r : /\ reservation' = [reservation EXCEPT ![k] = r]
                     /\ r \in {[reservation[k] EXCEPT !.lapsed = FALSE],
                               [reservation[k] EXCEPT !.stage = "post_link", !.lapsed = FALSE]}
        BY ZenonT(40), <3>1 DEF CheckReservation, MarkPublished
      <4>2. reservation[k] \in Reservation /\ k \in Reserved
        BY <3>1 DEF CheckReservation, MarkPublished, Owns, Reserved, MetaTypeOK
      <4>3. r.writer = reservation[k].writer /\ r.token = reservation[k].token
        BY <4>1, <4>2 DEF Reservation
      <4>4. QED BY <3>1, <4>1, <4>2, <4>3
                DEF Shrunk, Reserved, CheckReservation, MarkPublished, MetaTypeOK
    <3>2. CASE AnnounceSaved(k, t) \/ CancelReservation(k, t)
      BY <3>2 DEF Shrunk, Reserved, AnnounceSaved, CancelReservation, MetaTypeOK
    <3>3. QED BY <2>1, <3>1, <3>2
  <2>2. pc[c] # "idle" => key[c] \in Keys
    BY DEF KeyHeld
  <2>3. CASE Check(c) \/ Mark(c) \/ Announce(c) \/ Cancel(c)
    BY <2>1, <2>2, <2>3 DEF Check, Mark, Announce, Cancel, At
  <2>4. CASE ~(Check(c) \/ Mark(c) \/ Announce(c) \/ Cancel(c))
    BY <1>0, <1>3, <2>4
       DEF SaveStep, WriteTmp, CheckExpired, Link, LinkTmp, PublishFails, WriteFile, Exists,
           Relink, Replace, Unlink, Finalise, Expired, AfterSave, PinRow, SetLiveKey, metaVars
  <2>5. QED BY <2>3, <2>4
<1>4. ASSUME NEW c \in Clients, ReadStep(c) PROVE Shrunk
  BY <1>0, <1>4 DEF ReadStep, Load, WriteFile, Checkin, ReleaseClaim, AfterHit, PinRow,
                    Answered, metaVars
<1>5. ASSUME NEW c \in Clients, Crash(c) \/ Spawn(c) PROVE Shrunk
  BY <1>0, <1>5 DEF Crash, Spawn
<1>6. CASE MetaStep
  <2>1. CASE Gc \/ \E target \in Targets : EvictBytes(target)
    BY <1>0, <2>1 DEF Gc, EvictBytes, Evict
  <2>2. CASE \E c \in Clients : ReaderDown(c)
    BY <1>0, <2>2 DEF ReaderDown, ReleaseClaim
  <2>3. CASE Sweep \/ \E k \in Keys : WriterDown(k)
    BY <1>0, <2>3 DEF Sweep, WriterDown
  <2>4. CASE \E c \in Clients, k \in Keys : WaiterExpire(c, k)
    BY <2>4 DEF Shrunk, Reserved, WaiterExpire, MetaTypeOK
  <2>5. QED BY <1>6, <2>1, <2>2, <2>3, <2>4 DEF MetaStep
<1>7. CASE Restart
  BY <1>0, <1>7 DEF Restart
<1>8. CASE \E k \in Keys : TimePasses(k)
  BY <1>8 DEF TimePasses, Lapse, Shrunk, Reserved, MetaTypeOK, Reservation
<1>9. QED BY <1>1, <1>2, <1>3, <1>4, <1>5, <1>6, <1>7, <1>8 DEF Next

(***************************************************************************)
(* Where a save step leads: to a later stage of the same save, or out of   *)
(* the save with its reservation gone.                                     *)
(***************************************************************************)
NextPc ==
    [s \in SavePc |->
       CASE s = "reserved" -> {"written", "cancel"}
         [] s = "written"  -> {"checked"}
         [] s = "checked"  -> {"linked", "exists", "cancel"}
         [] s = "exists"   -> {"published", "replace"}
         [] s = "replace"  -> {"relink"}
         [] s = "relink"   -> {"linked", "cancel"}
         [] s = "linked"   -> {"cancel", "published", "unlink"}
         [] s = "unlink"   -> {"cancel"}
         [] s = "published" -> {"marked"}
         [] OTHER -> {}]

LEMMA SaveMoves ==
  ASSUME ClientInv, NEW c \in Clients, SaveStep(c)
  PROVE  /\ c \in Live /\ pc[c] \in SavePc \cup {"fired"}
         /\ \/ /\ pc[c] \in SavePc /\ pc'[c] \in NextPc[pc[c]] /\ pc'[c] \in SavePc
               /\ key'[c] = key[c] /\ token'[c] = token[c]
            \/ /\ pc'[c] \notin SavePc
               /\ pc[c] = "fired" \/ \A k \in Reserved' :
                                      k = key[c] => reservation'[k].token # token[c]
<1> USE DEF ClientInv, PublishTypeOK, At, Goto, Return, SavePc, LinkWindow
<1>1. CASE WriteTmp(c) \/ Check(c)
  BY <1>1 DEF WriteTmp, Check, NextPc
<1>2. CASE Link(c) \/ Exists(c) \/ Replace(c) \/ Relink(c)
  BY <1>2 DEF Link, LinkTmp, PublishFails, Exists, Replace, Relink, NextPc
<1>3. CASE Finalise(c) \/ Unlink(c) \/ Mark(c)
  BY <1>3 DEF Finalise, PublishFails, Unlink, Mark, NextPc
<1>4. CASE CheckExpired(c) \/ Expired(c)
  BY <1>4 DEF CheckExpired, Expired, metaVars, Owns, Reserved
<1>5. CASE Cancel(c)
  BY <1>5 DEF Cancel, CancelReservation, Owns, Reserved, MetaTypeOK
<1>6. CASE Announce(c)
  BY <1>6 DEF Announce, AnnounceSaved, Owns, Reserved, MetaTypeOK
<1>7. CASE AfterSave(c)
  BY <1>7 DEF AfterSave
<1>8. QED
  BY <1>1, <1>2, <1>3, <1>4, <1>5, <1>6, <1>7 DEF SaveStep

(***************************************************************************)
(* What ties the server's state to the clients, and that a client is tied  *)
(* to one key only.                                                        *)
(***************************************************************************)
WaiterOnce == \A c \in Clients, j, k \in Keys : c \in waiters[j] /\ c \in waiters[k] => j = k

WriterOnce == \A j, k \in Reserved : reservation[j].writer = reservation[k].writer => j = k

TiedInv == WaiterTied /\ WaiterOnce /\ WriterTied /\ WriterOnce

LEMMA TiedKept == ClientInv /\ TiedInv /\ [Next]_vars => TiedInv'
<1> SUFFICES ASSUME ClientInv, TiedInv, [Next]_vars PROVE TiedInv'
  OBVIOUS
<1> USE DEF ClientInv, PublishTypeOK
<1>0. ClientInv'
  BY ClientsKept
\* a client that was tied stays so, or what tied it is gone
<1>1. ASSUME NEW d \in Clients, NEW k \in Keys, d \in waiters[k]
      PROVE  d \in dead' \/ (pc'[d] = "waiting" /\ key'[d] = k)
  <2>1. CASE d \in dead
    BY <1>1, <2>1, ClientMoves DEF Forgotten
  <2>2. CASE d \notin dead
    <3>1. pc[d] = "waiting" /\ key[d] = k
      BY <1>1, <2>2 DEF TiedInv, WaiterTied
    <3>2. ~Begin(d) /\ ~SaveStep(d) /\ ~ReadStep(d)
      BY <1>1, <3>1, SaveMoves
         DEF Begin, StartSave, SaveAlreadyPresent, StartRead, StartWait, At, SavePc, LinkWindow,
             ReadStep, Load, Checkin, AfterHit, Answered
    <3>3. QED BY <3>1, <3>2, ClientMoves
  <2>3. QED BY <2>1, <2>2
<1>2. ASSUME NEW d \in Clients, NEW k \in Reserved, reservation[k].writer = d,
             k \in Reserved', reservation'[k].token = reservation[k].token
      PROVE  d \in dead' \/ (pc'[d] \in SavePc /\ key'[d] = k
                               /\ token'[d] = reservation[k].token)
  <2>1. CASE d \in dead
    BY <1>2, <2>1, ClientMoves DEF Forgotten, Reserved
  <2>2. CASE d \notin dead
    <3>1. pc[d] \in SavePc /\ key[d] = k /\ token[d] = reservation[k].token
      BY <1>2, <2>2 DEF TiedInv, WriterTied
    <3>2. ~Begin(d) /\ ~ReadStep(d)
      BY <3>1
         DEF Begin, StartSave, SaveAlreadyPresent, StartRead, StartWait, At, SavePc, LinkWindow,
             ReadStep, Load, Checkin, AfterHit, Answered
    <3>3. CASE SaveStep(d)
      BY <1>2, <3>1, <3>3, SaveMoves DEF SavePc, LinkWindow
    <3>4. QED BY <3>1, <3>2, <3>3, ClientMoves
  <2>3. QED BY <2>1, <2>2
<1>3. CASE \A c \in Clients, k \in Keys :
              ~StartWait(c, k) /\ \A r \in Reason, t \in Tokens : ~StartSave(c, k, r, t)
  <2>1. Shrunk
    BY <1>3, ServerShrinks
  <2>2. WaiterTied' /\ WaiterOnce'
    BY <1>1, <2>1 DEF Shrunk, TiedInv, WaiterTied, WaiterOnce
  <2>3. WriterTied' /\ WriterOnce'
    BY <1>2, <2>1 DEF Shrunk, TiedInv, WriterTied, WriterOnce
  <2>4. QED BY <2>2, <2>3 DEF TiedInv
<1>4. ASSUME NEW c \in Clients, NEW k \in Keys, StartWait(c, k)
      PROVE  TiedInv'
  <2>1. \A j \in Keys : c \notin waiters[j]
    BY <1>4 DEF StartWait, At, Live, TiedInv, WaiterTied
  <2>2. /\ waiters' = [waiters EXCEPT ![k] = @ \cup {c}]
        /\ UNCHANGED <<reservation, dead, token>>
        /\ pc' = [pc EXCEPT ![c] = "waiting"]
        /\ key' = [key EXCEPT ![c] = k]
    BY <1>4 DEF StartWait, Park
  <2>3. WaiterTied' /\ WaiterOnce'
    BY <1>1, <2>1, <2>2 DEF TiedInv, WaiterTied, WaiterOnce, MetaTypeOK
  <2>4. WriterTied' /\ WriterOnce'
    BY <1>2, <2>2 DEF TiedInv, WriterTied, WriterOnce, Reserved
  <2>5. QED BY <2>3, <2>4 DEF TiedInv
<1>5. ASSUME NEW c \in Clients, NEW k \in Keys, NEW r \in Reason, NEW t \in Tokens,
             StartSave(c, k, r, t)
      PROVE  TiedInv'
  <2>1. \A j \in Reserved : reservation[j].writer # c
    BY <1>5 DEF StartSave, At, Live, TiedInv, WriterTied, SavePc, LinkWindow
  <2> DEFINE new == [writer |-> c, token |-> t, stage |-> "pre_link", lapsed |-> FALSE]
  <2>2. /\ reservation' = [reservation EXCEPT ![k] = new]
        /\ \A j \in Keys : waiters'[j] \subseteq waiters[j]
        /\ UNCHANGED dead
        /\ pc' = [pc EXCEPT ![c] = "reserved"]
        /\ key' = [key EXCEPT ![c] = k]
        /\ token' = [token EXCEPT ![c] = t]
    BY <1>5 DEF StartSave, ReserveSave, CleanWaiters
  <2>3. WaiterTied' /\ WaiterOnce'
    BY <1>1, <2>2 DEF TiedInv, WaiterTied, WaiterOnce
  <2>4. Reserved' = Reserved \cup {k} /\ new.writer = c /\ new.token = t
    <3>1. new # NoReservation
      <4>1. new \in Reservation
        BY DEF Reservation
      <4>2. QED BY <4>1, ReservationAssumption
    <3>2. QED BY <2>2, <3>1 DEF Reserved, MetaTypeOK
  <2> HIDE DEF new
  <2>5. WriterTied' /\ WriterOnce'
    BY <1>2, <2>1, <2>2, <2>4
       DEF TiedInv, WriterTied, WriterOnce, Reserved, MetaTypeOK, SavePc, LinkWindow
  <2>6. QED BY <2>3, <2>5 DEF TiedInv
<1>6. QED BY <1>3, <1>4, <1>5

LEMMA TiedInit == Init => TiedInv
BY DEF Init, MetaInit, TiedInv, WaiterTied, WaiterOnce, WriterTied, WriterOnce, Reserved

(***************************************************************************)
(* What the server holds for a client is what that client is doing, or     *)
(* what it was doing when it died.                                         *)
(***************************************************************************)
THEOREM ClientsTied == Spec => [](TiedInv /\ ReaderTied)
<1>1. ClientInv => ReaderTied
  BY DEF ClientInv
<1>2. QED BY <1>1, TiedInit, TiedKept, ClientInvariant, PTL DEF Spec

--------------------------------------------------------------------------------
(***************************************************************************)
(* Liveness.  The provers know nothing of ENABLED: that a client, a 'DOWN' *)
(* or a timer can take the step fairness speaks of is a hypothesis of the  *)
(* theorems, the invariant CanGoOn.                                        *)
(***************************************************************************)
In(c, S) == pc[c] \in S
Over(c)  == pc[c] \notin SavePc
LeadsOn(c, S, T) == In(c, S) ~> (In(c, T) \/ Over(c))

SaveCanGoOn(c) == pc[c] \in SavePc => ENABLED <<SaveStep(c)>>_vars

\* Stages S of a save that only lead into S, and T the later ones of them.
Later(S, T) ==
    /\ T \subseteq S /\ S \subseteq SavePc
    /\ \A s \in S : NextPc[s] \subseteq T

LEMMA StageSteps ==
  ASSUME NEW c \in Clients, NEW S, NEW T, Later(S, T)
  PROVE  /\ In(c, S) /\ ClientInv /\ [Next]_vars => (In(c, S) \/ Over(c))'
         /\ In(c, S) /\ ClientInv /\ <<SaveStep(c)>>_vars => (In(c, T) \/ Over(c))'
<1>1. ASSUME In(c, S), ClientInv, SaveStep(c)
      PROVE  pc'[c] \in T \/ pc'[c] \notin SavePc
  BY <1>1, SaveMoves DEF In, Later, SavePc, LinkWindow
<1>2. ASSUME In(c, S), ClientInv, [Next]_vars, ~SaveStep(c)
      PROVE  pc'[c] \in S \/ pc'[c] \notin SavePc
  <2>1. ~Begin(c) /\ ~ReadStep(c)
    BY <1>2
       DEF In, Later, Begin, StartSave, SaveAlreadyPresent, StartRead, StartWait, At, SavePc,
           LinkWindow, ReadStep, Load, Checkin, AfterHit, Answered
  <2>2. pc'[c] = pc[c] \/ pc'[c] = "idle"
    BY <1>2, <2>1, ClientMoves
  <2>3. QED BY <1>2, <2>2 DEF In, SavePc, LinkWindow
<1>3. QED BY <1>1, <1>2 DEF In, Over, Later

LEMMA StageLeads ==
  ASSUME NEW c \in Clients, NEW S, NEW T, Later(S, T)
  PROVE  FairSpec /\ []CanGoOn => LeadsOn(c, S, T)
<1>1. FairSpec => Spec /\ SaveRuns(c)
  BY DEF FairSpec
<1>2. CanGoOn => SaveCanGoOn(c)
  BY DEF CanGoOn, SaveCanGoOn
<1>3. In(c, S) => pc[c] \in SavePc
  BY DEF In, Later
<1>4. In(c, T) \/ Over(c) \/ ~(In(c, T) \/ Over(c))
  OBVIOUS
<1>5. QED
  BY <1>1, <1>2, <1>3, StageSteps, ClientInvariant, PTL DEF Spec, SaveRuns, SaveCanGoOn, LeadsOn

(***************************************************************************)
(* A save comes to an end, whatever happens to its reservation: every step *)
(* of it leads to a later stage, and there are nine of them.               *)
(***************************************************************************)
THEOREM SavesEnd == FairSpec /\ []CanGoOn => SaveEnds
<1> SUFFICES ASSUME NEW c \in Clients
             PROVE  FairSpec /\ []CanGoOn => (In(c, SavePc) ~> Over(c))
  BY DEF SaveEnds, In, Over
<1> DEFINE Prep  == SavePc \ {"reserved"}
           Own   == Prep \ {"written"}
           Taken == Own \ {"checked"}
           Redo  == Taken \ {"exists"}
           Again == Redo \ {"replace"}
           Made  == Again \ {"relink"}
           Known == Made \ {"linked"}
           Last  == Known \ {"unlink", "published"}
           Live2 == FairSpec /\ []CanGoOn
<1>1. /\ Later(SavePc, Prep) /\ Later(Prep, Own) /\ Later(Own, Taken)
      /\ Later(Taken, Redo) /\ Later(Redo, Again) /\ Later(Again, Made)
      /\ Later(Made, Known) /\ Later(Known, Last) /\ Later(Last, {})
  BY DEF Later, NextPc, SavePc, LinkWindow
<1> HIDE DEF Prep, Own, Taken, Redo, Again, Made, Known, Last
<1>2. /\ Live2 => LeadsOn(c, SavePc, Prep)
      /\ Live2 => LeadsOn(c, Prep, Own)
      /\ Live2 => LeadsOn(c, Own, Taken)
  BY <1>1, StageLeads
<1>3. /\ Live2 => LeadsOn(c, Taken, Redo)
      /\ Live2 => LeadsOn(c, Redo, Again)
      /\ Live2 => LeadsOn(c, Again, Made)
  BY <1>1, StageLeads
<1>4. /\ Live2 => LeadsOn(c, Made, Known)
      /\ Live2 => LeadsOn(c, Known, Last)
      /\ Live2 => LeadsOn(c, Last, {})
  BY <1>1, StageLeads
<1>5. ~In(c, {})
  BY DEF In
<1>6. QED BY <1>2, <1>3, <1>4, <1>5, PTL DEF LeadsOn

--------------------------------------------------------------------------------
NoClaim(c) == claim[c] = NoKey
Dead(c)    == c \in dead
ReaderCanGo(c) == Dead(c) /\ ~NoClaim(c) => ENABLED <<ReaderGone(c)>>_vars
WriterCanGo(c) == Dead(c) /\ Writes(c) => ENABLED <<WriterGone(c)>>_vars
TimerCanGo(c)  == Parked(c) => ENABLED <<TimerEnds(c)>>_vars

\* A dead client gets nothing new, and is replaced only once it is forgotten.
LEMMA DeadSteps ==
  ASSUME NEW c \in Clients, ClientInv, TiedInv, [Next]_vars, Dead(c)
  PROVE  /\ Dead(c)' \/ Forgotten(c)
         /\ NoClaim(c) => NoClaim(c)'
         /\ ~Parked(c) => ~Parked(c)'
         /\ ~Writes(c) => ~Writes(c)'
<1> USE DEF ClientInv, PublishTypeOK
<1>1. Dead(c)' \/ Forgotten(c)
  BY ClientMoves DEF Dead
<1>2. ASSUME NEW d \in Clients, NEW k \in Keys, StartWait(d, k)
      PROVE  /\ d # c
             /\ waiters' = [waiters EXCEPT ![k] = @ \cup {d}]
             /\ UNCHANGED <<claim, reservation>>
  BY <1>2 DEF StartWait, Park, At, Live, Dead
<1>3. ASSUME NEW d \in Clients, NEW k \in Keys, NEW r \in Reason, NEW t \in Tokens,
             StartSave(d, k, r, t)
      PROVE  /\ d # c
             /\ \A j \in Keys : waiters'[j] \subseteq waiters[j]
             /\ UNCHANGED claim
             /\ \A j \in Reserved' : reservation'[j].writer = c =>
                   j \in Reserved /\ reservation[j].writer = c
  <2>1. d # c
    BY <1>3 DEF StartSave, At, Live, Dead
  <2>2. /\ \A j \in Keys : waiters'[j] \subseteq waiters[j]
        /\ UNCHANGED claim
    BY <1>3 DEF StartSave, ReserveSave, CleanWaiters
  <2>3. \A j \in Keys \ {k} : reservation'[j] = reservation[j]
    BY <1>3 DEF StartSave, ReserveSave
  <2>4. reservation'[k].writer = d
    BY <1>3 DEF StartSave, ReserveSave, MetaTypeOK
  <2>5. QED BY <2>1, <2>2, <2>3, <2>4 DEF Reserved
<1>4. NoClaim(c) => NoClaim(c)'
  <2>1. CASE \E k \in Keys : \E d \in Clients : StartRead(d, k)
    BY <2>1 DEF StartRead, Checkout, At, Live, NoClaim, Dead
  <2>2. CASE \A k \in Keys, d \in Clients : ~StartRead(d, k)
    <3>1. UNCHANGED claim \/ MetaRestart \/ \E d \in Clients : ReleaseClaim(d)
      <4>1. CASE UNCHANGED vars
        BY <4>1 DEF vars
      <4>2. CASE \E d \in Clients : Begin(d)
        BY <1>2, <1>3, <2>2, <4>2 DEF Begin, SaveAlreadyPresent, metaVars
      <4>3. CASE \E d \in Clients : SaveStep(d)
        BY <4>3 DEF SaveStep, WriteTmp, Check, CheckReservation, CheckExpired, Link, LinkTmp,
                    PublishFails, WriteFile, Exists, Relink, Replace, Unlink, Finalise,
                    Cancel, CancelReservation, Mark, MarkPublished, Announce, AnnounceSaved,
                    Expired, AfterSave, PinRow, SetLiveKey, metaVars
      <4>4. CASE \E d \in Clients : ReadStep(d)
        BY <4>4 DEF ReadStep, Load, WriteFile, Checkin, AfterHit, PinRow, Answered, metaVars
      <4>5. CASE \E d \in Clients : Crash(d) \/ Spawn(d)
        BY <4>5 DEF Crash, Spawn
      <4>6. CASE MetaStep
        BY <4>6 DEF MetaStep, Gc, EvictBytes, Evict, ReaderDown, WriterDown, Sweep, CleanUp,
                    WaiterExpire
      <4>7. CASE Restart \/ \E k \in Keys : TimePasses(k)
        BY <4>7 DEF Restart, TimePasses, Lapse
      <4>8. QED BY <4>1, <4>2, <4>3, <4>4, <4>5, <4>6, <4>7 DEF Next
    <3>2. QED BY <3>1 DEF NoClaim, MetaRestart, ReleaseClaim, MetaTypeOK
  <2>3. QED BY <2>1, <2>2
<1>5. CASE \A d \in Clients, k \in Keys :
              ~StartWait(d, k) /\ \A r \in Reason, t \in Tokens : ~StartSave(d, k, r, t)
  <2>1. Shrunk
    BY <1>5, ServerShrinks
  <2>2. QED BY <1>1, <1>4, <2>1 DEF Shrunk, Parked, Writes
<1>6. CASE \E d \in Clients, k \in Keys : StartWait(d, k)
  BY <1>1, <1>2, <1>4, <1>6 DEF Parked, Writes, Reserved, MetaTypeOK
<1>7. CASE \E d \in Clients, k \in Keys, r \in Reason, t \in Tokens : StartSave(d, k, r, t)
  BY <1>1, <1>3, <1>4, <1>7 DEF Parked, Writes
<1>8. QED BY <1>5, <1>6, <1>7

\* One 'DOWN' or one timer clears what there is to clear.
LEMMA OneIsEnough ==
  ASSUME NEW c \in Clients, ClientInv, TiedInv
  PROVE  /\ ReaderGone(c) => NoClaim(c)'
         /\ WriterGone(c) => ~Writes(c)'
         /\ TimerEnds(c) => ~Parked(c)'
<1> USE DEF ClientInv, PublishTypeOK, TiedInv
<1>1. ReaderGone(c) => NoClaim(c)'
  BY DEF ReaderGone, ReaderDown, ReleaseClaim, NoClaim, MetaTypeOK
<1>2. WriterGone(c) => ~Writes(c)'
  BY DEF WriterGone, WriterDown, CleanUp, Writes, Reserved, WriterOnce, MetaTypeOK
<1>3. TimerEnds(c) => ~Parked(c)'
  BY DEF TimerEnds, WaiterExpire, Parked, WaiterOnce, MetaTypeOK
<1>4. QED BY <1>1, <1>2, <1>3

(***************************************************************************)
(* A client that died stops blocking the keys it was saving, reading or    *)
(* waiting for.                                                            *)
(***************************************************************************)
THEOREM DeadAreForgotten == FairSpec /\ []CanGoOn => DeadForgotten
<1> SUFFICES ASSUME NEW c \in Clients
             PROVE  FairSpec /\ []CanGoOn => (Dead(c) ~> Forgotten(c))
  BY DEF DeadForgotten, Dead
<1>1. FairSpec => Spec /\ ReaderGoneSeen(c) /\ WriterGoneSeen(c) /\ TimerRuns(c)
  BY DEF FairSpec
<1>2. CanGoOn => ReaderCanGo(c) /\ WriterCanGo(c) /\ TimerCanGo(c)
  BY DEF CanGoOn, ReaderCanGo, WriterCanGo, TimerCanGo, Dead, NoClaim
<1>3. ClientInv /\ TiedInv /\ [Next]_vars /\ Dead(c) =>
        /\ Dead(c)' \/ Forgotten(c)
        /\ NoClaim(c) => NoClaim(c)'
        /\ ~Parked(c) => ~Parked(c)'
        /\ ~Writes(c) => ~Writes(c)'
  BY DeadSteps
<1>4. ClientInv /\ TiedInv =>
        /\ <<ReaderGone(c)>>_vars => NoClaim(c)'
        /\ <<WriterGone(c)>>_vars => ~Writes(c)'
        /\ <<TimerEnds(c)>>_vars => ~Parked(c)'
  BY OneIsEnough
<1>5. NoClaim(c) /\ ~Parked(c) /\ ~Writes(c) => Forgotten(c)
  BY DEF NoClaim, Parked, Writes, Forgotten
<1>6. QED
  BY <1>1, <1>2, <1>3, <1>4, <1>5, ClientInvariant, ClientsTied, PTL
     DEF Spec, ReaderGoneSeen, WriterGoneSeen, TimerRuns, ReaderCanGo, WriterCanGo, TimerCanGo

--------------------------------------------------------------------------------
Waits(c)     == pc[c] = "waiting"
Resumed(c)   == pc[c] # "waiting"
ReadCanGo(c) == Waits(c) /\ ~Parked(c) => ENABLED <<ReadStep(c)>>_vars

LEMMA WaitSteps ==
  ASSUME NEW c \in Clients, ClientInv, [Next]_vars, Waits(c)
  PROVE  /\ ~Parked(c) => ~Parked(c)' \/ ~Waits(c)'
         /\ ReadStep(c) => ~Waits(c)'
<1> USE DEF ClientInv, PublishTypeOK
<1>1. ReadStep(c) => ~Waits(c)'
  BY DEF ReadStep, Load, Checkin, AfterHit, Answered, At, Waits, Return
<1>2. ASSUME ~Parked(c), Parked(c)' PROVE FALSE
  <2>1. \A k \in Keys : ~StartWait(c, k)
    BY DEF StartWait, At, Waits
  <2>2. ASSUME NEW d \in Clients, NEW k \in Keys, StartWait(d, k)
        PROVE  waiters' = [waiters EXCEPT ![k] = @ \cup {d}] /\ d # c
    BY <2>1, <2>2 DEF StartWait, Park
  <2>3. ASSUME NEW d \in Clients, NEW k \in Keys, NEW r \in Reason, NEW t \in Tokens,
               StartSave(d, k, r, t)
        PROVE  \A j \in Keys : waiters'[j] \subseteq waiters[j]
    BY <2>3 DEF StartSave, ReserveSave, CleanWaiters
  <2>4. CASE \E d \in Clients, k \in Keys : StartWait(d, k)
    BY <1>2, <2>2, <2>4 DEF Parked, MetaTypeOK
  <2>5. CASE \E d \in Clients, k \in Keys, r \in Reason, t \in Tokens : StartSave(d, k, r, t)
    BY <1>2, <2>3, <2>5 DEF Parked
  <2>6. CASE \A d \in Clients, k \in Keys :
                ~StartWait(d, k) /\ \A r \in Reason, t \in Tokens : ~StartSave(d, k, r, t)
    <3>1. Shrunk
      BY <2>6, ServerShrinks
    <3>2. QED BY <1>2, <3>1 DEF Shrunk, Parked
  <2>7. QED BY <2>4, <2>5, <2>6
<1>3. QED BY <1>1, <1>2

(***************************************************************************)
(* A caller parked on a key is answered: by the publication, by a clean-up *)
(* that adopts the file, or by its timer.                                  *)
(***************************************************************************)
THEOREM WaitersAnswered == FairSpec /\ []CanGoOn => WaiterAnswered
<1> SUFFICES ASSUME NEW c \in Clients
             PROVE  FairSpec /\ []CanGoOn => (Waits(c) ~> Resumed(c))
  BY DEF WaiterAnswered, Waits, Resumed
<1>0. Resumed(c) <=> ~Waits(c)
  BY DEF Resumed, Waits
<1>1. FairSpec => Spec /\ ReadRuns(c) /\ TimerRuns(c)
  BY DEF FairSpec
<1>2. CanGoOn => ReadCanGo(c) /\ TimerCanGo(c)
  BY DEF CanGoOn, ReadCanGo, TimerCanGo, Waits
<1>3. ClientInv /\ [Next]_vars /\ Waits(c) =>
        /\ ~Parked(c) => ~Parked(c)' \/ ~Waits(c)'
        /\ <<ReadStep(c)>>_vars => ~Waits(c)'
  BY WaitSteps
<1>4. ClientInv /\ TiedInv => (<<TimerEnds(c)>>_vars => ~Parked(c)')
  BY OneIsEnough
<1>5. QED
  BY <1>0, <1>1, <1>2, <1>3, <1>4, ClientInvariant, ClientsTied, PTL
     DEF Spec, ReadRuns, TimerRuns, ReadCanGo, TimerCanGo
================================================================================
