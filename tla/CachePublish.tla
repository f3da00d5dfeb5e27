------------------------------ MODULE CachePublish ------------------------------
(***************************************************************************)
(* The publish protocol and the read path of the KV cache: the model       *)
(* processes run the save pipeline of barrel_inference_cache_writer and    *)
(* the file operations of barrel_inference_cache_disk_srv against the meta *)
(* server, read published checkpoints, and may exit at any step.           *)
(*                                                                         *)
(* Each call to the meta server, each file operation and each validation   *)
(* of a file is a step of its own.                                         *)
(***************************************************************************)
EXTENDS CacheMeta

CONSTANTS
    Targets,          \* byte targets of evict_bytes/1
    StaleAuthority,   \* what may end a reservation inside the link window
    SyncMayFail       \* may fsync_dir fail?

ASSUME PublishAssumption ==
    /\ Targets \subseteq Nat \ {0}
    /\ StaleAuthority \subseteq {"lapse", "restart"}
    /\ SyncMayFail \in BOOLEAN

VARIABLES
    pc,      \* where a client stands in a save, a read or a wait
    key,     \* the key it works on
    token,   \* the token reserve_save/3 gave it
    reason,  \* the save reason
    tmp      \* whether its temporary file exists

clientVars == <<pc, key, token, reason, tmp>>
vars == <<row, reservation, claim, waiters, pinned, liveKey, file, dead,
          pc, key, token, reason, tmp>>

(***************************************************************************)
(* Of the save reasons three behave differently after the save: an         *)
(* agent_prefix checkpoint is pinned and a finish save becomes the live    *)
(* key.                                                                    *)
(***************************************************************************)
Reason == {"cold", "agent_prefix", "finish"}

\* From the answer of check_reservation/2 to that of mark_published/3
LinkWindow == {"checked", "exists", "replace", "relink", "linked", "unlink",
               "published"}
SavePc == LinkWindow \cup {"reserved", "written", "cancel", "marked"}
ReadPc == {"claimed", "loaded", "missed", "hit"}
PcState == SavePc \cup ReadPc \cup {"idle", "fired", "waiting"}

Live == Clients \ dead
InWindow == {c \in Live : pc[c] \in LinkWindow}

PublishTypeOK ==
    /\ MetaTypeOK
    /\ pc     \in [Clients -> PcState]
    /\ key    \in [Clients -> Keys \cup {NoKey}]
    /\ token  \in [Clients -> Tokens \cup {NoToken}]
    /\ reason \in [Clients -> Reason]
    /\ tmp    \in [Clients -> BOOLEAN]

Init ==
    /\ MetaInit
    /\ pc     = [c \in Clients |-> "idle"]
    /\ key    = [c \in Clients |-> NoKey]
    /\ token  = [c \in Clients |-> NoToken]
    /\ reason = [c \in Clients |-> "cold"]
    /\ tmp    = [c \in Clients |-> FALSE]

At(c, state) == c \in Live /\ pc[c] = state

Goto(c, state) ==
    /\ pc' = [pc EXCEPT ![c] = state]
    /\ UNCHANGED <<key, token, reason>>

\* The client returns to its caller and forgets the operation.
Return(c) ==
    /\ pc'     = [pc EXCEPT ![c] = "idle"]
    /\ key'    = [key EXCEPT ![c] = NoKey]
    /\ token'  = [token EXCEPT ![c] = NoToken]
    /\ reason' = [reason EXCEPT ![c] = "cold"]

KeepTmp == UNCHANGED tmp
DropTmp(c) == tmp' = [tmp EXCEPT ![c] = FALSE]

WriteFile(k, content) ==
    /\ file' = [file EXCEPT ![k] = content]
    /\ UNCHANGED <<row, reservation, claim, waiters, pinned, liveKey, dead>>

--------------------------------------------------------------------------------
(***************************************************************************)
(* Save: do_save/4.  A save refused with conflict changes nothing.         *)
(***************************************************************************)
UsedTokens == {token[c] : c \in Clients} \cup {reservation[k].token : k \in Reserved}

StartSave(c, k, r, t) ==
    /\ At(c, "idle")
    /\ t \notin UsedTokens
    /\ ReserveSave(c, k, t)
    /\ pc'     = [pc EXCEPT ![c] = "reserved"]
    /\ key'    = [key EXCEPT ![c] = k]
    /\ token'  = [token EXCEPT ![c] = t]
    /\ reason' = [reason EXCEPT ![c] = r]
    /\ KeepTmp

\* {error, already_present} is as good as a save for the caller.
SaveAlreadyPresent(c, k, r) ==
    /\ At(c, "idle")
    /\ r # "cold"
    /\ row[k].status = "available"
    /\ pc'     = [pc EXCEPT ![c] = "fired"]
    /\ key'    = [key EXCEPT ![c] = k]
    /\ reason' = [reason EXCEPT ![c] = r]
    /\ KeepTmp
    /\ UNCHANGED <<metaVars, token>>

\* Deviation: the save returns to its caller when the write fails.
WriteTmpReturns(c) ==
    /\ At(c, "reserved")
    /\ \/ tmp' = [tmp EXCEPT ![c] = TRUE] /\ Goto(c, "written")
       \/ KeepTmp /\ Return(c)
    /\ UNCHANGED metaVars

WriteTmp(c) ==
    /\ At(c, "reserved")
    /\ \/ tmp' = [tmp EXCEPT ![c] = TRUE] /\ Goto(c, "written")
       \/ KeepTmp /\ Goto(c, "cancel")          \* the write failed
    /\ UNCHANGED metaVars

Check(c) ==
    /\ At(c, "written")
    /\ CheckReservation(key[c], token[c])
    /\ Goto(c, "checked")
    /\ KeepTmp

\* abort_tmp/1
CheckExpired(c) ==
    /\ At(c, "written")
    /\ ~Owns(key[c], token[c])
    /\ DropTmp(c)
    /\ Return(c)
    /\ UNCHANGED metaVars

Content(c) == IF reason[c] = "agent_prefix" THEN "prefix" ELSE "plain"

\* make_link/2 and the delete of the temporary file that follows it
LinkTmp(c) ==
    /\ tmp[c]
    /\ file[key[c]] = "none"
    /\ WriteFile(key[c], Content(c))
    /\ DropTmp(c)
    /\ Goto(c, "linked")

\* An error of publish/1, be it of link(2), of a check or of the sync, aborts
\* the temporary file before the cancel.
PublishFails(c) ==
    /\ DropTmp(c)
    /\ Goto(c, "cancel")
    /\ UNCHANGED metaVars

Link(c) ==
    /\ At(c, "checked")
    /\ \/ LinkTmp(c)
       \/ /\ tmp[c]
          /\ file[key[c]] # "none"
          /\ Goto(c, "exists")
          /\ KeepTmp
          /\ UNCHANGED metaVars
       \/ PublishFails(c)

\* handle_eexist/6: a file that validates is adopted.
Exists(c) ==
    /\ At(c, "exists")
    /\ IF file[key[c]] \in ValidFile
       THEN DropTmp(c) /\ Goto(c, "published")
       ELSE KeepTmp /\ Goto(c, "replace")
    /\ UNCHANGED metaVars

Replace(c) ==
    /\ At(c, "replace")
    /\ WriteFile(key[c], "none")
    /\ Goto(c, "relink")
    /\ KeepTmp

Relink(c) ==
    /\ At(c, "relink")
    /\ \/ LinkTmp(c)
       \/ PublishFails(c)

\* finalise/5: the directory is synced and the file read back.
Finalise(c) ==
    /\ At(c, "linked")
    /\ \/ SyncMayFail /\ PublishFails(c)
       \/ /\ Goto(c, IF file[key[c]] \in ValidFile THEN "published" ELSE "unlink")
          /\ KeepTmp
          /\ UNCHANGED metaVars

Unlink(c) ==
    /\ At(c, "unlink")
    /\ WriteFile(key[c], "none")
    /\ Goto(c, "cancel")
    /\ KeepTmp

Cancel(c) ==
    /\ At(c, "cancel")
    /\ CancelReservation(key[c], token[c])
    /\ Return(c)
    /\ KeepTmp

Mark(c) ==
    /\ At(c, "published")
    /\ MarkPublished(key[c], token[c])
    /\ Goto(c, "marked")
    /\ KeepTmp

Announce(c) ==
    /\ At(c, "marked")
    /\ AnnounceSaved(key[c], token[c])
    /\ Goto(c, "fired")
    /\ KeepTmp

\* Deviation: the writer does not expect announce_saved to fail.
ExpiredPublished(c) ==
    /\ At(c, "published")
    /\ ~Owns(key[c], token[c])
    /\ Return(c)
    /\ KeepTmp
    /\ UNCHANGED metaVars

\* mark_published or announce_saved answers {error, expired}
Expired(c) ==
    /\ At(c, "published") \/ At(c, "marked")
    /\ ~Owns(key[c], token[c])
    /\ Return(c)
    /\ KeepTmp
    /\ UNCHANGED metaVars

\* fire_agent_prefix_save/3 pins, finish_req/4 moves the live key.
AfterSave(c) ==
    /\ At(c, "fired")
    /\ \/ reason[c] = "agent_prefix" /\ PinRow(key[c])
       \/ reason[c] = "finish" /\ SetLiveKey(key[c])
       \/ reason[c] = "cold" /\ UNCHANGED metaVars
    /\ Return(c)
    /\ KeepTmp

--------------------------------------------------------------------------------
(***************************************************************************)
(* Read: pin_and_load/3, and the bounded wait for a save in flight.        *)
(***************************************************************************)
StartRead(c, k) ==
    /\ At(c, "idle")
    /\ Checkout(c, k)
    /\ pc'  = [pc EXCEPT ![c] = "claimed"]
    /\ key' = [key EXCEPT ![c] = k]
    /\ UNCHANGED <<token, reason, tmp>>

\* parse_or_drop/3 deletes a file that does not parse; its row stays.
Load(c) ==
    /\ At(c, "claimed")
    /\ IF file[key[c]] = "corrupt" THEN WriteFile(key[c], "none")
       ELSE UNCHANGED metaVars
    /\ Goto(c, IF file[key[c]] \in ValidFile THEN "loaded" ELSE "missed")
    /\ KeepTmp

Checkin(c) ==
    /\ At(c, "loaded") \/ At(c, "missed")
    /\ ReleaseClaim(c)
    /\ IF pc[c] = "loaded" THEN Goto(c, "hit") ELSE Return(c)
    /\ KeepTmp

\* maybe_repin_prefix/4 pins the checkpoint when the hit ends at the
\* static-prefix boundary of the request.
AfterHit(c) ==
    /\ At(c, "hit")
    /\ PinRow(key[c]) \/ UNCHANGED metaVars
    /\ Return(c)
    /\ KeepTmp

StartWait(c, k) ==
    /\ At(c, "idle")
    /\ Park(c, k)
    /\ pc'  = [pc EXCEPT ![c] = "waiting"]
    /\ key' = [key EXCEPT ![c] = k]
    /\ UNCHANGED <<token, reason, tmp>>

\* The reply of the server arrives.
Answered(c) ==
    /\ At(c, "waiting")
    /\ c \notin waiters[key[c]]
    /\ Return(c)
    /\ KeepTmp
    /\ UNCHANGED metaVars

--------------------------------------------------------------------------------
(***************************************************************************)
(* Exits.  The slot of a dead client is used again, for a new process,     *)
(* once the server holds no reference to the old one.  The temporary file  *)
(* of a dead writer stays in the directory, under a name of its own.       *)
(***************************************************************************)
Crash(c) ==
    /\ c \in Live
    /\ dead' = dead \cup {c}
    /\ Return(c)
    /\ DropTmp(c)
    /\ UNCHANGED <<row, reservation, claim, waiters, pinned, liveKey, file>>

Forgotten(c) ==
    /\ claim[c] = NoKey
    /\ \A k \in Keys : c \notin waiters[k]
    /\ \A k \in Reserved : reservation[k].writer # c

Spawn(c) ==
    /\ c \in dead
    /\ Forgotten(c)
    /\ dead' = dead \ {c}
    /\ UNCHANGED <<row, reservation, claim, waiters, pinned, liveKey, file,
                   clientVars>>

\* A client parked in a call to the server exits with it.
Restart ==
    /\ "restart" \in StaleAuthority \/ InWindow = {}
    /\ MetaRestart
    /\ dead' = dead \cup {c \in Live : pc[c] = "waiting"}
    /\ pc'   = [c \in Clients |-> IF pc[c] = "waiting" THEN "idle" ELSE pc[c]]
    /\ key'  = [c \in Clients |-> IF pc[c] = "waiting" THEN NoKey ELSE key[c]]
    /\ UNCHANGED <<token, reason, tmp>>

(***************************************************************************)
(* check_reservation/2 has just renewed the 60 seconds when the window     *)
(* opens.  StaleAuthority = {} is the assumption that a live writer gets   *)
(* through the window within them and without a restart of the server.     *)
(***************************************************************************)
TimePasses(k) ==
    /\ Lapse(k)
    /\ \/ "lapse" \in StaleAuthority
       \/ reservation[k].writer \notin InWindow
    /\ UNCHANGED clientVars

MetaStep ==
    /\ \/ Gc
       \/ \E target \in Targets : EvictBytes(target)
       \/ \E c \in Clients : ReaderDown(c)
       \/ \E k \in Keys : WriterDown(k)
       \/ Sweep
       \/ \E c \in Clients, k \in Keys : WaiterExpire(c, k)
    /\ UNCHANGED clientVars

SaveStep(c) ==
    \/ WriteTmp(c) \/ Check(c) \/ CheckExpired(c)
    \/ Link(c) \/ Exists(c) \/ Replace(c) \/ Relink(c) \/ Finalise(c) \/ Unlink(c)
    \/ Cancel(c) \/ Mark(c) \/ Announce(c) \/ Expired(c) \/ AfterSave(c)

ReadStep(c) == Load(c) \/ Checkin(c) \/ AfterHit(c) \/ Answered(c)

Begin(c) ==
    \E k \in Keys :
        \/ \E r \in Reason, t \in Tokens : StartSave(c, k, r, t)
        \/ \E r \in Reason : SaveAlreadyPresent(c, k, r)
        \/ StartRead(c, k)
        \/ StartWait(c, k)

Next ==
    \/ \E c \in Clients : Begin(c) \/ SaveStep(c) \/ ReadStep(c)
    \/ \E c \in Clients : Crash(c) \/ Spawn(c)
    \/ MetaStep
    \/ Restart
    \/ \E k \in Keys : TimePasses(k)

Spec == Init /\ [][Next]_vars

(***************************************************************************)
(* Fairness.  The Erlang scheduler runs every process that has work, so a  *)
(* client inside a save or a read goes on; 'DOWN' messages of monitors     *)
(* arrive and the timers of parked callers fire.  Nothing forces a client  *)
(* to begin an operation, a process to die or a reservation to lapse.      *)
(***************************************************************************)
SaveRuns(c) == WF_vars(SaveStep(c))
ReadRuns(c) == WF_vars(ReadStep(c))

\* what a dead client had checked out, was saving or waited for
ReaderGone(c) == ReaderDown(c) /\ UNCHANGED clientVars
WriterGone(c) == \E k \in Reserved : /\ reservation[k].writer = c
                                     /\ WriterDown(k) /\ UNCHANGED clientVars
TimerEnds(c)  == \E k \in Keys : WaiterExpire(c, k) /\ UNCHANGED clientVars

ReaderGoneSeen(c) == WF_vars(ReaderGone(c))
WriterGoneSeen(c) == WF_vars(WriterGone(c))
TimerRuns(c)      == WF_vars(TimerEnds(c))

FairSpec ==
    /\ Spec
    /\ \A c \in Clients : /\ SaveRuns(c) /\ ReadRuns(c)
                          /\ ReaderGoneSeen(c) /\ WriterGoneSeen(c) /\ TimerRuns(c)

--------------------------------------------------------------------------------
(***************************************************************************)
(* Safety.                                                                 *)
(***************************************************************************)
TypeOK == PublishTypeOK

\* A key has a placeholder row exactly while a save of it holds the
\* reservation: no handler leaves a row that only a restart could free.
WritingReserved == \A k \in Keys : row[k].status = "writing" <=> k \in Reserved

\* The refcount that eviction reads is the number of readers that hold the
\* row, through crashes, restarts of the server and re-published keys.
Claimants(k) == {c \in Clients : claim[c] = k}
RefcountExact == \A k \in Keys : row[k].refcount = Cardinality(Claimants(k))

\* The index never offers a key whose file is missing or does not parse.
RowBacked == \A k \in Available : file[k] \in ValidFile

\* A published row is pinned exactly if its namespace says so, whichever of
\* pin_row/2 and the publication came first.
PinConsistent == \A k \in Available : row[k].pinned <=> pinned[NsOf[k]] = k

\* No caller stays parked on a key that has been published.
NoStrandedWaiter == \A k \in Available : waiters[k] = {}

\* A save that is over, whichever way it ended, left no temporary file.
NoTmpLeft == \A c \in Live : tmp[c] => pc[c] \in SavePc

\* Eviction takes no row a reader holds, and takes a protected row only
\* when no unprotected row without readers is left.
Lost == {k \in Available : row'[k].status = "absent"}
Shielded(k) == pinned[NsOf[k]] = k \/ k = liveKey
EvictionLegal ==
    [][MetaStep =>
        \A k \in Lost :
            /\ Claimants(k) = {}
            /\ Shielded(k) =>
                  \A j \in Available \ Lost : Claimants(j) # {} \/ Shielded(j)]_vars

\* The index keeps its contract with the readers.
Contract == INSTANCE CacheContract WITH published <- Available, held <- claim
ImplementsContract == Contract!ContractSpec

\* check_reservation/2 and link(2) are two steps, and so are link(2) and
\* mark_published/3.  Of the live writers of one key inside that window all but
\* one have been overtaken, and a writer is overtaken only if the sixty seconds
\* it has just been given are over or the server has restarted: no other client,
\* sweep or 'DOWN' takes the window from it, and nothing gives it back.
Overtaken(c) == c \in InWindow /\ ~Owns(key[c], token[c])
LinkExclusive ==
    [][/\ \A c, d \in InWindow' :
             c # d /\ key'[c] = key'[d] => Overtaken(c)' \/ Overtaken(d)'
       /\ \A c \in InWindow \cap InWindow' :
             /\ Overtaken(c) => Overtaken(c)'
             /\ Overtaken(c)' =>
                   Overtaken(c) \/ Restart \/ reservation[key[c]].lapsed]_vars

\* What the server keeps for a client is what that client is doing, or was
\* doing when it died: a reservation has its writer inside a save of that key
\* under that token, a claim its reader inside a read of that key, and a parked
\* caller waits for that key.
WriterTied ==
    \A k \in Reserved, c \in Clients :
        reservation[k].writer = c =>
            c \in dead \/ (pc[c] \in SavePc /\ key[c] = k
                             /\ token[c] = reservation[k].token)
ReaderTied ==
    \A c \in Clients : claim[c] # NoKey =>
        c \in dead \/ (pc[c] \in {"claimed", "loaded", "missed"} /\ key[c] = claim[c])
WaiterTied ==
    \A c \in Clients, k \in Keys :
        c \in waiters[k] => c \in dead \/ (pc[c] = "waiting" /\ key[c] = k)

\* A client inside an operation can go on, and what a dead or a parked client
\* left with the server can be cleared.
Parked(c) == \E k \in Keys : c \in waiters[k]
Writes(c) == \E k \in Reserved : reservation[k].writer = c
CanGoOn ==
    \A c \in Clients :
        /\ pc[c] \in SavePc \cup {"fired"} => ENABLED <<SaveStep(c)>>_vars
        /\ pc[c] \in ReadPc \/ (pc[c] = "waiting" /\ ~Parked(c)) =>
              ENABLED <<ReadStep(c)>>_vars
        /\ Parked(c) => ENABLED <<TimerEnds(c)>>_vars
        /\ c \in dead /\ claim[c] # NoKey => ENABLED <<ReaderGone(c)>>_vars
        /\ c \in dead /\ Writes(c) => ENABLED <<WriterGone(c)>>_vars

\* Nothing the server keeps is kept for nobody: there is a client whose next
\* step gives it back, or a 'DOWN' or a timer that clears it, through every
\* error path of a save, every overtaken writer and every restart.
NobodyForgotten == WriterTied /\ ReaderTied /\ WaiterTied /\ CanGoOn

--------------------------------------------------------------------------------
(***************************************************************************)
(* Liveness, of FairSpec.                                                  *)
(***************************************************************************)
\* A save that started comes to an end, whatever happens to its reservation.
SaveEnds == \A c \in Clients : pc[c] \in SavePc ~> pc[c] \notin SavePc

\* A client that died stops blocking the keys it was saving, reading or
\* waiting for.
DeadForgotten == \A c \in Clients : c \in dead ~> Forgotten(c)

\* A caller parked on a key is answered.
WaiterAnswered ==
    \A c \in Clients : pc[c] = "waiting" ~> pc[c] # "waiting"
================================================================================
