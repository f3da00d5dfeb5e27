--------------------------- MODULE ModelLifecycle ---------------------------
(***************************************************************************)
(* How models come and go in the daemon: barrel_inference_server_config    *)
(* starts one loader per model and subscribes requests to it; the loader's *)
(* worker makes room and loads; barrel_inference_server_keepalive counts   *)
(* the requests of each model and unloads idle ones; the pressure evictor  *)
(* asks it to.  All of them are processes, and what they tell each other   *)
(* arrives later, in order between two processes.                          *)
(***************************************************************************)
EXTENDS Naturals, Sequences, FiniteSets

CONSTANTS
    Models, Requests,
    KeepAlives,     \* what a request may ask for: "zero", "ttl", "forever"
    MemoryAware,    \* memory_aware_loading
    Capacity,       \* how many models fit in memory
    Exits,          \* whether a model process may exit by itself
    None

ASSUME LifecycleAssumption ==
    /\ None \notin Models
    /\ IsFiniteSet(Models) /\ IsFiniteSet(Requests)
    /\ KeepAlives \subseteq {"zero", "ttl", "forever"}
    /\ MemoryAware \in BOOLEAN /\ Exits \in BOOLEAN
    /\ Capacity \in Nat

VARIABLES
    running,    \* whether the model's process is registered and alive
    loader,     \* the loader of each model: "none" when the config server has
                \* no entry for it, "exited" until that server sees its 'DOWN'
    sent,       \* the subscribe casts in the loader's mailbox
    subs,       \* the loader's subscribers
    work,       \* the load worker: "idle" when there is none, "ok" or "error"
                \* once its result is in the loader's mailbox
    victim,     \* the model that the worker has called unload_sync for
    tried,      \* the models that it has unloaded
    pc,         \* each request's pipeline worker and handler
    on,         \* the model it asks for
    begun,      \* keepalive_begun of its handler
    cast,       \* the handler's casts to keepalive, oldest first
    entry,      \* keepalive's entries
    clock,      \* whether a keep-alive timer of the model runs
    fired,      \* whether its message is in keepalive's mailbox
    dropped     \* whether an entry was dropped under requests of which some
                \* are still counted on (history)

loads == <<loader, sent, subs, work, victim, tried>>
requests == <<pc, on, begun, cast>>
keepalive == <<entry, clock, fired, dropped>>
vars == <<running, loads, requests, keepalive>>

\* The reference that arm/3 keeps is that of send_after, the one that
\* the message carries is another.
KeptRef == "send_after"
CarriedRef == "make_ref"

NoEntry == [tracked |-> FALSE, active |-> 0, timer |-> "none"]

Casts == {"begin"} \cup KeepAlives

TypeOK ==
    /\ running \in [Models -> BOOLEAN]
    /\ loader \in [Models -> {"none", "loading", "loaded", "failed", "exited"}]
    /\ sent \in [Models -> SUBSET Requests]
    /\ subs \in [Models -> SUBSET Requests]
    /\ work \in [Models -> {"idle", "room", "evict", "load", "ok", "error"}]
    /\ victim \in [Models -> Models \cup {None}]
    /\ tried \in [Models -> SUBSET Models]
    /\ pc \in [Requests -> {"idle", "waiting", "ready", "ended"}]
    /\ on \in [Requests -> Models \cup {None}]
    /\ begun \in [Requests -> BOOLEAN]
    /\ cast \in [Requests -> Seq(Casts)]
    /\ entry \in [Models -> [tracked : BOOLEAN, active : Nat,
                             timer : {"none", KeptRef}]]
    /\ clock \in [Models -> BOOLEAN]
    /\ fired \in [Models -> BOOLEAN]
    /\ dropped \in [Models -> BOOLEAN]

Init ==
    /\ running = [m \in Models |-> FALSE]
    /\ loader = [m \in Models |-> "none"]
    /\ sent = [m \in Models |-> {}]
    /\ subs = [m \in Models |-> {}]
    /\ work = [m \in Models |-> "idle"]
    /\ victim = [m \in Models |-> None]
    /\ tried = [m \in Models |-> {}]
    /\ pc = [r \in Requests |-> "idle"]
    /\ on = [r \in Requests |-> None]
    /\ begun = [r \in Requests |-> FALSE]
    /\ cast = [r \in Requests |-> <<>>]
    /\ entry = [m \in Models |-> NoEntry]
    /\ clock = [m \in Models |-> FALSE]
    /\ fired = [m \in Models |-> FALSE]
    /\ dropped = [m \in Models |-> FALSE]

-----------------------------------------------------------------------------
(* The config server and the loaders                                       *)

\* load_done arrives at the pipeline workers of R that still wait for it
Done(R, answer) ==
    pc' = [r \in Requests |-> IF r \in R /\ pc[r] = "waiting" THEN answer ELSE pc[r]]

\* The loader stops: what is still in its mailbox is lost.
Stop(m) ==
    /\ loader' = [loader EXCEPT ![m] = "exited"]
    /\ sent' = [sent EXCEPT ![m] = {}]

\* handle_call ensure_loaded_async of a model that answers
EnsureReady(r, m) ==
    /\ pc[r] = "idle" /\ running[m]
    /\ pc' = [pc EXCEPT ![r] = "ready"]
    /\ on' = [on EXCEPT ![r] = m]
    /\ UNCHANGED <<running, loads, begun, cast, keepalive>>

\* handle_call ensure_loaded_async of one that does not: subscribe_loader
EnsureSubscribe(r, m) ==
    /\ pc[r] = "idle" /\ ~running[m]
    /\ pc' = [pc EXCEPT ![r] = "waiting"]
    /\ on' = [on EXCEPT ![r] = m]
    /\ IF loader[m] = "none"
       THEN /\ loader' = [loader EXCEPT ![m] = "loading"]
            /\ work' = [work EXCEPT ![m] = "room"]
       ELSE UNCHANGED <<loader, work>>
    /\ sent' = [sent EXCEPT ![m] = IF loader[m] = "exited" THEN @ ELSE @ \cup {r}]
    /\ UNCHANGED <<running, subs, victim, tried, begun, cast, keepalive>>

\* the config server's 'DOWN' of a loader
ConfigDown(m) ==
    /\ loader[m] = "exited"
    /\ loader' = [loader EXCEPT ![m] = "none"]
    /\ UNCHANGED <<running, sent, subs, work, victim, tried, requests, keepalive>>

\* handle_cast subscribe while the model is loading
SubscribeLoading(m, r) ==
    /\ r \in sent[m] /\ loader[m] = "loading"
    /\ sent' = [sent EXCEPT ![m] = @ \ {r}]
    /\ subs' = [subs EXCEPT ![m] = @ \cup {r}]
    /\ UNCHANGED <<running, loader, work, victim, tried, requests, keepalive>>

\* handle_cast subscribe once it is loaded: model_alive decides
SubscribeLoaded(m, r) ==
    /\ r \in sent[m] /\ loader[m] = "loaded"
    /\ IF running[m]
       THEN /\ Done({r}, "ready")
            /\ sent' = [sent EXCEPT ![m] = @ \ {r}]
            /\ UNCHANGED loader
       ELSE Done({r}, "ended") /\ Stop(m)
    /\ UNCHANGED <<running, subs, work, victim, tried, on, begun, cast, keepalive>>

\* handle_cast subscribe after a failed load: the old reason again
SubscribeFailed(m, r) ==
    /\ r \in sent[m] /\ loader[m] = "failed"
    /\ sent' = [sent EXCEPT ![m] = @ \ {r}]
    /\ Done({r}, "ended")
    /\ UNCHANGED <<running, loader, subs, work, victim, tried, on, begun, cast,
                   keepalive>>

\* mutant: the subscribers stay on the list
FinalizeKeeps(m) ==
    /\ loader[m] = "loading" /\ work[m] \in {"ok", "error"}
    /\ Done(subs[m], IF work[m] = "ok" THEN "ready" ELSE "ended")
    /\ work' = [work EXCEPT ![m] = "idle"]
    /\ tried' = [tried EXCEPT ![m] = {}]
    /\ loader' = [loader EXCEPT ![m] = IF work[m] = "ok" THEN "loaded" ELSE "failed"]
    /\ UNCHANGED <<running, sent, subs, victim, on, begun, cast, keepalive>>

\* mutant: only the first subscriber is told
FinalizeOne(m) ==
    /\ loader[m] = "loading" /\ work[m] \in {"ok", "error"}
    /\ \E r \in subs[m] : Done({r}, IF work[m] = "ok" THEN "ready" ELSE "ended")
    /\ subs' = [subs EXCEPT ![m] = {}]
    /\ work' = [work EXCEPT ![m] = "idle"]
    /\ tried' = [tried EXCEPT ![m] = {}]
    /\ loader' = [loader EXCEPT ![m] = IF work[m] = "ok" THEN "loaded" ELSE "failed"]
    /\ UNCHANGED <<running, sent, victim, on, begun, cast, keepalive>>

\* finalize/2 and attach_model_monitor/1, on load_result or on the 'DOWN' of
\* a worker that crashed
Finalize(m) ==
    /\ loader[m] = "loading" /\ work[m] \in {"ok", "error"}
    /\ Done(subs[m], IF work[m] = "ok" THEN "ready" ELSE "ended")
    /\ subs' = [subs EXCEPT ![m] = {}]
    /\ work' = [work EXCEPT ![m] = "idle"]
    /\ tried' = [tried EXCEPT ![m] = {}]
    /\ IF work[m] = "ok" /\ ~running[m]
       THEN Stop(m)
       ELSE /\ loader' = [loader EXCEPT ![m] = IF work[m] = "ok" THEN "loaded"
                                                                 ELSE "failed"]
            /\ UNCHANGED sent
    /\ UNCHANGED <<running, victim, on, begun, cast, keepalive>>

\* mutant: the loader does not monitor the model
ModelDownUnseen(m) == FALSE /\ UNCHANGED vars

\* the loader's 'DOWN' of the model it loaded
ModelDown(m) ==
    /\ loader[m] = "loaded" /\ ~running[m]
    /\ Stop(m)
    /\ UNCHANGED <<running, subs, work, victim, tried, requests, keepalive>>

-----------------------------------------------------------------------------
(* The load worker                                                         *)

Loaded == {m \in Models : running[m]}

\* idle_candidates/2, from a snapshot of keepalive's entries
Candidates(m) == {v \in Loaded \ (tried[m] \cup {m}) :
                    entry[v].tracked /\ entry[v].active = 0}

Fits == ~MemoryAware \/ Cardinality(Loaded) < Capacity

\* One round of make_room/5.  The probe may not know what is available, and
\* then the load goes on; running out of rounds is an error of LoadFails.
MakeRoom(m) ==
    /\ work[m] = "room"
    /\ \/ /\ work' = [work EXCEPT ![m] = "load"]
          /\ UNCHANGED victim
       \/ /\ ~Fits /\ Candidates(m) = {}
          /\ work' = [work EXCEPT ![m] = "error"]
          /\ UNCHANGED victim
       \/ /\ ~Fits
          /\ \E v \in Candidates(m) : victim' = [victim EXCEPT ![m] = v]
          /\ work' = [work EXCEPT ![m] = "evict"]
    /\ UNCHANGED <<running, loader, sent, subs, tried, requests, keepalive>>

\* do_load/2
LoadModel(m) ==
    /\ work[m] = "load"
    /\ running' = [running EXCEPT ![m] = TRUE]
    /\ work' = [work EXCEPT ![m] = "ok"]
    /\ UNCHANGED <<loader, sent, subs, victim, tried, requests, keepalive>>

\* The manifest cannot be read, no round is left, the load fails or the worker
\* crashes.  It does when keepalive does not answer unload_sync in time; the
\* call is still handled then.
LoadFails(m) ==
    /\ work[m] \in {"room", "evict", "load"}
    /\ work' = [work EXCEPT ![m] = "error"]
    /\ UNCHANGED <<running, loader, sent, subs, victim, tried, requests, keepalive>>

-----------------------------------------------------------------------------
(* The requests: pipeline worker and handler                               *)

\* wait_for_load/3: the deadline passes
LoadTimeout(r) ==
    /\ pc[r] = "waiting"
    /\ pc' = [pc EXCEPT ![r] = "ended"]
    /\ UNCHANGED <<running, loads, on, begun, cast, keepalive>>

\* The handler receives {pipeline, loaded} and casts request_begin; its worker
\* goes on meanwhile.
HandlerBegins(r) ==
    /\ pc[r] = "ready" /\ ~begun[r]
    /\ begun' = [begun EXCEPT ![r] = TRUE]
    /\ cast' = [cast EXCEPT ![r] = Append(@, "begin")]
    /\ UNCHANGED <<running, loads, pc, on, keepalive>>

\* The request is done, fails, or its client goes away: cleanup/1 casts
\* request_end if the handler cast request_begin.
HandlerEnds(r) ==
    /\ pc[r] = "ready"
    /\ pc' = [pc EXCEPT ![r] = "ended"]
    /\ IF begun[r] THEN \E ka \in KeepAlives : cast' = [cast EXCEPT ![r] = Append(@, ka)]
                   ELSE UNCHANGED cast
    /\ UNCHANGED <<running, loads, on, begun, keepalive>>

\* a name is used again once its request has left no trace
Recycle(r) ==
    /\ pc[r] = "ended" /\ cast[r] = <<>>
    /\ \A m \in Models : r \notin sent[m] \cup subs[m]
    /\ pc' = [pc EXCEPT ![r] = "idle"]
    /\ on' = [on EXCEPT ![r] = None]
    /\ begun' = [begun EXCEPT ![r] = FALSE]
    /\ UNCHANGED <<running, loads, cast, keepalive>>

-----------------------------------------------------------------------------
(* Keepalive                                                               *)

\* The requests of m whose request_begin was handled and whose request_end
\* was not
Counted(m) == {r \in Requests : /\ on[r] = m /\ begun[r]
                                /\ cast[r] = <<>> => pc[r] # "ended"
                                /\ cast[r] # <<>> => Head(cast[r]) # "begin"}

Pop(r) == cast' = [cast EXCEPT ![r] = Tail(@)]

\* handle_cast request_begin
RequestBegin(r) ==
    /\ cast[r] # <<>> /\ Head(cast[r]) = "begin"
    /\ Pop(r)
    /\ entry' = [entry EXCEPT ![on[r]] =
                   [tracked |-> TRUE, active |-> @.active + 1, timer |-> "none"]]
    /\ clock' = [clock EXCEPT ![on[r]] = FALSE]
    /\ UNCHANGED <<running, loads, pc, on, begun, fired, dropped>>

\* mutant: the entry is armed whoever is left
ArmEvery(m, n, ka) ==
    /\ entry' = [entry EXCEPT ![m].active = 0,
                   ![m].timer = IF ka = "ttl" THEN KeptRef ELSE "none"]
    /\ clock' = [clock EXCEPT ![m] = ka = "ttl"]
    /\ running' = [running EXCEPT ![m] = @ /\ ka # "zero"]

\* the entry of m after a request_end leaves n active ones: arm/3 for the last
Arm(m, n, ka) ==
    IF n > 0
    THEN /\ entry' = [entry EXCEPT ![m].active = n]
         /\ UNCHANGED <<running, clock>>
    ELSE /\ entry' = [entry EXCEPT ![m].active = 0,
                        ![m].timer = IF ka = "ttl" THEN KeptRef ELSE "none"]
         /\ clock' = [clock EXCEPT ![m] = ka = "ttl"]
         /\ running' = [running EXCEPT ![m] = @ /\ ka # "zero"]

\* handle_cast request_end; one that no entry is there for is ignored
RequestEnd(r) ==
    /\ cast[r] # <<>> /\ Head(cast[r]) # "begin"
    /\ Pop(r)
    /\ LET m == on[r]
           n == IF entry[m].active > 0 THEN entry[m].active - 1 ELSE 0
       IN  IF entry[m].tracked THEN Arm(m, n, Head(cast[r]))
                               ELSE UNCHANGED <<running, entry, clock>>
    /\ dropped' = [dropped EXCEPT ![on[r]] = @ /\ Counted(on[r]) # {r}]
    /\ UNCHANGED <<loads, pc, on, begun, fired>>

\* the keep-alive timer sends its message
TimerFires(m) ==
    /\ clock[m]
    /\ clock' = [clock EXCEPT ![m] = FALSE]
    /\ fired' = [fired EXCEPT ![m] = TRUE]
    /\ UNCHANGED <<running, loads, requests, entry, dropped>>

\* drop_and_unload/2
DropAndUnload(m) ==
    /\ running' = [running EXCEPT ![m] = FALSE]
    /\ entry' = [entry EXCEPT ![m] = NoEntry]
    /\ clock' = [clock EXCEPT ![m] = FALSE]

\* handle_info unload_timer
UnloadTimer(m) ==
    /\ fired[m]
    /\ fired' = [fired EXCEPT ![m] = FALSE]
    /\ IF entry[m].active = 0 /\ entry[m].timer = CarriedRef
       THEN DropAndUnload(m)
       ELSE UNCHANGED <<running, entry, clock>>
    /\ UNCHANGED <<loads, requests, dropped>>

\* handle_call unload_sync for the load worker of m: whatever is counted
DropVictim(m) ==
    LET v == victim[m] IN
    /\ DropAndUnload(v)
    /\ victim' = [victim EXCEPT ![m] = None]
    /\ dropped' = [dropped EXCEPT ![v] = Counted(v) # {}]
    /\ UNCHANGED <<loader, sent, subs, requests, fired>>

\* It is answered in time, and the worker looks for room again.
UnloadVictim(m) ==
    /\ work[m] = "evict"
    /\ DropVictim(m)
    /\ work' = [work EXCEPT ![m] = "room"]
    /\ tried' = [tried EXCEPT ![m] = @ \cup {victim[m]}]

\* The worker has crashed meanwhile.
UnloadLate(m) ==
    /\ work[m] # "evict" /\ victim[m] # None
    /\ DropVictim(m)
    /\ UNCHANGED <<work, tried>>

\* mutant: the evictor trusts its snapshot of idle models
EvictSnapshot(m) ==
    /\ entry[m].tracked /\ running[m]
    /\ DropAndUnload(m)
    /\ UNCHANGED <<loads, requests, fired, dropped>>

\* handle_call unload_idle_sync, from evict_one/0 of the pressure scheduler
UnloadIdle(m) ==
    /\ entry[m].tracked /\ entry[m].active = 0
    /\ DropAndUnload(m)
    /\ UNCHANGED <<loads, requests, fired, dropped>>

\* The model's process exits without keepalive: a crash, escalate_unload/2,
\* or a request of the Ollama API with keep_alive 0 and no prompt
ModelExits(m) ==
    /\ Exits /\ running[m]
    /\ running' = [running EXCEPT ![m] = FALSE]
    /\ UNCHANGED <<loads, requests, keepalive>>

-----------------------------------------------------------------------------
Loading(m) ==
    \/ \E r \in Requests : \/ EnsureReady(r, m) \/ EnsureSubscribe(r, m)
                           \/ SubscribeLoading(m, r) \/ SubscribeLoaded(m, r)
                           \/ SubscribeFailed(m, r)
    \/ ConfigDown(m) \/ Finalize(m) \/ ModelDown(m)
    \/ MakeRoom(m) \/ UnloadVictim(m) \/ LoadModel(m) \/ LoadFails(m)

Unloading(m) ==
    \/ TimerFires(m) \/ UnloadTimer(m) \/ UnloadIdle(m) \/ UnloadLate(m) \/ ModelExits(m)

Handling(r) ==
    \/ LoadTimeout(r) \/ HandlerBegins(r) \/ HandlerEnds(r)
    \/ Recycle(r) \/ RequestBegin(r) \/ RequestEnd(r)

Next ==
    \/ \E m \in Models : Loading(m) \/ Unloading(m)
    \/ \E r \in Requests : Handling(r)

Spec == Init /\ [][Next]_vars

Subscribe(m, r) ==
    SubscribeLoading(m, r) \/ SubscribeLoaded(m, r) \/ SubscribeFailed(m, r)

Worker(m) == MakeRoom(m) \/ UnloadVictim(m) \/ LoadModel(m) \/ LoadFails(m)

LoaderRuns(m)       == WF_vars(Finalize(m) \/ ModelDown(m))
ConfigRuns(m)       == WF_vars(ConfigDown(m))
WorkerRuns(m)       == WF_vars(Worker(m))
SubscribeRuns(m, r) == WF_vars(Subscribe(m, r))

\* A loader and the config server handle their mailboxes, and a load ends one
\* way or the other.  No request has to come, to be handled or to end.
Fairness ==
    \A m \in Models :
        /\ LoaderRuns(m) /\ ConfigRuns(m) /\ WorkerRuns(m)
        /\ \A r \in Requests : SubscribeRuns(m, r)

FairSpec == Spec /\ Fairness

\* Timers fire, and keepalive handles its mailbox.
TimedSpec ==
    /\ Spec
    /\ \A m \in Models : WF_vars(TimerFires(m)) /\ WF_vars(UnloadTimer(m))
    /\ \A r \in Requests : WF_vars(RequestBegin(r) \/ RequestEnd(r))

-----------------------------------------------------------------------------
(* Properties                                                              *)

\* keepalive's count of a model is that of the requests between their begin
\* and their end, whatever the order of the begins, the ends and the unloads.
\* If an entry was dropped under requests (a forced unload), it is so again
\* once none of the model is left.
CountsExact ==
    \A m \in Models :
        ~dropped[m] => entry[m].active = Cardinality(Counted(m))

\* "a model whose request started after the snapshot returns busy and is
\* skipped, never unloaded mid-request" (model_evictor.erl:14-17); nor does
\* the keep-alive 0 of one request unload the model under another.  Requests
\* count from the moment keepalive handles their begin.
IdleUnloadSpares ==
    [][\A m \in Models :
          /\ ~dropped[m] /\ running[m] /\ ~running'[m]
          /\ UnloadIdle(m) \/ \E r \in Requests : RequestEnd(r)
          => Counted(m)' = {}]_vars

\* "on completion (success or error) the loader replies to all of them"
\* (loader.erl:4-5): whoever subscribed while the model was loading is told.
SubscribersAnswered ==
    \A m \in Models, r \in Requests :
        r \in subs[m] ~> ~(pc[r] = "waiting" /\ on[r] = m)

\* A loader does not outlive the model it loaded: the next request gets a
\* fresh one (loader.erl:46-53).
DeadModelForgotten ==
    \A m \in Models :
        loader[m] = "loaded" /\ ~running[m] ~> loader[m] = "none" \/ running[m]

\* Nothing is waited for that cannot happen: the loader of a subscriber has a
\* worker or its result, a worker that was started goes on and its result is
\* handled, a subscribe cast has a loader that handles it, and a loader whose
\* model is gone can be cleared away.
NobodyStuck ==
    \A m \in Models :
        /\ subs[m] # {} => work[m] # "idle"
        /\ work[m] \in {"room", "evict", "load"} => ENABLED <<Worker(m)>>_vars
        /\ work[m] \in {"ok", "error"} \/ (loader[m] = "loaded" /\ ~running[m]) =>
              ENABLED <<Finalize(m) \/ ModelDown(m)>>_vars
        /\ \A r \in sent[m] : ENABLED <<Subscribe(m, r)>>_vars
        /\ loader[m] = "exited" => ENABLED <<ConfigDown(m)>>_vars

\* "On timer fire, barrel_inference:unload/1 is called and the per-model entry
\* is removed" (keepalive.erl:22-23): a model with an armed timer is unloaded
\* unless a request comes first.
ArmedTimerEnds ==
    \A m \in Models : entry[m].timer # "none" ~> entry[m].timer = "none"

=============================================================================
