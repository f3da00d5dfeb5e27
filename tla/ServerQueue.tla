------------------------------- MODULE ServerQueue -------------------------------
(***************************************************************************)
(* The per-model admission queue of the HTTP daemon,                       *)
(* barrel_inference_server_queue, with the processes that call it: the     *)
(* pipeline worker of a streaming or buffered request, which acquires a    *)
(* slot, admits the request to the engine and is done, and the handler of  *)
(* an embeddings request, which holds its slot while it computes.          *)
(*                                                                         *)
(* A request acquires once, so it names the waiter, the slot, the monitor  *)
(* and the timer of its acquire.  The server's mailbox is explicit: what   *)
(* makes the queue hard is a timer or a 'DOWN' that is already in it when  *)
(* the server handles something else.                                      *)
(***************************************************************************)
EXTENDS Naturals, Sequences, FiniteSets

CONSTANTS
    Requests,
    Pipelined,     \* the requests that go through a pipeline worker
    Concurrency,   \* slots
    Depths         \* waiting places a queue may have; 0 is the immediate_429 policy

ASSUME QueueAssumption ==
    /\ IsFiniteSet(Requests)
    /\ Pipelined \subseteq Requests
    /\ Concurrency \in Nat \ {0}
    /\ Depths \subseteq Nat

VARIABLES
    inbox,      \* the mailbox of the queue server
    holders,    \* the slots that are taken
    inFlight,   \* the server's count of them
    waiters,    \* FIFO of parked callers
    timer,      \* waiters whose timer has not fired
    proc,       \* Request -> the process that called acquire/2
    running,    \* requests with an inference in the engine
    depthMax    \* the waiting places of this queue

vars == <<inbox, holders, inFlight, waiters, timer, proc, running, depthMax>>

Kind == {"acquire", "release", "timeout", "down"}
Message == Kind \X Requests
ProcState == {"idle", "calling", "granted", "exited"}

TypeOK ==
    /\ inbox    \in Seq(Message)
    /\ holders  \subseteq Requests
    /\ inFlight \in Nat
    /\ waiters  \in Seq(Requests)
    /\ timer    \subseteq Requests
    /\ proc     \in [Requests -> ProcState]
    /\ running  \subseteq Requests
    /\ depthMax \in Depths

Init ==
    /\ inbox    = <<>>
    /\ holders  = {}
    /\ inFlight = 0
    /\ waiters  = <<>>
    /\ timer    = {}
    /\ proc     = [r \in Requests |-> "idle"]
    /\ running  = {}
    /\ depthMax \in Depths

\* the elements of a sequence
Elems(s) == {s[i] : i \in DOMAIN s}

\* s without the element at position i, and without e (which occurs at most once)
WithoutAt(s, i) == [j \in 1 .. Len(s) - 1 |-> IF j < i THEN s[j] ELSE s[j + 1]]
Without(s, e) ==
    IF e \in Elems(s) THEN WithoutAt(s, CHOOSE i \in DOMAIN s : s[i] = e) ELSE s

Waiting   == Elems(waiters)
Monitored == holders \cup Waiting

\* The mailbox after the process of a monitored request has exited, having
\* sent the messages in sent.
Exit(r, sent) == inbox \o sent \o (IF r \in Monitored THEN << <<"down", r>> >> ELSE <<>>)

--------------------------------------------------------------------------------
(***************************************************************************)
(* The callers.  gen_server:call gives up after a timeout of its own, and  *)
(* a reply that comes later is dropped.                                    *)
(***************************************************************************)
Call(r) ==
    /\ proc[r] = "idle"
    /\ proc' = [proc EXCEPT ![r] = "calling"]
    /\ inbox' = Append(inbox, <<"acquire", r>>)
    /\ UNCHANGED <<holders, inFlight, waiters, timer, running, depthMax>>

\* {error, _}, the call's own timeout, an abort/1 by the handler or a crash:
\* the process that called acquire/2 is gone.
GiveUp(r) ==
    /\ proc[r] \in {"calling", "granted"}
    /\ r \notin running
    /\ proc' = [proc EXCEPT ![r] = "exited"]
    /\ inbox' = Exit(r, <<>>)
    /\ UNCHANGED <<holders, inFlight, waiters, timer, running, depthMax>>

\* step_infer/1 fails: release_and_fail/3.
AdmitFails(r) ==
    /\ r \in Pipelined
    /\ proc[r] = "granted"
    /\ proc' = [proc EXCEPT ![r] = "exited"]
    /\ inbox' = Exit(r, << <<"release", r>> >>)
    /\ UNCHANGED <<holders, inFlight, waiters, timer, running, depthMax>>

\* The engine admits the request.  A pipeline worker hands the slot to the
\* handler in a message and returns; an embeddings handler goes on.
Admit(r) ==
    /\ proc[r] = "granted"
    /\ r \notin running
    /\ running' = running \cup {r}
    /\ IF r \in Pipelined
       THEN /\ proc' = [proc EXCEPT ![r] = "exited"]
            /\ inbox' = Exit(r, <<>>)
       ELSE UNCHANGED <<proc, inbox>>
    /\ UNCHANGED <<holders, inFlight, waiters, timer, depthMax>>

\* The inference is over or cancelled: the handler releases the slot.  The
\* handler of an embeddings request is the process that acquired it.
Finish(r) ==
    /\ r \in running
    /\ running' = running \ {r}
    /\ IF r \in Pipelined
       THEN /\ inbox' = Append(inbox, <<"release", r>>)
            /\ UNCHANGED proc
       ELSE /\ proc' = [proc EXCEPT ![r] = "exited"]
            /\ inbox' = Exit(r, << <<"release", r>> >>)
    /\ UNCHANGED <<holders, inFlight, waiters, timer, depthMax>>

\* The handler is killed before it can release.
HandlerKilled(r) ==
    /\ r \in running
    /\ running' = running \ {r}
    /\ IF r \in Pipelined
       THEN UNCHANGED <<proc, inbox>>
       ELSE /\ proc' = [proc EXCEPT ![r] = "exited"]
            /\ inbox' = Exit(r, <<>>)
    /\ UNCHANGED <<holders, inFlight, waiters, timer, depthMax>>

Forgotten(r) ==
    /\ r \notin Monitored \cup timer \cup running
    /\ \A i \in DOMAIN inbox : inbox[i][2] # r

\* A new request takes the place of one that left no trace.
Recycle(r) ==
    /\ proc[r] = "exited"
    /\ Forgotten(r)
    /\ proc' = [proc EXCEPT ![r] = "idle"]
    /\ UNCHANGED <<inbox, holders, inFlight, waiters, timer, running, depthMax>>

TimerFires(r) ==
    /\ r \in timer
    /\ timer' = timer \ {r}
    /\ inbox' = Append(inbox, <<"timeout", r>>)
    /\ UNCHANGED <<holders, inFlight, waiters, proc, running, depthMax>>

--------------------------------------------------------------------------------
(***************************************************************************)
(* The server.  The message at the head of the mailbox is handled to the   *)
(* end before the one after it.                                            *)
(***************************************************************************)
Receive(kind, r) == inbox # <<>> /\ Head(inbox) = <<kind, r>>

Reply(r, state) ==
    proc' = IF proc[r] = "calling" THEN [proc EXCEPT ![r] = state] ELSE proc

\* Deviation: nobody learns that a process was gone before it was monitored.
MonitorLate(r) == <<>>

\* Monitoring a process that is gone sends 'DOWN' at once.
Monitor(r) == IF proc[r] = "exited" THEN << <<"down", r>> >> ELSE <<>>

Grant(r) ==
    /\ Receive("acquire", r)
    /\ inFlight < Concurrency
    /\ holders' = holders \cup {r}
    /\ inFlight' = inFlight + 1
    /\ inbox' = Tail(inbox) \o Monitor(r)
    /\ Reply(r, "granted")
    /\ UNCHANGED <<waiters, timer, running, depthMax>>

\* A caller that is refused answers its client and exits.
Refuse(r) ==
    /\ Receive("acquire", r)
    /\ inFlight >= Concurrency
    /\ Len(waiters) >= depthMax
    /\ inbox' = Tail(inbox)
    /\ Reply(r, "exited")
    /\ UNCHANGED <<holders, inFlight, waiters, timer, running, depthMax>>

Park(r) ==
    /\ Receive("acquire", r)
    /\ inFlight >= Concurrency
    /\ Len(waiters) < depthMax
    /\ waiters' = Append(waiters, r)
    /\ timer' = timer \cup {r}
    /\ inbox' = Tail(inbox) \o Monitor(r)
    /\ UNCHANGED <<holders, inFlight, proc, running, depthMax>>

\* Deviation: a slot that goes to a waiter is not counted.
FreeUncounted(r, rest) ==
    /\ inbox' = rest
    /\ IF waiters = <<>>
       THEN /\ holders' = holders \ {r}
            /\ inFlight' = inFlight - 1
            /\ UNCHANGED <<waiters, timer, proc>>
       ELSE LET w == Head(waiters) IN
            /\ holders' = (holders \ {r}) \cup {w}
            /\ waiters' = Tail(waiters)
            /\ timer' = timer \ {w}
            /\ inFlight' = inFlight - 1
            /\ Reply(w, "granted")

\* Deviation: the caller that came last is admitted first.
FreeToLast(r, rest) ==
    /\ inbox' = rest
    /\ IF waiters = <<>>
       THEN /\ holders' = holders \ {r}
            /\ inFlight' = inFlight - 1
            /\ UNCHANGED <<waiters, timer, proc>>
       ELSE LET w == waiters[Len(waiters)] IN
            /\ holders' = (holders \ {r}) \cup {w}
            /\ waiters' = SubSeq(waiters, 1, Len(waiters) - 1)
            /\ timer' = timer \ {w}
            /\ UNCHANGED inFlight
            /\ Reply(w, "granted")

(***************************************************************************)
(* A slot is freed and the longest waiter gets it (drain_waiter/1); its    *)
(* timer is cancelled, which does not take back a message already sent.    *)
(***************************************************************************)
Free(r, rest) ==
    /\ inbox' = rest
    /\ IF waiters = <<>>
       THEN /\ holders' = holders \ {r}
            /\ inFlight' = inFlight - 1
            /\ UNCHANGED <<waiters, timer, proc>>
       ELSE LET w == Head(waiters) IN
            /\ holders' = (holders \ {r}) \cup {w}
            /\ waiters' = Tail(waiters)
            /\ timer' = timer \ {w}
            /\ UNCHANGED inFlight
            /\ Reply(w, "granted")

\* demonitor(_, [flush]) takes the 'DOWN' out of the mailbox.
Flushed(r) == Without(Tail(inbox), <<"down", r>>)

Ignore ==
    /\ inbox' = Tail(inbox)
    /\ UNCHANGED <<holders, inFlight, waiters, timer, proc>>

Release(r) ==
    /\ Receive("release", r)
    /\ IF r \in holders THEN Free(r, Flushed(r)) ELSE Ignore
    /\ UNCHANGED <<running, depthMax>>

\* Deviation: only waiters are dropped.
DownWaiter(r) ==
    /\ Receive("down", r)
    /\ inbox' = Tail(inbox)
    /\ waiters' = Without(waiters, r)
    /\ UNCHANGED <<holders, inFlight, timer, proc, running, depthMax>>

Down(r) ==
    /\ Receive("down", r)
    /\ IF r \in holders
       THEN Free(r, Tail(inbox))
       ELSE /\ inbox' = Tail(inbox)
            /\ waiters' = Without(waiters, r)
            /\ UNCHANGED <<holders, inFlight, timer, proc>>
    /\ UNCHANGED <<running, depthMax>>

\* Deviation: the caller is not told that its time is up.
WaiterTimeoutSilent(r) ==
    /\ Receive("timeout", r)
    /\ IF r \in Waiting
       THEN /\ inbox' = Flushed(r)
            /\ waiters' = Without(waiters, r)
            /\ UNCHANGED <<holders, inFlight, timer, proc>>
       ELSE Ignore
    /\ UNCHANGED <<running, depthMax>>

\* A timer that fired before its waiter was admitted finds no waiter.
WaiterTimeout(r) ==
    /\ Receive("timeout", r)
    /\ IF r \in Waiting
       THEN /\ inbox' = Flushed(r)
            /\ waiters' = Without(waiters, r)
            /\ Reply(r, "exited")
            /\ UNCHANGED <<holders, inFlight, timer>>
       ELSE Ignore
    /\ UNCHANGED <<running, depthMax>>

ServerStep ==
    \E r \in Requests :
        Grant(r) \/ Refuse(r) \/ Park(r) \/ Release(r) \/ Down(r) \/ WaiterTimeout(r)

CallerStep(r) ==
    \/ Call(r) \/ GiveUp(r) \/ AdmitFails(r) \/ Admit(r)
    \/ Finish(r) \/ HandlerKilled(r) \/ Recycle(r)

Next ==
    \/ ServerStep
    \/ \E r \in Requests : CallerStep(r) \/ TimerFires(r)

Spec == Init /\ [][Next]_vars

(***************************************************************************)
(* Fairness: the server handles its mailbox and timers fire.  Nothing      *)
(* makes a caller exit or an inference end.                                *)
(***************************************************************************)
FairSpec ==
    /\ Spec
    /\ WF_vars(ServerStep)
    /\ \A r \in Requests : WF_vars(TimerFires(r))

--------------------------------------------------------------------------------
\* The count that admission reads is the number of slots taken, and never
\* more than the configured ones, whichever of release, 'DOWN' and the
\* hand-over to a waiter freed a slot.
SlotsExact == inFlight = Cardinality(holders) /\ inFlight <= Concurrency

\* Nobody waits while a slot is free.
WorkConserving == waiters # <<>> => inFlight = Concurrency

\* A slot belongs to a process that can still release it, or its release or
\* the 'DOWN' of its process is on the way: no exit leaks a slot.
SlotAccounted ==
    \A r \in holders : \/ proc[r] = "granted"
                       \/ <<"release", r>> \in Elems(inbox)
                       \/ <<"down", r>> \in Elems(inbox)

\* A parked caller whose process is gone is about to be dropped, and one
\* that lives is going to be answered in bounded time.
WaiterAccounted ==
    \A r \in Waiting : IF proc[r] = "exited"
                       THEN <<"down", r>> \in Elems(inbox)
                       ELSE r \in timer \/ <<"timeout", r>> \in Elems(inbox)

\* A caller that was let in and is alive keeps its slot: no message that was
\* already in the mailbox takes it away.
GrantedHold == \A r \in Requests : proc[r] = "granted" => r \in holders

\* The server and its callers agree on who holds a slot and who waits,
\* whatever is still in the mailbox.
CallersAccounted == SlotAccounted /\ WaiterAccounted /\ GrantedHold

\* Seen without its mailbox the queue is a pool of slots with a line: slots
\* are never more than the configured ones nor free beside a waiting caller,
\* nobody overtakes, and who gives up leaves the order of the others alone.
Pool == INSTANCE SlotPool WITH
    Users <- Requests, Slots <- Concurrency, Places <- Depths,
    holding <- holders, line <- waiters, places <- depthMax
ImplementsPool == Pool!PoolSpec

\* "concurrency=1 means at most one inference per model at a time": as many
\* inferences as slots.
InferencesBounded == Cardinality(running) <= Concurrency

\* A caller of acquire/2 gets an answer even if no slot is ever freed.
CallerAnswered == \A r \in Requests : proc[r] = "calling" ~> proc[r] # "calling"

\* The slot of a process that is gone is freed.
SlotsReturn ==
    \A r \in Requests :
        (r \in holders /\ proc[r] = "exited") ~> (r \notin holders)
================================================================================
