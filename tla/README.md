# A TLA+ model of barrel_inference

barrel_inference is an Erlang/OTP engine for llama.cpp with an HTTP daemon in
front of it. This directory holds TLA+ modules of its concurrent core, the TLC
configurations that check them on small instances, and theorems that TLAPS
proves for every instance. `PROJECT.json` maps each definition to the lines it
is translated from.

Paths below are short: `model.erl` is
`src/apps/barrel_inference/src/barrel_inference_model.erl`, `queue.erl` is
`src/apps/barrel_inference_server/src/barrel_inference_server_queue.erl`, and so
on.

## 1. The system

### Components

| component | state | operations |
|---|---|---|
| **KV-cache meta server** (`cache_meta_srv.erl`) | rows by key, reservations, claims of readers, parked callers, pinned keys, the live key | reserve_save, check_reservation, mark_published, announce_saved, cancel_reservation, checkout/checkin, lookup_exact_or_wait, pin_row, mark_live, evict_bytes, gc, 'DOWN', TTL sweep |
| **Publish protocol** (`cache_writer.erl`, `cache_disk_srv.erl`) | temporary file, `.kvc` file, writer slots | do_save in stages: reserve, write and sync the temporary file, check, link(2), sync the directory, validate, mark, announce; load, delete, start-up scan |
| Cache facade, keys, policy, file format (`cache.erl`, `cache_key.erl`, `cache_policy.erl`, `cache_kvc.erl`) | none | dispatch to the tiers, hashing, trimming of prompts and ladder boundaries, (de)serialisation |
| RAM and ramfile tiers, counters (`cache_ram.erl`, `cache_ramfile_srv.erl`, `cache_counters.erl`) | in-memory blobs | put, get, statistics |
| **Model process** (`model.erl`, a gen_statem) | req_table, idle_seq_ids, session_seq with what each session has stored, FIFO of parked admissions, per request its prefill cursor, ladder, context tokens | admit, continue, end_session, reset_session, cancel, verify, embed, evict, tick |
| **Backend and NIF** (`model_llama.erl`, `barrel_inference_nif.c`) | models, contexts, adapters, samplers with their mutexes and counters; KV cells, next_pos and last_logits_idx per sequence; abort flag and deadline of a decode | load, free and collect each; step, seq_rm, kv_pack, kv_unpack, prefill, decode_one, embed, forward_with_argmax, set_adapters, request_abort |
| Registry, in-flight counters, supervision (`registry.erl`, `inflight.erl`, `model_sup.erl`) | names, counts | register, unregister, 'DOWN' |
| Memory-pressure scheduler (`scheduler.erl`, `pressure*.erl`) | watermark state | sample, evict checkpoints, then models |
| **Admission queue** (`queue.erl`), with its callers `pipeline.erl` and the HTTP handlers | slots taken, waiters, monitors, timers | acquire, release, waiter_timeout, 'DOWN' |
| **Model lifecycle** (`keepalive.erl`, `loader.erl`, `memory.erl`, server `model_evictor.erl`, the loaders of `config.erl`) | active counts, unload timers, loaders with their subscribers, victims | request_begin/end, unload, load with coalescing, make_room, evict_one |
| Store and downloads (`models_store.erl`, `fetch*.erl`, `pull*.erl`) | manifests, partial files, coalesced callers | fetch, resume, cancel, put, delete |
| Sessions and responses (`session.erl`, `session_state.erl`, `response_store.erl`) | key-value tables with expiry | put, get, sweep |
| API dialects, tools, MCP, search (`h_*.erl`, `translate.erl`, `tool_*.erl`, `mcp*.erl`) | per request | parsing, streaming, tool batches |
| Boot, configuration, metrics, CLI | configuration | reads and reports |

The components in bold are modelled. `PROJECT.json` gives the status of each
and what is left out of it.

### How they interact

An HTTP handler starts a pipeline worker, which acquires a slot of the model's
queue, admits the request to the model process and exits; the handler then
receives tokens from the model process and a copy of the slot to release. The
model process hands the request a sequence, consults the meta server for the
longest stored prefix, unpacks that checkpoint, and steps all its requests
together, one batch per tick, each tick a message to itself. Saves run the
publish protocol *in the model process*, calling the meta server at each stage.
The meta server monitors writers, readers and parked callers. Everything is
message passing between gen_servers, except for ETS tables, the file system and
the native objects, which NIFs on several scheduler threads reach at once.

Before it acquires, the pipeline worker asks the config server for the model,
which starts a loader for it or subscribes the worker to the one that is there.
The loader's own worker asks the keepalive server which models are idle, has it unload
some until the new one fits, and loads. Handlers tell keepalive when a request
begins and ends; keepalive unloads a model that has been idle for long enough,
and the memory-pressure scheduler may ask it to do so earlier.

### What is hard

- Writers and readers exit at any step; a reservation carries a time to live; the
  meta server restarts and forgets everything but the files.
- Two writers of one key meet at link(2) with only a reservation between them.
- Timers and 'DOWN' messages are already in a mailbox when what they are about
  has changed.
- A model's sequences are shared by one-off requests and by sessions that pin
  them between turns, and are cut, unpacked over and cleared by admission,
  resets, failures and saves.
- A batch holds rows of many requests; what a sequence samples next is an index
  into the last batch.
- A native object may be freed explicitly, by garbage collection on any thread, or
  by the last of its users, while other threads are inside calls on it.
- A model is unloaded on a count of requests that is kept by casts from handlers
  which may be abandoned at any point.

### What makes each component correct

| component | properties |
|---|---|
| meta server and publish protocol | a placeholder row is always owned; the refcount is exact; a claimed row is published and readable; a row is backed by a file; pins agree; nobody is parked on a published key; eviction is legal; of two live writers that meet in the link window one has been overtaken; a save leaves no temporary file; it ends; the index implements its contract |
| admission queue | the count is exact, within its bound and conserves work; no slot leaks and no waiter is forgotten; it implements a pool of slots with one line; every caller is answered |
| model process: scheduling | sequences are conserved and exclusive; every caller is accounted for and answered; a tick is on its way while anything is pending; cells never leak between owners |
| model process: tokens | context tokens agree with cells and positions; a sequence samples its own logits; checkpoints hold what they are saved under; a batch leaves a request out only when it is full; sharing batches, rows, cells and a cache is not observable |
| native resources | nothing is used after it was freed or freed twice; objects go once, not under a call and after what was made in them; a deferred free happens when the last user goes; no two calls wait for each other; a decode is interrupted for its own reasons only |
| lifecycle | the count of a model's requests is exact; no idle unload takes a model from a counted request; an idle model is unloaded; a load tells all its subscribers; a dead model is forgotten |

`PROJECT.json` lists the hazards of the code one by one, at the line where each
bites, with the property that covers it or the reason why none does.

## 2. The modules

| module | what it models |
|---|---|
| `CacheMeta` | the handlers of the meta server, one operator per request, over `row`, `reservation`, `claim`, `waiters`, `pinned`, `liveKey`, `file`, `dead` |
| `CacheContract` | what the index promises its readers: keys are published, held, let go of and withdrawn; a held key stays |
| `CachePublish` | `CacheMeta` with the model processes that run the publish protocol and the read path; implements `CacheContract` |
| `SlotPool` | what the queue promises its callers: slots are taken while some are free, otherwise callers line up, and a slot given back goes to the head of the line |
| `ServerQueue` | the queue server with an explicit mailbox, and its callers; implements `SlotPool` |
| `SeqScheduler` | the model process: admission, sequences, sessions, parked callers, ticks, cancellation, recovery, stop |
| `SoloContexts` | what a batch promises the sequences in it: each goes the way it would go with a context to itself |
| `StepBatch` | the same process at the level of tokens: batches, cells, positions, logits, ladders, checkpoints; implements `SoloContexts` |
| `ObjectLifetimes` | what the native resources promise llama.cpp: objects are made, used and destroyed once, not under a call, and not before what was made in them |
| `NifResources` | the native resources: wrappers, objects, references, mutexes, the threads inside NIFs, destructors, the interrupt of a decode; implements `ObjectLifetimes` |
| `ModelLifecycle` | loaders and their workers, the config server's table, requests from subscription to cleanup, keepalive, the evictor |
| `MC...` | instances for TLC: small sets, symmetry |
| `...Proofs` | theorems about the module of that name (`CacheProofs`, `CacheIndexProofs` and `CacheFileProofs` are about `CachePublish`) |

### CacheMeta and CachePublish

An action is one call to the server, one file operation or one validation;
`pc[c]` says where client `c` stands in `do_save`, in a read or in a wait. The
handler of a call is the operator of that name, the cleanup after a dead writer
(`cleanup_stale_reservation`, with the validation and adoption of a file it may
have linked) included. `Crash` is the exit of a model process at any step, and
`WriterDown`, `ReaderDown` and `WaiterDown` the 'DOWN' messages the server gets
afterwards. `Restart` is a restart of the meta server.

Abstractions:
- A token of a reservation is a member of a small set, reused once nobody knows it.
- A file is a plain checkpoint, a prefix checkpoint, absent or corrupt. Writers
  never produce a corrupt one here; what the code does when it meets one is
  modelled.
- `lapsed` stands for `expires_ns =< monotonic_ns()`, and the TTL sweep takes a
  lapsed reservation. `StaleAuthority` says what may end a reservation while its
  writer is *inside the link window* (from the answer of check_reservation to
  that of mark_published): nothing, a lapse, a restart of the server.
  Outside the window both may happen at any time. `Overtaken(c)` says that a reservation ended there.
- link(2) fails with eexist, or in any other way (`PublishFails`), which ends the save.
- Eviction may choose any legal victims: the order by age and frequency is left
  open, the order by protection is not.
- One disk tier. The status `evicting` is never set by the code, and a placeholder row
  without a reservation is unreachable (`PlaceholdersReserved` proves it).
- Not here: the writer's semaphore, the start-up scan of the disk server,
  insert_available.

### ServerQueue

A request acquires once, so its name stands for the waiter's reference, the
slot, the monitor and the timer. `inbox` is the server's mailbox; `Grant`,
`Refuse`, `Park`, `Release`, `Down` and `WaiterTimeout` handle its head.
Callers may give up, be killed, fail to admit; a pipeline worker exits once the
engine has admitted its request (`Admit`), and the handler lives on.
`Recycle` reuses the name of a request that has left no trace.

`Pool` maps the server to `SlotPool`: the holders are the requests with a slot that the server
has not taken back, the line is `waiters`. A parked caller whose 'DOWN' or timer the server has not
handled yet is still in the line, and may be handed a slot, which then comes back and goes on.

### SeqScheduler

An action is one event of the gen_statem. `Admit` has the five outcomes of the
code (sticky, diverged, fresh, by reclaiming an idle session's sequence, parked).
`Tick` is `step_tick`: cancellations are honoured, a batch is stepped (or fails
and the context is renewed), what is done leaves its sequence, parked callers are
dispatched, the next tick is cast. What a step computes is open: it may end any
requests in flight. `cells[q]` is the set of owners whose cells sequence `q`
holds. The pool's LIFO order and the age of pins are left open.
`Serialised` says that no caller overlaps the first turns of one session, which
the code leaves to its callers (`model.erl:1363-1368`). `ticks` saturates at
`MaxTicks`.

### StepBatch

The tokens of `SeqScheduler`'s sequences, counted instead of named: the end of a
prompt, the boundaries of its ladder, context tokens, cells, positions. A `Tick` takes one
token for each decoder and slices the prompts into what is left of the budget,
lays the rows out as `nif_step` does, moves `last_logits_idx`, applies the results,
saves at ladder boundaries, on continuing and on finishing, and releases or pins
what is done. Which decoders stop is open, except that a request at `MaxLen` has reached
its target. The cache keeps any `MaxSaved` of the checkpoints it was given.
Positions that do not follow the cells are an error of the context: the step is
not enabled, and only `Recover` is.
The dispatch of a parked caller appears as an admission after the tick.

`Waived` names assumptions that are *not* made: that a session's turn brings a new
token (`new_tail`), that no thinking markers are configured (`no_markers`), that verify/4 is not called
while a session pins sequence 0 (`free_verify`). `BatchAssumption` relates the budget neither to the
number of sequences nor to the chunk, as the code enforces nothing of the kind: with as many decoders as rows
the step is not enabled, and a prompt may find no row left (`apply_batch_budget`, `slice_prefills`). `ColdPrompts` and
`Tails` say which prompts come: their length and ladder, and how long they are behind what is kept of a session or a checkpoint.

`SoloContexts` has no cells, positions, rows, budget, ladders or batches: a context has a text, which grows
behind its end, is taken up again by the next turn, or is replaced by a checkpoint but for its last token; it samples from the
logits of its own text only; and what is checkpointed is the whole text of some context. `StepBatch` maps to it so (`Text`,
`Ready`, `Stored`): the text of a sequence that is in flight or pinned is the cells it has, an idle sequence has none
whatever is left in its cells, the logits of a sequence are at hand if the row it points to is its own, and the
stored texts are the cells of the checkpoints. So a token too few or too many in a save, cells of the
previous user, or a row that another sequence has written since is a step that no context of its own would take.

### NifResources

Every resource is a wrapper, which garbage collection destroys when no term, no
running call and no other wrapper refers to it, around a native object with a pointer
of its own, which an explicit free sets to NULL. `frees` counts how often the
object was freed, including the adapters that `llama_model_free` deletes. A NIF
that takes one mutex and changes what is under it before it returns is one
action. nif_step, the decodes, nif_set_adapters and nif_free_context take several or hold one
through a decode: they are one action per mutex, and `pc[t]` says where thread `t`
stands. Any thread may run a destructor between calls. A call that is refused
because its pointer is NULL changes nothing, and has an action only where it has mutexes to release.

`abort` and `deadline` are the fields that the abort callback reads. `mine`
records for each decode that arms whether an abort was requested or its own deadline passed
since it began.

`ObjectLifetimes` has none of the wrappers, terms, mutexes and counters. `NifResources` maps to it so: an object is
live while its pointer is set (`Live`) and gone once it was freed (`Gone`); a context or adapter was made in the model it
refers to (`Within`; a sampler chain does not need its context, which may be freed first); a thread is inside a call on the samplers and adapters it has locked and, from the lock of a context on, on
that context and its model (`Using`), the model although no mutex of it is held. The model is what the deferred release is for:
only the counters stand between `llama_model_free` and a decode in a context of that model.

Abstractions: the chain that nif_decode_one caches in the context, and its compiled
grammars, live and die with it and are one object with it; calls that only read a model or
a context under one mutex (tokenise, templates, sizes, packing and cutting cells,
configuring a sampler) change nothing here; which adapters are installed on a context is not tracked, since the model
process installs the remaining set again right after it frees one. The removal
of an adapter from llama.cpp's own set of the model's adapters is part of the free; the code does it without the
model's mutex, so that it may race with an insertion, which the model does not show. Wrappers are not reused after they are dead.

### ModelLifecycle

A model is `running` while its process is registered and alive. A loader and its
worker are one record (`loader`, `work`, `victim`, `tried`) with the subscribe
casts in its mailbox (`sent`). A request is its pipeline worker (waiting for the load) and
its handler, which casts request_begin when the worker tells it that the model is there, and
request_end in cleanup/1. The two casts of a handler arrive in order
(`cast[r]`); casts of different handlers in any order, and a request may be given up at any point
before, between or after them. `entry`, `clock` and `fired` are keepalive's entry, the running
timer, and the timer's message in its mailbox.

Abstractions: memory is a number of models (`Capacity`), the order of victims is left
open, a keep-alive is zero, a time or for ever. The probe may not know what is available, and then the load goes on as if the model fitted (`MakeRoom`). `LoadFails` is every
way in which a worker ends without a model: an error, no round left, a crash. It crashes in the middle of an eviction if keepalive
does not answer unload_sync in five seconds; keepalive then handles the call all the same (`UnloadLate`). `UnloadIdle` may
come at any time and on any model that is idle *when keepalive handles it*. `ModelExits`
stands for a crash, for `escalate_unload` and for an Ollama request with keep_alive 0
and no prompt, none of which passes through keepalive. The synchronous ensure_loaded
with its awaiters, progress ticks, and the second attempt of `do_load` on a stale registry row are left
out, and so is `unload_now`, which has no caller. `dropped[m]` records that an entry was dropped while requests were counted in
it, which a victim of make_room may suffer, until the last of them is over.

## 3. The runs

| run | instance | shows |
|---|---|---|
| `CachePublish` | 2 clients, 2 keys in one namespace, 2 tokens, failing directory syncs, nothing ends a reservation in the link window; symmetry of clients and of keys | five invariants, `RowBacked` among them, and `EvictionLegal` |
| `CachePublishLive` | 1 key, lapses and restarts inside the link window too, fair | `LinkExclusive`, `NobodyForgotten` and the refinement of `CacheContract`; saves end, the dead are forgotten, parked callers are answered |
| `ServerQueue` | 3 requests, 2 of them pipelined, 1 slot, queues of 0 and 2 places, fair | two invariants, the refinement of `SlotPool`, two liveness properties |
| `ServerQueueBound` | a queue of 1 place | finding 1 |
| `SeqScheduler` | 3 requests, 2 sessions, 2 sequences, serialised first turns, fair | five invariants, maximal dispatch, every caller is answered |
| `SeqOverlap` | 2 requests, 1 session, not serialised | finding 2 |
| `StepBatch` | 2 sequences, batches and chunks of 3, prompts of 3 or of 2 with a ladder, tails of 0 and 1, contexts up to 4, 1 checkpoint | three invariants, `PutOffWhenFull` and the refinement of `SoloContexts` |
| `StaleLogits` | the same, with turns that bring no token | finding 3 |
| `NifResources` | 2 threads, 1 model, 1 context, 2 adapters, 1 sampler, a decode budget; symmetry of threads | five invariants and the refinement of `ObjectLifetimes` |
| `ModelLifecycle` | 2 models of which 1 fits, 2 requests, keep-alives of zero and of a time, models that exit; symmetry of both | `CountsExact`, `IdleUnloadSpares`, `NobodyStuck` |
| `ModelLifecycleLive` | the same with keep-alives for ever and no exits, fair | `SubscribersAnswered`, `DeadModelForgotten` |
| `UnloadTimer` | 1 model, 1 request, fair timers | finding 4 |

Why these bounds are enough to be interesting. Two clients are a writer that
loses its reservation and the one that takes it, or a writer and a reader; a
second key gives eviction a choice between a protected and an unprotected row and
lets a pin move. Three requests on one slot are a holder and two waiters, so that
a slot can be handed to a waiter that has just died and on to the next. Three
callers and two sessions on two sequences reach every outcome of admission: reclaiming the
sequence of one session for the other's caller while a third is parked. With batches of three
a decoder shares one with a whole prompt or with a prompt cut by the budget, a prompt of three fills it and puts the other
sequence off (as n_batch up to 64 does with the default chunk of `max(64, n_batch div 4)`), and a
prompt of two has an inner boundary on its ladder. `CachePublishLive` has one key but everything that may end
a reservation inside the link window, so that two writers meet at one path and an existing file is replaced. Two threads on one model are a call and a
free, or two destructors that race for its last reference; two adapters are what two
set_adapters calls can lock in opposite orders. Two models of which one fits make every load
an eviction, with two requests that ask for the same model or for different ones. Symmetry is used only in runs
without liveness. The theorems below lift the safety properties to every instance.

Deadlock is checked in every run that must pass, except in `NifResources`, where the program may
have freed everything and have nothing left to call; that calls do not wait for
each other is its invariant `SomeCallAdvances`. A type invariant is proved for each of the modules and is not a run's property.

### Fairness

- `CachePublish`: for each client, weak fairness of its next step inside a save (`SaveRuns`) or a
  read (`ReadRuns`), of the 'DOWN' messages that are about it and of its timer: the
  Erlang scheduler runs processes that have work, and monitors and timers fire for each
  process. Nothing makes a client begin an operation, die, or a reservation lapse.
- `ServerQueue`: weak fairness of the server's handling of its mailbox and of the
  timers. No caller has to exit and no inference has to end, so `CallerAnswered`
  holds with every slot taken for ever.
- `SeqScheduler`: weak fairness of `Tick` (the cast is in the mailbox) and of the end of
  each request in flight. The latter is the model's assumption about tokens: a
  response target bounds a decode, and a batch leaves a request out only if prompts on lower sequences fill
  it (`PutOffWhenFull`). That this comes to an end needs room for everybody, `Budget > Chunk * (NSeqMax - 1)`, under
  which `EveryoneIsFed` proves that every batch feeds all. The daemon's defaults have it: `n_seq_max` 4
  (`models.erl:69`), `n_batch` 512 (`models.erl:401`), a chunk of 128. With `n_seq_max` of 5 or more, or a chunk set by hand, an
  endless stream of prompts on lower sequences can starve one on a higher, and `CallerAnswered` is not promised.
- `ModelLifecycle`, `FairSpec`: the config server and the loaders handle their mailboxes, and a
  load ends one way or the other (`load_model` returns, or its worker crashes and is monitored). No request has to come, to be
  handled or to end. Under these alone a loader is replaced and subscribers are told; requests whose
  subscription reached a loader that was already stopping are not, see below.
  `TimedSpec`, of `UnloadTimer` only: timers fire and keepalive handles its mailbox.
- `StepBatch` and `NifResources` claim no liveness.

## 4. The findings

1. `ServerQueueBound`, `InferencesBounded` (`pipeline.erl:137`): the slot belongs to the pipeline
   worker, which exits when the request is admitted; the 'DOWN' frees the slot while the
   inference runs. `deployment.md` promises at most `concurrency` inferences.
2. `SeqOverlap`, `SeqsConserved` (`model.erl:1368`): two first turns of one session at once lose
   a sequence; the documents say the second is refused as `sticky_busy`.
3. `StaleLogits`, `LogitsOwn` (`model.erl:1752`): a session's turn without a new token samples from a row
   that another sequence has written since.
4. `UnloadTimer`, `ArmedTimerEnds` (`keepalive.erl:199`): the timer message never carries the reference that the
   entry keeps, so that a model with a keep-alive time is never unloaded by it. `TimersUnloadNothing` proves it for
   any models, keep-alives and requests.

Disagreements between code and documents that no run repeats:

- `cache_meta_srv.erl:644`: a writer that exits between link(2) and mark_published leaves a valid
  file that no row mentions, although `cache_writer.erl:359-362` speaks of recovering the bytes.
- `cache_meta_srv.erl:619`: a reservation that lapses in the link window lets two writers of a key race, although
  `cache_writer.erl:299-301` says that the check right before link "prevents a slow writer ... from publishing under stale
  authority". `RowBacked` fails as soon as `StaleAuthority` has "lapse": a writer that was overtaken after its check
  deletes the file of a row that the other has announced, if it does not validate; hence the hypothesis of its theorem. `LinkExclusive`,
  the contract with the readers and liveness hold regardless.
- `model.erl:1309-1316` and `3103-3117`: a caller that finds every sequence pinned reclaims the least recently used idle
  one. `clients.md:475-476` and `714-719`, the comment at the server's `loader.erl:395-397`,
  `barrel_inference_engine_hardening_prompt.md:94-96` and an old note in the server's `CHANGELOG.md:444-449` say that a second session
  deadlocks on admission with `n_seq_max = 1`, and `request-lifecycle.md:131-133` that a pin lasts until the session
  diverges or is ended. The code is newer: `DispatchMaximal` and `CallerAnswered` assert the reclaim, and would fail of
  a system as the guides describe it.
- `model.erl:2502-2504` (and the module's doc, `73-74`): a prefill that finds the budget exhausted "resumes next tick". It may be
  put off again, by every tick, as long as prompts keep coming on lower sequences.
- `model.erl:2598`: with thinking markers a checkpoint is saved under fewer tokens than it has cells.
  `CheckpointExact` fails as soon as `Waived` has "no_markers".
- `model_llama.erl:340`: verify/4 overwrites the cells of a session that is pinned on sequence 0. `CellsMatch` fails as
  soon as `Waived` has "free_verify".
- `barrel_inference_nif.c:2043` and `:2922`: nif_prefill and nif_forward_with_argmax do not arm, so that an
  abort or a deadline left behind by an earlier decode interrupts them (`DecodeInterrupted` at
  "prefill"), while `barrel_inference_nif.erl:167-168` says the flag is cleared before the next decode. `ArmedEndsOwn` speaks of armed decodes only.
- `loader.erl:226`: make_room unloads its victim with unload_sync, which does not look at the count
  again, while `memory.erl:297-301` says the caller must (`UnloadVictim` against `UnloadIdle`).
- `loader.erl:136`: a failed loader stays and repeats its old error, although `loader.erl:4-5` says that it exits after
  the reply.
- `config.erl:482`: a subscription that reaches a loader which is just stopping is lost, and its request ends only by
  its deadline (`LoadTimeout`), although `config.erl:258-266` promises the done message exactly once.

## 5. The proofs

The safety theorems are of the form `Spec => []Inv` or `Spec => [][A]_vars`, the refinements
`Spec => Abstract!Spec`, for all values of the constants that satisfy the named assumptions.
Each rests on an inductive invariant, checked with TLC first; the proofs have one step per
action and, under it, one per conjunct that the action can disturb.

**Liveness.** Where a property ends within a bounded number of fair steps it is a theorem of the
form `FairSpec /\ []CanGoOn => Liveness` for the cache and `FairSpec /\ []NobodyStuck => Liveness` for the loaders. The safety part is proved: which states lie
between the cause and its end, that no step leads out of them except to the end, and that the fair
step leads on (`SaveMoves`, `GoneSteps` and the like). What the provers cannot reason about is
ENABLED. That the step which fairness speaks of can be taken in each of those states is the
hypothesis, and an invariant of a run, `CanGoOn` (as part of `NobodyForgotten`) of `CachePublishLive` and `NobodyStuck` of
`ModelLifecycle`: each of its conjuncts says that somebody who is waited for can move. So the theorem says that
nothing but a process that cannot move stands between a save and its end, and TLC that on the
instances there is no such process.

**CachePublish.** Three layers:
- `ClientInv` (`CacheProofs`): types, which processes hold a key, a claim or a temporary file at
  which stage. Gives `TypeCorrect` and `NoTmpIsLeft`.
- `IndexInv` (`CacheIndexProofs`): the rows against reservations, claims, pins and parked
  callers. `MetaMove` lists what one step may do to the server's state, so that the index is
  proved once for the handlers and not for every client action. Gives `PlaceholdersReserved`,
  `RefcountsExact`, `PinsConsistent`, `NoWaiterStranded`, `EvictionIsLegal`, and the refinement
  `ContractImplemented`. None of these needs a timing
  assumption.
- `SafeInv` (`CacheFileProofs`): who has authority over a path. `LinksExclusive` has no hypothesis about time: a live
  writer in the link window that was not overtaken owns the reservation of its key, a key has one reservation, and only a lapse, a restart
  or the writer itself ends it there. What follows needs more. A live writer in the link window
  owns the reservation of its key, a token has one owner, and what is in the file follows from the stage of
  its writer. `RowBacked` alone is not inductive: that a replaced file cannot be one that was
  announced needs that nobody is overtaken in the link window. Gives `RowsBacked` and
  `ClaimsReadable` (which no run repeats, as it follows from the contract and `RowBacked`) *under the hypothesis* `StaleAuthority = {}`: the code has no fence
  between the reservation and the file system, only a time to live.

Liveness has an invariant of its own, `TiedInv` (`CacheProofs`, `ClientsTied`): a client that is parked, or that
a reservation names, is at the stage of its code at which it should be, or is dead, and this for one key only. So
whatever the meta server keeps for a client ends with the client's next steps, its timer or its 'DOWN'. On it rest `SavesEnd`,
`DeadAreForgotten` and `WaitersAnswered`, without a timing assumption: reservations may lapse and the server may
restart at any point.

**ServerQueue.** `QueueInv`: besides the properties, a request is not both parked and a
holder (`Apart`), is parked once, acquires once, and an idle one has left no trace. Gives
`TypeCorrect`, `SlotsAreExact` and `QueueConservesWork` (which no run repeats, as it follows from the pool: nobody
lines up there, and nobody stays in the line, unless every slot is taken). `HoldInv` adds that a release or
a 'DOWN' is in the mailbox only once its process has exited, where the process of a running inference stands, and
that who was granted a slot holds it until then. On both rest `CallersAreAccounted` and the refinement
`PoolImplemented`: handling a message is a step of the pool, or changes neither its holders nor its line (a late timer,
a second 'DOWN', the release of a slot that is gone). That nobody overtakes and that no slot is created or lost is how the pool is
written. All for any callers, concurrency and depth.

**SeqScheduler.** `SafeInv` (callers, free sequences apart from used ones, pins apart, a pinned
sequence used by its own session only, cells owned) is inductive without assumptions
and gives `TypeCorrect`, `CallersAreAccounted` and `CellsAreOwned`. `ArmedInv` adds that a
tick is on its way while anything is in flight or parked. For a parked caller that needs somebody to be in flight, and
this needs a sequence to be left (`SomeLeft`): finding 2 loses sequences, but never the last one, since
the session that overwrote a pin keeps its own. So `TicksAreArmed` and `NothingIdleBesideParked` (a tick leaves a
caller parked only if no sequence is free or can be reclaimed) hold whatever the callers overlap.
`TurnInv` adds that nothing is lost and a session has one turn at a time; with the hypothesis
`Serialised` it gives `SequencesConserved`, `SessionsExclusive` and `DispatchIsMaximal` (a parked caller means
that every sequence is in flight). That the hypothesis is needed is finding 2.

**StepBatch.** `BatchInv` strengthens the types: a request that is prefilled is short of the end of
its prompt, the boundaries left on its ladder lie ahead, a decoder is short of `MaxLen`, and an idle
process has nothing in flight. The layout of a batch is proved once (`BatchLaidOut`): the room left falls
with the sequence, decoders come first in order of their rank, so that rows exist and are distinct. The
induction over sequences is by least counterexample. On it rest `TypeCorrect`; `CellsAgree` with
`CheckpointsExact`, which hold each other up (a save packs what matches, a warm start unpacks what is exact)
under the hypotheses that no markers are configured and verify/4 stays away from pinned sequences;
`LogitsAreOwn`, if each turn brings a token; and `OnlyFullBatchesPutOff`, for every budget and chunk: where the room is used up,
the last row went to somebody, and it was a prompt on a lower sequence (`SomebodyFills`). `EveryoneIsFed` is what follows if the budget
holds a chunk for each sequence but one and a row more, by counting a chunk for each sequence served before; it is what the fairness of
`SeqScheduler` rests on, and no run repeats it. `BatchImplementsSolo` puts them together under all three hypotheses: an admission,
a cancellation or a reset is `Restart` of one context (`AdmitRestarts`, `LeavesRestart`, `CancelRestarts`), a batch with its saves and
releases is `Feed` (`StepIsFeed`), verify/4 is `Borrow`, a renewed context `Empty`. A warm start is where it needs
`CheckpointsExact` (the text it starts from was somebody's), a batch where it needs `CellsAgree` (the text grows by what was fed) and
`LogitsAreOwn` (who samples has its logits at hand). Finding 3 shows that the hypothesis about turns is needed.

**NifResources.** `IInv` says where a thread and its mutexes can be at each stage and the other way round
(`CallShape`, `LockShape`, `HolderShape`), that set_adapters climbs the addresses (`LockOrder`), what the state of a wrapper says of
its object, its term and its references (`WrapperShape`, `Referenced`), that an object under a held mutex is alive
(`LockedAlive`), that the counters count (`UsersCounted`), that a model's object is there while somebody is counted in it
(`ModelKept`), and what may have set the flag of an armed decode (`Interrupts`). The counters are the heart:
a thread that has freed a context but not yet told the model must still be counted, or the model goes under it. On them rest
`NothingUsedAfterFree`, `EachFreedOnce`, `DeferredIsCarriedOut` and `NothingAttaches`, and the refinement
`LifetimesImplemented`: a new wrapper is `Make` (`Made`), a destructor or a free is `DestroyAll` of one object
(`OneDestroyed`), for a model whose counters are at zero has neither contexts nor adapters left (`NobodyLeft`), and
all else is a thread that enters or leaves calls (`Touched`). `FreedExactlyOnce`, which the theorem `EachFreedOnce` proves, is not
a property of the run: the refinement checks there that nothing is destroyed twice. `NoDeadlock` is a
least-element argument: of the threads that wait inside set_adapters the one that waits for the highest address
waits for somebody who does not wait for an adapter.

**ModelLifecycle.** `LifecycleInv`: only a worker in the middle of an eviction has a victim, what a request has
cast follows from where it is (`Told`), an entry that is not tracked counts nobody, the count is exact unless the entry was dropped under requests, and is then at most that
of the requests that are left (`CountsBelow`), so that it is exact again when none is. Gives
`TypeCorrect`, `KeepaliveCounts`, `IdleOnly`. `IdleOnly` is about steps: an idle unload finds zero in the
entry, and by the exact count there is nobody behind it. `LoadersAttended` is the safety behind `NobodyStuck`: a loader
has a worker or a result exactly while it loads, has subscribers only then, and a cast waits only in the mailbox of
a loader that lives and is of a request that asked for this model. `LoadersForget` is a liveness theorem like those
above. `SubscribersTold` goes through three stages: the worker makes room, loads, and has a result that the loader
finalizes. While anybody waits the loader is in one of them and only goes forward (`StageSteps`), and what it finalizes it tells all
its subscribers (`FinalizeTells`). That making room comes to an end (`RoomIsMade`) is a hypothesis, as the worker unloads one victim after
the other; with memory-aware loading off, which is the default (`memory.erl:30`), nobody is unloaded (`NoVictimsKept`), and
`SubscribersToldUnaware` has no such hypothesis. `TimersUnloadNothing` rests on the types alone: the reference that a timer message carries is
never the one the entry keeps.

**Model-checked only.** `CanGoOn`, and with it `NobodyForgotten`, and `NobodyStuck`, for they speak of ENABLED (the rest of
`NobodyForgotten` is `ClientsTied`). `CallerAnswered` of `ServerQueue` and
`SlotsReturn`, where a message comes to the head of a mailbox of any length; `CallerAnswered` of
`SeqScheduler`, where requests ahead in the line finish one by one; and that making room ends under memory-aware
loading, where a worker unloads one victim after the other (`SubscribersAnswered` in `ModelLifecycleLive`, with
`SubscribersTold` for the rest of the way). Each needs an induction over a length or a set whose size is not fixed,
and the rules for that take an operator as a parameter, which the provers cannot instantiate. The head of the
line of `SeqScheduler` needs moreover that *some* request in flight ends, from each of them being fair: an existential
over temporal formulas that the decision procedure for temporal logic does not have. Findings 1 to 3 are
counterexamples only.

## 6. What is not modelled, and why

- The start-up scan of the disk server, `insert_available`, files damaged between two steps, the writer's semaphore:
  they concern a restart of the disk server under live readers and writers, which `CachePublish`, with a
  restart of the meta server already among its actions, does not have.
- The save policy: trims and ladder boundaries are arithmetic on lengths. `StepBatch` takes every ladder.
- `registry.erl`, `inflight.erl`: tables written by the processes they describe; `ModelLifecycle` uses only
  whether a model answers. That the registry does not see a 'DOWN' (`registry.erl:48` monitors from the process that registers
  itself) is absorbed by whereis_name/1, which looks whether the process is alive, and by the second attempt of `do_load`.
- The pressure scheduler's watermarks: what it asks for may happen at any time in `CacheMeta` and `ModelLifecycle`.
- Sizes in bytes: two loads at once may each be admitted into the same free memory (`memory.erl:276`); `ModelLifecycle` allows it too, and
  no property says otherwise.
- Handlers that are killed without cleanup/1: keepalive does not monitor them and has no way back, so `CountsExact` is about
  handlers that clean up.
- A property is silent about what its module leaves out: `CheckpointExact` about thinking tokens, `CellsMatch` about verify/4 under a pinned
  session, `CountsExact` about a model that make_room has unloaded under requests, until these are over, and `IdleUnloadSpares` about
  a request whose begin keepalive has not yet handled.
- Downloads, stored responses, sessions, tools, MCP: tables and HTTP, with little interaction beyond one
  process each.
- Parsing and streaming of the HTTP dialects, tokenisers and chat templates, the byte layout of files, metrics,
  configuration and the command-line client are data transformation or input and output. llama.cpp is
  vendored: of it only what its destructor of a model does to adapters, and when a decode looks at the abort
  callback, is used here.

## 7. Running

    tlc -workers 2 -config CachePublish.cfg MCCachePublish
    tlc -workers 2 -config ServerQueue.cfg MCServerQueue
    tlc -workers 2 -config SeqScheduler.cfg MCSeqScheduler
    tlc -workers 2 -config StepBatch.cfg MCStepBatch
    tlc -workers 2 -config NifResources.cfg MCNifResources
    tlc -workers 2 -config ModelLifecycle.cfg MCModelLifecycle
    tlapm NifResourcesProofs.tla

Each run takes at most a few minutes. The configuration of a run has its name, and its
module is in `PROJECT.json`.
