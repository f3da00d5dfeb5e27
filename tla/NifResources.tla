---------------------------- MODULE NifResources ----------------------------
(***************************************************************************)
(* The native resources of barrel_inference_nif.c: models, contexts, LoRA  *)
(* adapters and sampler chains.  Every one is a BEAM resource (a wrapper   *)
(* that garbage collection destroys) around a llama.cpp object (which an   *)
(* explicit free may release earlier), with a mutex of its own.  NIFs run  *)
(* on several scheduler threads at once, on the same resources.            *)
(*                                                                         *)
(* A NIF that takes one mutex and changes what is under it before it       *)
(* returns is one step.  A NIF that takes several, or that holds one       *)
(* through a decode, is one step per mutex.  A refused call (released      *)
(* pointer, bad argument) changes nothing and has no action of its own.    *)
(***************************************************************************)
EXTENDS Naturals, FiniteSets

CONSTANTS
    Threads,    \* the BEAM scheduler threads that run NIFs and collectors
    Models, Contexts, Adapters, Samplers,   \* wrappers, by resource type
    Addr,       \* the address of each adapter wrapper
    MaxAddr,    \* the largest address
    Budget,     \* whether decode_budget_ns is not 0
    None

Res == Models \cup Contexts \cup Adapters \cup Samplers

ASSUME ResourceAssumption ==
    /\ None \notin Res \cup Threads
    /\ Models \cap (Contexts \cup Adapters \cup Samplers) = {}
    /\ Contexts \cap (Adapters \cup Samplers) = {}
    /\ Adapters \cap Samplers = {}
    /\ IsFiniteSet(Models) /\ IsFiniteSet(Contexts) /\ IsFiniteSet(Adapters)
    /\ IsFiniteSet(Samplers) /\ IsFiniteSet(Threads)
    /\ MaxAddr \in Nat /\ Addr \in [Adapters -> 0..MaxAddr]
    /\ \A a, b \in Adapters : Addr[a] = Addr[b] => a = b
    /\ Budget \in BOOLEAN

VARIABLES
    wrapper,    \* of each resource: "unused", "made", or "dead" once its
                \* destructor has begun
    term,       \* whether some process still holds an Erlang term for it
    ptr,        \* whether the pointer to its native object is not NULL
    frees,      \* how often its native object has been freed (capped at 2)
    parent,     \* model_res of a context or adapter, ctx_res of a sampler
    activeCtx,  \* active_contexts of each model
    activeAdp,  \* active_adapters of each model
    pending,    \* release_pending of each model
    lock,       \* the thread that holds each mutex
    pc,         \* where each thread is
    on,         \* the resource that thread's call works on
    with,       \* the samplers still to be read, or the adapters to install
    abort,      \* abort_flag of each context
    deadline,   \* decode_deadline_ns: "none", "ahead" of now, or "past"
    mine        \* whether an abort was requested, or the deadline it armed
                \* passed, since that thread's decode began (history)

objects == <<wrapper, term, ptr, frees, parent, activeCtx, activeAdp, pending>>
threads == <<pc, on, with>>
interrupt == <<abort, deadline, mine>>
vars == <<objects, lock, threads, interrupt>>

Stages == {"idle", "drop_ctx", "drop_adp", "sample", "sampling", "decode",
           "decode_stop", "prefill", "prefill_stop", "adapters", "install"}

TypeOK ==
    /\ wrapper \in [Res -> {"unused", "made", "dead"}]
    /\ term \in [Res -> BOOLEAN]
    /\ ptr \in [Res -> BOOLEAN]
    /\ frees \in [Res -> 0..2]
    /\ parent \in [Res -> Models \cup Contexts \cup {None}]
    /\ activeCtx \in [Models -> Nat]
    /\ activeAdp \in [Models -> Nat]
    /\ pending \in [Models -> BOOLEAN]
    /\ lock \in [Res -> Threads \cup {None}]
    /\ pc \in [Threads -> Stages]
    /\ on \in [Threads -> Models \cup Contexts \cup {None}]
    /\ with \in [Threads -> SUBSET (Samplers \cup Adapters)]
    /\ abort \in [Contexts -> BOOLEAN]
    /\ deadline \in [Contexts -> {"none", "ahead", "past"}]
    /\ mine \in [Threads -> BOOLEAN]

Init ==
    /\ wrapper = [r \in Res |-> "unused"]
    /\ term = [r \in Res |-> FALSE]
    /\ ptr = [r \in Res |-> FALSE]
    /\ frees = [r \in Res |-> 0]
    /\ parent = [r \in Res |-> None]
    /\ activeCtx = [m \in Models |-> 0]
    /\ activeAdp = [m \in Models |-> 0]
    /\ pending = [m \in Models |-> FALSE]
    /\ lock = [r \in Res |-> None]
    /\ pc = [t \in Threads |-> "idle"]
    /\ on = [t \in Threads |-> None]
    /\ with = [t \in Threads |-> {}]
    /\ abort = [c \in Contexts |-> FALSE]
    /\ deadline = [c \in Contexts |-> "none"]
    /\ mine = [t \in Threads |-> FALSE]

-----------------------------------------------------------------------------
Freed(n) == IF n < 2 THEN n + 1 ELSE n

\* The adapters that llama_model_free(m) deletes: those nobody freed before.
\* An adapter's reference keeps its model, so in fact there are none.
Leftover(m) == {a \in Adapters : parent[a] = m /\ frees[a] = 0}

\* llama_model_free(m), and m->model = NULL
FreeModelObject(m) ==
    /\ frees' = [r \in Res |-> IF r = m \/ r \in Leftover(m)
                               THEN Freed(frees[r]) ELSE frees[r]]
    /\ ptr' = [ptr EXCEPT ![m] = FALSE]

\* a call on resource r may start on thread t: t runs no other call, and the
\* caller holds a term
Callable(t, r) == pc[t] = "idle" /\ term[r]

\* thread t returns to the BEAM and lets go of every mutex it holds
Return(t) ==
    /\ pc' = [pc EXCEPT ![t] = "idle"]
    /\ on' = [on EXCEPT ![t] = None]
    /\ with' = [with EXCEPT ![t] = {}]
    /\ mine' = [mine EXCEPT ![t] = FALSE]
    /\ lock' = [r \in Res |-> IF lock[r] = t THEN None ELSE lock[r]]

Goto(t, stage) == pc' = [pc EXCEPT ![t] = stage]

\* enif_alloc_resource and enif_make_resource: a new wrapper r around a
\* native object, that keeps a reference on p
Wrap(r, p) ==
    /\ wrapper' = [wrapper EXCEPT ![r] = "made"]
    /\ term' = [term EXCEPT ![r] = TRUE]
    /\ ptr' = [ptr EXCEPT ![r] = TRUE]
    /\ parent' = [parent EXCEPT ![r] = p]

\* nif_load_model
LoadModel(t, m) ==
    /\ pc[t] = "idle" /\ wrapper[m] = "unused"
    /\ Wrap(m, None)
    /\ UNCHANGED <<frees, activeCtx, activeAdp, pending, lock, threads, interrupt>>

\* nif_free_model while contexts or adapters use the model: {ok, deferred}
FreeModelDeferred(t, m) ==
    /\ Callable(t, m) /\ lock[m] = None /\ ptr[m]
    /\ activeCtx[m] > 0 \/ activeAdp[m] > 0
    /\ pending' = [pending EXCEPT ![m] = TRUE]
    /\ UNCHANGED <<wrapper, term, ptr, frees, parent, activeCtx, activeAdp,
                   lock, threads, interrupt>>

\* mutant: the release is not deferred
FreeModelAtOnce(t, m) ==
    /\ Callable(t, m) /\ lock[m] = None /\ ptr[m]
    /\ FreeModelObject(m)
    /\ pending' = [pending EXCEPT ![m] = FALSE]
    /\ UNCHANGED <<wrapper, term, parent, activeCtx, activeAdp,
                   lock, threads, interrupt>>

\* mutant: adapters do not keep the model
FreeModelUnderAdapters(t, m) ==
    /\ Callable(t, m) /\ lock[m] = None /\ ptr[m]
    /\ activeCtx[m] = 0
    /\ FreeModelObject(m)
    /\ pending' = [pending EXCEPT ![m] = FALSE]
    /\ UNCHANGED <<wrapper, term, parent, activeCtx, activeAdp,
                   lock, threads, interrupt>>

\* nif_free_model of a model nobody uses
FreeModelNow(t, m) ==
    /\ Callable(t, m) /\ lock[m] = None /\ ptr[m]
    /\ activeCtx[m] = 0 /\ activeAdp[m] = 0
    /\ FreeModelObject(m)
    /\ pending' = [pending EXCEPT ![m] = FALSE]
    /\ UNCHANGED <<wrapper, term, parent, activeCtx, activeAdp,
                   lock, threads, interrupt>>

\* nif_new_context
NewContext(t, m, c) ==
    /\ Callable(t, m) /\ lock[m] = None /\ wrapper[c] = "unused"
    /\ ptr[m] /\ ~pending[m]
    /\ Wrap(c, m)
    /\ activeCtx' = [activeCtx EXCEPT ![m] = @ + 1]
    /\ UNCHANGED <<frees, activeAdp, pending, lock, threads, interrupt>>

\* nif_adapter_load
AdapterLoad(t, m, a) ==
    /\ Callable(t, m) /\ lock[m] = None /\ wrapper[a] = "unused"
    /\ ptr[m] /\ ~pending[m]
    /\ Wrap(a, m)
    /\ activeAdp' = [activeAdp EXCEPT ![m] = @ + 1]
    /\ UNCHANGED <<frees, activeCtx, pending, lock, threads, interrupt>>

\* nif_sampler_new: the chain is built under the context's mutex
SamplerNew(t, c, s) ==
    /\ Callable(t, c) /\ lock[c] = None /\ wrapper[s] = "unused"
    /\ ptr[c]
    /\ Wrap(s, c)
    /\ UNCHANGED <<frees, activeCtx, activeAdp, pending, lock, threads, interrupt>>

\* mutant: model_res is not set to NULL, and the destructor drops it again
FreeContextKeepsModel(t, c) ==
    /\ Callable(t, c) /\ lock[c] = None /\ ptr[c]
    /\ frees' = [frees EXCEPT ![c] = Freed(@)]
    /\ ptr' = [ptr EXCEPT ![c] = FALSE]
    /\ Goto(t, "drop_ctx")
    /\ on' = [on EXCEPT ![t] = parent[c]]
    /\ UNCHANGED <<wrapper, term, parent, activeCtx, activeAdp, pending, lock,
                   with, interrupt>>

\* nif_free_context up to the unlock of c->mu: the call goes on to drop the
\* model reference, with c->model_res already NULL
FreeContext(t, c) ==
    /\ Callable(t, c) /\ lock[c] = None /\ ptr[c]
    /\ frees' = [frees EXCEPT ![c] = Freed(@)]
    /\ ptr' = [ptr EXCEPT ![c] = FALSE]
    /\ parent' = [parent EXCEPT ![c] = None]
    /\ Goto(t, "drop_ctx")
    /\ on' = [on EXCEPT ![t] = parent[c]]
    /\ UNCHANGED <<wrapper, term, activeCtx, activeAdp, pending, lock, with,
                   interrupt>>

\* An explicit free of an adapter or a sampler: the wrapper keeps its reference
\* on the model or the context until it is collected.
FreeLeaf(t, r) ==
    /\ Callable(t, r) /\ lock[r] = None /\ ptr[r]
    /\ frees' = [frees EXCEPT ![r] = Freed(@)]
    /\ ptr' = [ptr EXCEPT ![r] = FALSE]
    /\ UNCHANGED <<wrapper, term, parent, activeCtx, activeAdp, pending, lock,
                   threads, interrupt>>

\* nif_adapter_free
AdapterFree(t, a) == FreeLeaf(t, a)

\* nif_sampler_free
SamplerFree(t, s) == FreeLeaf(t, s)

\* mutant: the last adapter does not look at release_pending
DropAdapterOnly(t) ==
    LET m == on[t]
        ctxs == IF pc[t] = "drop_ctx" /\ activeCtx[m] > 0
                THEN activeCtx[m] - 1 ELSE activeCtx[m]
        adps == IF pc[t] = "drop_adp" /\ activeAdp[m] > 0
                THEN activeAdp[m] - 1 ELSE activeAdp[m]
    IN  /\ pc[t] \in {"drop_ctx", "drop_adp"} /\ lock[m] = None
        /\ activeCtx' = [activeCtx EXCEPT ![m] = ctxs]
        /\ activeAdp' = [activeAdp EXCEPT ![m] = adps]
        /\ IF pending[m] /\ ctxs = 0 /\ adps = 0 /\ ptr[m] /\ pc[t] = "drop_ctx"
           THEN FreeModelObject(m) /\ pending' = [pending EXCEPT ![m] = FALSE]
           ELSE UNCHANGED <<frees, ptr, pending>>
        /\ Return(t)
        /\ UNCHANGED <<wrapper, term, parent, abort, deadline>>

\* context_drops_model and model_drops_adapter: the last user of a model
\* whose release is pending frees it, under the model's mutex
DropModel(t) ==
    LET m == on[t]
        ctxs == IF pc[t] = "drop_ctx" /\ activeCtx[m] > 0
                THEN activeCtx[m] - 1 ELSE activeCtx[m]
        adps == IF pc[t] = "drop_adp" /\ activeAdp[m] > 0
                THEN activeAdp[m] - 1 ELSE activeAdp[m]
    IN  /\ pc[t] \in {"drop_ctx", "drop_adp"} /\ lock[m] = None
        /\ activeCtx' = [activeCtx EXCEPT ![m] = ctxs]
        /\ activeAdp' = [activeAdp EXCEPT ![m] = adps]
        /\ IF pending[m] /\ ctxs = 0 /\ adps = 0 /\ ptr[m]
           THEN FreeModelObject(m) /\ pending' = [pending EXCEPT ![m] = FALSE]
           ELSE UNCHANGED <<frees, ptr, pending>>
        /\ Return(t)
        /\ UNCHANGED <<wrapper, term, parent, abort, deadline>>

-----------------------------------------------------------------------------
\* what a running call was given as an argument or still has to release
InUse(r) == \E t \in Threads : on[t] = r \/ r \in with[t]

\* The last term for r is dropped.  An argument of a call is held until the
\* call returns; a reference given back at the end of one needs no term.
DropTerm(r) ==
    /\ term[r]
    /\ \A t \in Threads : pc[t] \notin {"drop_ctx", "drop_adp"} =>
                            on[t] # r /\ r \notin with[t]
    /\ term' = [term EXCEPT ![r] = FALSE]
    /\ UNCHANGED <<wrapper, ptr, frees, parent, activeCtx, activeAdp, pending,
                   lock, threads, interrupt>>

\* no term, no running call and no other wrapper refers to r any more
Collectable(r) ==
    /\ wrapper[r] = "made" /\ ~term[r] /\ ~InUse(r)
    /\ \A x \in Res : wrapper[x] = "made" => parent[x] # r

\* What the destructors have in common.  They take no mutex of r: nobody else
\* can reach it.
Destroy(r) ==
    /\ Collectable(r)
    /\ wrapper' = [wrapper EXCEPT ![r] = "dead"]
    /\ ptr' = [ptr EXCEPT ![r] = FALSE]
    /\ parent' = [parent EXCEPT ![r] = None]

\* model_dtor
ModelDtor(t, m) ==
    /\ pc[t] = "idle"
    /\ Destroy(m)
    /\ frees' = [r \in Res |-> IF ptr[m] /\ (r = m \/ r \in Leftover(m))
                               THEN Freed(frees[r]) ELSE frees[r]]
    /\ UNCHANGED <<term, activeCtx, activeAdp, pending, lock, threads, interrupt>>

\* The destructor of a wrapper that uses a model, up to the call that drops
\* the model reference.
UserDtor(t, r, stage) ==
    /\ pc[t] = "idle"
    /\ Destroy(r)
    /\ frees' = [frees EXCEPT ![r] = IF ptr[r] THEN Freed(@) ELSE @]
    /\ on' = [on EXCEPT ![t] = parent[r]]
    /\ IF parent[r] = None THEN UNCHANGED pc ELSE Goto(t, stage)
    /\ UNCHANGED <<term, activeCtx, activeAdp, pending, lock, with, interrupt>>

\* ctx_dtor
CtxDtor(t, c) == UserDtor(t, c, "drop_ctx")

\* adapter_dtor
AdapterDtor(t, a) == UserDtor(t, a, "drop_adp")

\* sampler_dtor
SamplerDtor(t, s) ==
    /\ pc[t] = "idle"
    /\ Destroy(s)
    /\ frees' = [frees EXCEPT ![s] = IF ptr[s] THEN Freed(@) ELSE @]
    /\ UNCHANGED <<term, activeCtx, activeAdp, pending, lock, threads, interrupt>>

-----------------------------------------------------------------------------
\* A decode that arms the interrupt takes c->mu; the samplers S of its rows
\* were built for c.
StepBegin(t, c, S) ==
    /\ Callable(t, c)
    /\ \A s \in S : term[s] /\ parent[s] = c
    /\ lock[c] = None /\ ptr[c]
    /\ lock' = [lock EXCEPT ![c] = t]
    /\ Goto(t, "sample")
    /\ on' = [on EXCEPT ![t] = c]
    /\ with' = [with EXCEPT ![t] = S]
    /\ UNCHANGED <<objects, interrupt>>

\* nif_decode_one: samples from the context's own chain, under c->mu
DecodeOne(t, c) == StepBegin(t, c, {})

\* nif_embed
Embed(t, c) == StepBegin(t, c, {})

\* a decode row takes its sampler's mutex inside c->mu
SampleRow(t, s) ==
    /\ pc[t] = "sample" /\ s \in with[t] /\ lock[s] = None /\ ptr[s]
    /\ lock' = [lock EXCEPT ![s] = t]
    /\ Goto(t, "sampling")
    /\ UNCHANGED <<objects, on, with, interrupt>>

\* a row whose sampler was freed ends the whole step: {error, released}
StepReleased(t, s) ==
    /\ pc[t] = "sample" /\ s \in with[t] /\ lock[s] = None /\ ~ptr[s]
    /\ Return(t)
    /\ UNCHANGED <<objects, abort, deadline>>

\* a call that has taken c->mu fails before it decodes: no logits, a batch
\* that is too large, no memory
StepRefused(t) ==
    /\ pc[t] = "sample"
    /\ Return(t)
    /\ UNCHANGED <<objects, abort, deadline>>

\* llama_sampler_sample returned; the row's mutex is released
SampledRow(t, s) ==
    /\ pc[t] = "sampling" /\ s \in with[t] /\ lock[s] = t
    /\ lock' = [lock EXCEPT ![s] = None]
    /\ with' = [with EXCEPT ![t] = @ \ {s}]
    /\ Goto(t, "sample")
    /\ UNCHANGED <<objects, on, interrupt>>

\* mutant: arm_decode does not clear the flag
StepDecodeKeepsFlag(t) ==
    /\ pc[t] = "sample" /\ with[t] = {}
    /\ deadline' = [deadline EXCEPT ![on[t]] = IF Budget THEN "ahead" ELSE "none"]
    /\ mine' = [mine EXCEPT ![t] = FALSE]
    /\ Goto(t, "decode")
    /\ UNCHANGED <<objects, lock, on, with, abort>>

\* arm_decode, then llama_decode starts
StepDecode(t) ==
    /\ pc[t] = "sample" /\ with[t] = {}
    /\ abort' = [abort EXCEPT ![on[t]] = FALSE]
    /\ deadline' = [deadline EXCEPT ![on[t]] = IF Budget THEN "ahead" ELSE "none"]
    /\ mine' = [mine EXCEPT ![t] = FALSE]
    /\ Goto(t, "decode")
    /\ UNCHANGED <<objects, lock, on, with>>

\* A decode that does not arm the interrupt takes c->mu.
DecodeUnarmed(t, c) ==
    /\ Callable(t, c) /\ lock[c] = None /\ ptr[c]
    /\ lock' = [lock EXCEPT ![c] = t]
    /\ Goto(t, "prefill")
    /\ on' = [on EXCEPT ![t] = c]
    /\ UNCHANGED <<objects, with, interrupt>>

\* nif_prefill
Prefill(t, c) == DecodeUnarmed(t, c)

\* nif_forward_with_argmax
ForwardWithArgmax(t, c) == DecodeUnarmed(t, c)

\* llama_decode ran to its end
DecodeReturns(t) ==
    /\ pc[t] \in {"decode", "prefill"}
    /\ Return(t)
    /\ UNCHANGED <<objects, abort, deadline>>

\* barrel_inference_decode_abort_cb answers true to a compute thread
DecodeInterrupted(t) ==
    /\ pc[t] \in {"decode", "prefill"}
    /\ abort[on[t]] \/ deadline[on[t]] = "past"
    /\ Goto(t, IF pc[t] = "decode" THEN "decode_stop" ELSE "prefill_stop")
    /\ UNCHANGED <<objects, lock, on, with, interrupt>>

\* the interrupted call reports its error
InterruptReported(t) ==
    /\ pc[t] \in {"decode_stop", "prefill_stop"}
    /\ Return(t)
    /\ UNCHANGED <<objects, abort, deadline>>

\* nif_request_abort: no mutex
RequestAbort(c) ==
    /\ term[c] /\ ptr[c]
    /\ abort' = [abort EXCEPT ![c] = TRUE]
    /\ mine' = [t \in Threads |->
                  mine[t] \/ (on[t] = c /\ pc[t] \in {"decode", "prefill"})]
    /\ UNCHANGED <<objects, lock, threads, deadline>>

\* the deadline of the context's last armed decode goes by
DeadlinePasses(c) ==
    /\ deadline[c] = "ahead"
    /\ deadline' = [deadline EXCEPT ![c] = "past"]
    /\ mine' = [t \in Threads |-> mine[t] \/ (on[t] = c /\ pc[t] = "decode")]
    /\ UNCHANGED <<objects, lock, threads, abort>>

-----------------------------------------------------------------------------
\* nif_set_adapters starts on the list of adapters A
SetAdapters(t, c, A) ==
    /\ Callable(t, c)
    /\ \A a \in A : term[a]
    /\ Goto(t, "adapters")
    /\ on' = [on EXCEPT ![t] = c]
    /\ with' = [with EXCEPT ![t] = A]
    /\ UNCHANGED <<objects, lock, interrupt>>

Missing(t) == {a \in with[t] : lock[a] # t}

\* mutant: the mutexes are taken in the order of the caller's list
AnyAdapter(t, a) == a \in Missing(t)

\* the next mutex in the order of the wrappers' addresses
NextAdapter(t, a) ==
    /\ a \in Missing(t)
    /\ \A b \in Missing(t) : Addr[a] <= Addr[b]

SetAdaptersLock(t, a) ==
    /\ pc[t] = "adapters" /\ NextAdapter(t, a) /\ lock[a] = None /\ ptr[a]
    /\ lock' = [lock EXCEPT ![a] = t]
    /\ UNCHANGED <<objects, threads, interrupt>>

\* a released adapter: unlock everything held so far and bail out
SetAdaptersReleased(t, a) ==
    /\ pc[t] = "adapters" /\ NextAdapter(t, a) /\ lock[a] = None /\ ~ptr[a]
    /\ Return(t)
    /\ UNCHANGED <<objects, abort, deadline>>

\* all adapters are locked: take c->mu and call llama_set_adapters_lora
SetAdaptersContext(t) ==
    /\ pc[t] = "adapters" /\ Missing(t) = {} /\ lock[on[t]] = None
    /\ IF ptr[on[t]]
       THEN /\ lock' = [lock EXCEPT ![on[t]] = t]
            /\ Goto(t, "install")
            /\ UNCHANGED <<on, with, mine>>
       ELSE Return(t)
    /\ UNCHANGED <<objects, abort, deadline>>

SetAdaptersDone(t) ==
    /\ pc[t] = "install"
    /\ Return(t)
    /\ UNCHANGED <<objects, abort, deadline>>

-----------------------------------------------------------------------------
Lifetimes(t) ==
    \/ \E m \in Models : \/ LoadModel(t, m) \/ FreeModelDeferred(t, m)
                         \/ FreeModelNow(t, m) \/ ModelDtor(t, m)
                         \/ \E c \in Contexts : NewContext(t, m, c)
                         \/ \E a \in Adapters : AdapterLoad(t, m, a)
    \/ \E c \in Contexts : \/ FreeContext(t, c) \/ CtxDtor(t, c)
                           \/ \E s \in Samplers : SamplerNew(t, c, s)
    \/ \E a \in Adapters : AdapterFree(t, a) \/ AdapterDtor(t, a)
    \/ \E s \in Samplers : SamplerFree(t, s) \/ SamplerDtor(t, s)
    \/ DropModel(t)

Decodes(t) ==
    \/ \E c \in Contexts : \/ \E S \in SUBSET Samplers : StepBegin(t, c, S)
                           \/ DecodeOne(t, c) \/ Embed(t, c)
                           \/ Prefill(t, c) \/ ForwardWithArgmax(t, c)
    \/ \E s \in Samplers : \/ SampleRow(t, s) \/ StepReleased(t, s)
                           \/ SampledRow(t, s)
    \/ StepRefused(t) \/ StepDecode(t) \/ DecodeReturns(t) \/ DecodeInterrupted(t)
    \/ InterruptReported(t)

Installs(t) ==
    \/ \E c \in Contexts, A \in SUBSET Adapters : SetAdapters(t, c, A)
    \/ \E a \in Adapters : SetAdaptersLock(t, a) \/ SetAdaptersReleased(t, a)
    \/ SetAdaptersContext(t) \/ SetAdaptersDone(t)

Next ==
    \/ \E t \in Threads : Lifetimes(t) \/ Decodes(t) \/ Installs(t)
    \/ \E r \in Res : DropTerm(r)
    \/ \E c \in Contexts : RequestAbort(c) \/ DeadlinePasses(c)

Spec == Init /\ [][Next]_vars

-----------------------------------------------------------------------------
(* Properties                                                              *)

\* Contexts and adapters whose model reference m still counts
Attached(m, S) == {r \in S : wrapper[r] = "made" /\ parent[r] = m}

\* Threads that are about to give such a reference back
Dropping(m, stage) == {t \in Threads : pc[t] = stage /\ on[t] = m}

\* The stages at which a thread calls llama.cpp on a context
CtxStages == {"sample", "sampling", "decode", "decode_stop", "prefill",
              "prefill_stop", "install"}

\* A native object is used only while it exists: a decode or an adapter
\* installation has its context and that context's model, a decode row its
\* sampler chain, an installation every adapter it names ("Per-resource mutex
\* makes use-after-free ... impossible", barrel_inference_nif.c:269-276).
UsedWhileAlive ==
    \A t \in Threads :
        /\ pc[t] \in CtxStages =>
              /\ lock[on[t]] = t
              /\ frees[on[t]] = 0 /\ frees[parent[on[t]]] = 0
        /\ pc[t] = "sampling" =>
              \E s \in with[t] : lock[s] = t /\ frees[s] = 0
        /\ pc[t] = "install" =>
              \A a \in with[t] : lock[a] = t /\ frees[a] = 0

\* Explicit frees, destructors and the deferred free of a model release every
\* native object once: a set pointer is never stale, and nothing outlives its
\* wrapper.
FreedExactlyOnce ==
    \A r \in Res : /\ wrapper[r] = "unused" => frees[r] = 0
                   /\ wrapper[r] # "unused" => frees[r] = IF ptr[r] THEN 0 ELSE 1
                   /\ wrapper[r] = "dead" => ~ptr[r]

Live == {r \in Res : ptr[r]}
Gone == {r \in Res : frees[r] > 0}

\* The contexts and adapters with the model that they were made in
Within == {p \in (Contexts \cup Adapters) \X Models : ptr[p[1]] /\ parent[p[1]] = p[2]}

\* The objects that a thread is inside llama.cpp with, or has locked for it
Using == [t \in Threads |->
            {r \in with[t] : lock[r] = t}
              \cup IF pc[t] \in CtxStages THEN {on[t], parent[on[t]]} ELSE {}]

\* Seen without wrappers, mutexes and counters the native objects have plain
\* lifetimes: none is destroyed twice or under a call, and a model outlives
\* its contexts and adapters.
Life == INSTANCE ObjectLifetimes WITH
    Objects <- Res, Callers <- Threads,
    live <- Live, gone <- Gone, within <- Within, using <- Using
ImplementsLifetimes == Life!LifeSpec

\* active_contexts and active_adapters count the wrappers that still need the
\* model, those whose release is in flight on some thread included.
UsersCounted ==
    \A m \in Models :
        /\ activeCtx[m] = Cardinality(Attached(m, Contexts))
                            + Cardinality(Dropping(m, "drop_ctx"))
        /\ activeAdp[m] = Cardinality(Attached(m, Adapters))
                            + Cardinality(Dropping(m, "drop_adp"))

\* A release that was deferred waits for somebody: a model whose last user is
\* gone has been freed (the {ok, deferred} contract, barrel_inference_nif.c:
\* 1158-1164).
DeferredWaits ==
    \A m \in Models : pending[m] => ptr[m] /\ activeCtx[m] + activeAdp[m] > 0

\* "no new contexts allowed past that point" (barrel_inference_nif.c:
\* 1344-1347): once free_model was called no context and no adapter attaches.
ReleaseIsFinal ==
    [][\A m \in Models :
          pending[m] \/ (wrapper[m] # "unused" /\ ~ptr[m]) =>
              \A r \in Contexts \cup Adapters : parent'[r] = m => parent[r] = m
      ]_vars

\* The mutex a thread waits for, if its next step takes one
Wants(t, r) ==
    \/ pc[t] \in {"drop_ctx", "drop_adp"} /\ r = on[t]
    \/ pc[t] = "sample" /\ r \in with[t]
    \/ pc[t] = "adapters" /\ NextAdapter(t, r)
    \/ pc[t] = "adapters" /\ Missing(t) = {} /\ r = on[t]

\* No deadlock: whatever calls are in progress, at least one of them does not
\* wait for a mutex another one holds.
SomeCallAdvances ==
    (\E t \in Threads : pc[t] # "idle") =>
        \E t \in Threads :
            pc[t] # "idle" /\ ~\E r \in Res : Wants(t, r) /\ lock[r] # None

\* A decode armed by arm_decode is interrupted only by an abort requested
\* while it runs or by its own deadline, never by what an earlier decode left
\* behind.
ArmedEndsOwn == \A t \in Threads : pc[t] = "decode_stop" => mine[t]

=============================================================================
