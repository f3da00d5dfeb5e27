------------------------ MODULE NifResourcesProofs ------------------------
(***************************************************************************)
(* Proofs about NifResources, for any number of threads, models, contexts, *)
(* adapters and samplers.                                                  *)
(***************************************************************************)
EXTENDS NifResources, FiniteSetTheorems, WellFoundedInduction, TLAPS

Users == Contexts \cup Adapters
Leaves == Contexts \cup Adapters \cup Samplers
DropStages == {"drop_ctx", "drop_adp"}

\* Who can be at which stage with which resources
CallShape ==
    \A t \in Threads :
        /\ pc[t] = "idle" => on[t] = None /\ with[t] = {}
        /\ pc[t] \in DropStages => on[t] \in Models /\ with[t] = {}
        /\ pc[t] \in CtxStages \cup {"adapters"} => on[t] \in Contexts
        /\ pc[t] \in {"sample", "sampling"} => with[t] \subseteq Samplers
        /\ pc[t] \in {"adapters", "install"} => with[t] \subseteq Adapters
        /\ pc[t] \in {"decode", "decode_stop", "prefill", "prefill_stop"} =>
              with[t] = {}

\* A held mutex tells where its holder is: no model's mutex is held between
\* two steps.
LockShape ==
    \A t \in Threads, r \in Res :
        lock[r] = t =>
            /\ r \notin Models
            /\ r \in Contexts => pc[t] \in CtxStages /\ on[t] = r
            /\ r \in Samplers => pc[t] = "sampling" /\ r \in with[t]
            /\ r \in Adapters => pc[t] \in {"adapters", "install"} /\ r \in with[t]

\* and where a thread is tells which mutexes it holds
HolderShape ==
    \A t \in Threads :
        /\ pc[t] \in CtxStages => lock[on[t]] = t
        /\ pc[t] = "sampling" => \E s \in with[t] : lock[s] = t
        /\ \A r, s \in Samplers : lock[r] = t /\ lock[s] = t => r = s
        /\ pc[t] = "install" => \A a \in with[t] : lock[a] = t

\* set_adapters takes its mutexes in the order of the addresses
LockOrder ==
    \A t \in Threads :
        pc[t] = "adapters" =>
            \A a, b \in with[t] :
                lock[a] = t /\ lock[b] # t => Addr[a] < Addr[b]

\* What the state of a wrapper says of its other fields
WrapperShape ==
    \A r \in Res :
        /\ wrapper[r] = "unused" => frees[r] = 0
        /\ wrapper[r] # "unused" => frees[r] = IF ptr[r] THEN 0 ELSE 1
        /\ wrapper[r] # "made" => ~ptr[r] /\ ~term[r] /\ parent[r] = None
        /\ r \in Models => parent[r] = None
        /\ r \in Contexts =>
              /\ parent[r] \in Models \cup {None}
              /\ ptr[r] <=> parent[r] # None
        /\ r \in Adapters =>
              /\ parent[r] \in Models \cup {None}
              /\ wrapper[r] = "made" <=> parent[r] # None
        /\ r \in Samplers =>
              /\ parent[r] \in Contexts \cup {None}
              /\ wrapper[r] = "made" <=> parent[r] # None

\* A wrapper that a running call or another wrapper refers to is not dead,
\* and the arguments of a call are held by a term.
Referenced ==
    /\ \A t \in Threads :
          /\ pc[t] # "idle" => wrapper[on[t]] = "made"
          /\ pc[t] \notin DropStages \cup {"idle"} =>
                /\ term[on[t]]
                /\ \A r \in with[t] : term[r] /\ wrapper[r] = "made"
    /\ \A r \in Res : parent[r] # None => wrapper[parent[r]] = "made"

\* Under its mutex, a context, an adapter or a sampler is not freed.
LockedAlive == \A r \in Res : lock[r] # None => ptr[r]

\* A model with users is not freed; a pending release has users to wait for.
ModelKept ==
    \A m \in Models :
        /\ activeCtx[m] + activeAdp[m] > 0 => ptr[m]
        /\ pending[m] => ptr[m] /\ activeCtx[m] + activeAdp[m] > 0

\* What the interrupt of an armed decode can come from
Interrupts ==
    \A t \in Threads :
        /\ pc[t] = "decode" /\ (abort[on[t]] \/ deadline[on[t]] = "past") => mine[t]
        /\ pc[t] = "decode_stop" => mine[t]

\* What ReleaseIsFinal says of one step
FinalStep ==
    \A m \in Models :
        pending[m] \/ (wrapper[m] # "unused" /\ ~ptr[m]) =>
            \A r \in Contexts \cup Adapters : parent'[r] = m => parent[r] = m

IInv == /\ TypeOK /\ CallShape /\ LockShape /\ HolderShape /\ LockOrder
        /\ WrapperShape /\ Referenced /\ LockedAlive /\ UsersCounted
        /\ ModelKept /\ Interrupts

-----------------------------------------------------------------------------
\* TypeOK is preserved by every step
LEMMA TypeOKNext == ASSUME IInv, [Next]_vars PROVE TypeOK'
<1>1. CASE UNCHANGED vars
  BY <1>1 DEF vars, objects, threads, interrupt, IInv, TypeOK, Res, Stages
<1>2. ASSUME NEW t \in Threads, NEW m \in Models, LoadModel(t, m) PROVE TypeOK'
  BY <1>2, ResourceAssumption DEF LoadModel, Wrap, objects, threads, interrupt, IInv, TypeOK, Res,
         Stages
<1>3. ASSUME NEW t \in Threads, NEW m \in Models, FreeModelDeferred(t, m) PROVE TypeOK'
  BY <1>3, ResourceAssumption DEF FreeModelDeferred, Callable, objects, threads, interrupt, IInv,
         TypeOK, Res, Stages
<1>4. ASSUME NEW t \in Threads, NEW m \in Models, FreeModelNow(t, m) PROVE TypeOK'
  BY <1>4, ResourceAssumption DEF FreeModelNow, Callable, FreeModelObject, Leftover, Freed,
         objects, threads, interrupt, IInv, TypeOK, Res, Stages
<1>5. ASSUME NEW t \in Threads, NEW m \in Models, ModelDtor(t, m) PROVE TypeOK'
  BY <1>5, ResourceAssumption DEF ModelDtor, Destroy, Collectable, InUse, Leftover, Freed, objects,
         threads, interrupt, IInv, TypeOK, Res, Stages
<1>6. ASSUME NEW t \in Threads, NEW m \in Models, NEW c \in Contexts, NewContext(t, m, c) PROVE TypeOK'
  BY <1>6, ResourceAssumption DEF NewContext, Callable, Wrap, objects, threads, interrupt, IInv,
         TypeOK, Res, Stages
<1>7. ASSUME NEW t \in Threads, NEW m \in Models, NEW a \in Adapters, AdapterLoad(t, m, a) PROVE TypeOK'
  BY <1>7, ResourceAssumption DEF AdapterLoad, Callable, Wrap, objects, threads, interrupt, IInv,
         TypeOK, Res, Stages
<1>8. ASSUME NEW t \in Threads, NEW c \in Contexts, FreeContext(t, c) PROVE TypeOK'
  BY <1>8, ResourceAssumption DEF FreeContext, Callable, Goto, Freed, objects, threads, interrupt,
         IInv, TypeOK, Res, Stages
<1>9. ASSUME NEW t \in Threads, NEW c \in Contexts, CtxDtor(t, c) PROVE TypeOK'
  BY <1>9, ResourceAssumption DEF CtxDtor, UserDtor, Destroy, Collectable, InUse, Goto, Freed,
         objects, threads, interrupt, IInv, TypeOK, Res, Stages
<1>10. ASSUME NEW t \in Threads, NEW c \in Contexts, NEW s \in Samplers, SamplerNew(t, c, s) PROVE TypeOK'
  BY <1>10, ResourceAssumption DEF SamplerNew, Callable, Wrap, objects, threads, interrupt, IInv,
         TypeOK, Res, Stages
<1>11. ASSUME NEW t \in Threads, NEW a \in Adapters, AdapterFree(t, a) PROVE TypeOK'
  BY <1>11, ResourceAssumption DEF AdapterFree, FreeLeaf, Callable, Freed, objects, threads,
         interrupt, IInv, TypeOK, Res, Stages
<1>12. ASSUME NEW t \in Threads, NEW a \in Adapters, AdapterDtor(t, a) PROVE TypeOK'
  BY <1>12, ResourceAssumption DEF AdapterDtor, UserDtor, Destroy, Collectable, InUse, Goto, Freed,
         objects, threads, interrupt, IInv, TypeOK, Res, Stages
<1>13. ASSUME NEW t \in Threads, NEW s \in Samplers, SamplerFree(t, s) PROVE TypeOK'
  BY <1>13, ResourceAssumption DEF SamplerFree, FreeLeaf, Callable, Freed, objects, threads,
         interrupt, IInv, TypeOK, Res, Stages
<1>14. ASSUME NEW t \in Threads, NEW s \in Samplers, SamplerDtor(t, s) PROVE TypeOK'
  BY <1>14, ResourceAssumption DEF SamplerDtor, Destroy, Collectable, InUse, Freed, objects,
         threads, interrupt, IInv, TypeOK, Res, Stages
<1>15. ASSUME NEW t \in Threads, DropModel(t) PROVE TypeOK'
  <2>1. on[t] \in Models /\ on[t] \in Res
    BY <1>15 DEF IInv, CallShape, DropStages, DropModel, Res
  <2>2. activeCtx' \in [Models -> Nat] /\ activeAdp' \in [Models -> Nat]
    BY <1>15, <2>1 DEF DropModel, IInv, TypeOK
  <2>3. /\ frees' \in [Res -> 0..2] /\ ptr' \in [Res -> BOOLEAN]
        /\ pending' \in [Models -> BOOLEAN]
    <3>1. CASE UNCHANGED <<frees, ptr, pending>>
      BY <3>1 DEF IInv, TypeOK
    <3>2. CASE FreeModelObject(on[t]) /\ pending' = [pending EXCEPT ![on[t]] = FALSE]
      BY <3>2, <2>1 DEF FreeModelObject, Freed, IInv, TypeOK
    <3>. QED BY <1>15, <3>1, <3>2 DEF DropModel
  <2>. QED BY <1>15, <2>2, <2>3, ResourceAssumption
       DEF DropModel, Return, IInv, TypeOK, Stages
<1>16. ASSUME NEW t \in Threads, NEW c \in Contexts, NEW S \in SUBSET Samplers, StepBegin(t, c, S) PROVE TypeOK'
  BY <1>16, ResourceAssumption DEF StepBegin, Callable, Goto, objects, threads, interrupt, IInv,
         TypeOK, Res, Stages
<1>17. ASSUME NEW t \in Threads, NEW c \in Contexts, DecodeUnarmed(t, c) PROVE TypeOK'
  BY <1>17, ResourceAssumption DEF DecodeUnarmed, Callable, Goto, objects, threads, interrupt, IInv,
         TypeOK, Res, Stages
<1>18. ASSUME NEW t \in Threads, NEW s \in Samplers, SampleRow(t, s) PROVE TypeOK'
  BY <1>18, ResourceAssumption DEF SampleRow, Goto, objects, threads, interrupt, IInv, TypeOK, Res,
         Stages
<1>19. ASSUME NEW t \in Threads, NEW s \in Samplers, StepReleased(t, s) PROVE TypeOK'
  BY <1>19, ResourceAssumption DEF StepReleased, Return, objects, threads, interrupt, IInv, TypeOK,
         Res, Stages
<1>20. ASSUME NEW t \in Threads, StepRefused(t) PROVE TypeOK'
  BY <1>20, ResourceAssumption DEF StepRefused, Return, objects, threads, interrupt, IInv, TypeOK,
         Res, Stages
<1>21. ASSUME NEW t \in Threads, NEW s \in Samplers, SampledRow(t, s) PROVE TypeOK'
  BY <1>21, ResourceAssumption DEF SampledRow, Goto, objects, threads, interrupt, IInv, TypeOK, Res,
         Stages
<1>22. ASSUME NEW t \in Threads, StepDecode(t) PROVE TypeOK'
  BY <1>22, ResourceAssumption DEF StepDecode, Goto, objects, threads, interrupt, IInv, TypeOK, Res,
         Stages
<1>23. ASSUME NEW t \in Threads, DecodeReturns(t) PROVE TypeOK'
  BY <1>23, ResourceAssumption DEF DecodeReturns, Return, objects, threads, interrupt, IInv, TypeOK,
         Res, Stages
<1>24. ASSUME NEW t \in Threads, DecodeInterrupted(t) PROVE TypeOK'
  BY <1>24, ResourceAssumption DEF DecodeInterrupted, Goto, objects, threads, interrupt, IInv,
         TypeOK, Res, Stages
<1>25. ASSUME NEW t \in Threads, InterruptReported(t) PROVE TypeOK'
  BY <1>25, ResourceAssumption DEF InterruptReported, Return, objects, threads, interrupt, IInv,
         TypeOK, Res, Stages
<1>26. ASSUME NEW t \in Threads, NEW c \in Contexts, NEW A \in SUBSET Adapters, SetAdapters(t, c, A) PROVE TypeOK'
  BY <1>26, ResourceAssumption DEF SetAdapters, Callable, Goto, objects, threads, interrupt, IInv,
         TypeOK, Res, Stages
<1>27. ASSUME NEW t \in Threads, NEW a \in Adapters, SetAdaptersLock(t, a) PROVE TypeOK'
  BY <1>27, ResourceAssumption DEF SetAdaptersLock, NextAdapter, Missing, objects, threads,
         interrupt, IInv, TypeOK, Res, Stages
<1>28. ASSUME NEW t \in Threads, NEW a \in Adapters, SetAdaptersReleased(t, a) PROVE TypeOK'
  BY <1>28, ResourceAssumption DEF SetAdaptersReleased, Return, objects, threads, interrupt, IInv,
         TypeOK, Res, Stages
<1>29. ASSUME NEW t \in Threads, SetAdaptersContext(t) PROVE TypeOK'
  <2>1. on[t] \in Contexts /\ on[t] \in Res
    BY <1>29 DEF IInv, CallShape, SetAdaptersContext, Res
  <2>2. CASE ptr[on[t]]
    <3>1. /\ lock' = [lock EXCEPT ![on[t]] = t]
          /\ pc' = [pc EXCEPT ![t] = "install"]
          /\ UNCHANGED <<on, with, mine, objects, abort, deadline>>
      BY <1>29, <2>2 DEF SetAdaptersContext, Goto
    <3>2. lock' \in [Res -> Threads \cup {None}] /\ pc' \in [Threads -> Stages]
      BY <3>1, <2>1 DEF IInv, TypeOK, Stages
    <3>. QED BY <3>1, <3>2 DEF objects, IInv, TypeOK
  <2>3. CASE ~ptr[on[t]]
    <3>1. Return(t) /\ UNCHANGED <<objects, abort, deadline>>
      BY <1>29, <2>3 DEF SetAdaptersContext
    <3>. QED BY <3>1, ResourceAssumption DEF Return, objects, IInv, TypeOK, Stages
  <2>. QED BY <2>2, <2>3
<1>30. ASSUME NEW t \in Threads, SetAdaptersDone(t) PROVE TypeOK'
  BY <1>30, ResourceAssumption DEF SetAdaptersDone, Return, objects, threads, interrupt, IInv,
         TypeOK, Res, Stages
<1>31. ASSUME NEW r \in Res, DropTerm(r) PROVE TypeOK'
  BY <1>31, ResourceAssumption DEF DropTerm, objects, threads, interrupt, IInv, TypeOK, Res, Stages
<1>32. ASSUME NEW c \in Contexts, RequestAbort(c) PROVE TypeOK'
  BY <1>32, ResourceAssumption DEF RequestAbort, objects, threads, interrupt, IInv, TypeOK, Res,
         Stages
<1>33. ASSUME NEW c \in Contexts, DeadlinePasses(c) PROVE TypeOK'
  BY <1>33, ResourceAssumption DEF DeadlinePasses, objects, threads, interrupt, IInv, TypeOK, Res,
         Stages
<1>. QED BY <1>1, <1>2, <1>3, <1>4, <1>5, <1>6, <1>7, <1>8, <1>9, <1>10,
       <1>11, <1>12, <1>13, <1>14, <1>15, <1>16, <1>17, <1>18, <1>19, <1>20,
       <1>21, <1>22, <1>23, <1>24, <1>25, <1>26, <1>27, <1>28, <1>29, <1>30,
       <1>31, <1>32, <1>33
  DEF Next, Lifetimes, Decodes, Installs, DecodeOne, Embed, Prefill,
      ForwardWithArgmax

\* CallShape is preserved by every step
LEMMA CallShapeNext == ASSUME IInv, [Next]_vars PROVE CallShape'
<1>1. CASE UNCHANGED vars
  BY <1>1 DEF vars, objects, threads, interrupt, IInv, TypeOK, CallShape,
         LockShape, DropStages, CtxStages, WrapperShape, Res
<1>2. ASSUME NEW t \in Threads, NEW m \in Models, LoadModel(t, m) PROVE CallShape'
  BY <1>2, ResourceAssumption DEF LoadModel, Wrap, objects, threads, interrupt, IInv, TypeOK,
         CallShape, LockShape, DropStages, CtxStages, WrapperShape, Res
<1>3. ASSUME NEW t \in Threads, NEW m \in Models, FreeModelDeferred(t, m) PROVE CallShape'
  BY <1>3, ResourceAssumption DEF FreeModelDeferred, Callable, objects, threads, interrupt, IInv,
         TypeOK, CallShape, LockShape, DropStages, CtxStages,
         WrapperShape, Res
<1>4. ASSUME NEW t \in Threads, NEW m \in Models, FreeModelNow(t, m) PROVE CallShape'
  BY <1>4, ResourceAssumption DEF FreeModelNow, Callable, FreeModelObject, Leftover, Freed,
         objects, threads, interrupt, IInv, TypeOK, CallShape, LockShape,
         DropStages, CtxStages, WrapperShape, Res
<1>5. ASSUME NEW t \in Threads, NEW m \in Models, ModelDtor(t, m) PROVE CallShape'
  BY <1>5, ResourceAssumption DEF ModelDtor, Destroy, Collectable, InUse, Leftover, Freed, objects,
         threads, interrupt, IInv, TypeOK, CallShape, LockShape,
         DropStages, CtxStages, WrapperShape, Res
<1>6. ASSUME NEW t \in Threads, NEW m \in Models, NEW c \in Contexts, NewContext(t, m, c) PROVE CallShape'
  BY <1>6, ResourceAssumption DEF NewContext, Callable, Wrap, objects, threads, interrupt, IInv,
         TypeOK, CallShape, LockShape, DropStages, CtxStages,
         WrapperShape, Res
<1>7. ASSUME NEW t \in Threads, NEW m \in Models, NEW a \in Adapters, AdapterLoad(t, m, a) PROVE CallShape'
  BY <1>7, ResourceAssumption DEF AdapterLoad, Callable, Wrap, objects, threads, interrupt, IInv,
         TypeOK, CallShape, LockShape, DropStages, CtxStages,
         WrapperShape, Res
<1>8. ASSUME NEW t \in Threads, NEW c \in Contexts, FreeContext(t, c) PROVE CallShape'
  BY <1>8, ResourceAssumption DEF FreeContext, Callable, Goto, Freed, objects, threads, interrupt,
         IInv, TypeOK, CallShape, LockShape, DropStages, CtxStages,
         WrapperShape, Res
<1>9. ASSUME NEW t \in Threads, NEW c \in Contexts, CtxDtor(t, c) PROVE CallShape'
  BY <1>9, ResourceAssumption DEF CtxDtor, UserDtor, Destroy, Collectable, InUse, Goto, Freed,
         objects, threads, interrupt, IInv, TypeOK, CallShape, LockShape,
         DropStages, CtxStages, WrapperShape, Res
<1>10. ASSUME NEW t \in Threads, NEW c \in Contexts, NEW s \in Samplers, SamplerNew(t, c, s) PROVE CallShape'
  BY <1>10, ResourceAssumption DEF SamplerNew, Callable, Wrap, objects, threads, interrupt, IInv,
         TypeOK, CallShape, LockShape, DropStages, CtxStages,
         WrapperShape, Res
<1>11. ASSUME NEW t \in Threads, NEW a \in Adapters, AdapterFree(t, a) PROVE CallShape'
  BY <1>11, ResourceAssumption DEF AdapterFree, FreeLeaf, Callable, Freed, objects, threads,
         interrupt, IInv, TypeOK, CallShape, LockShape, DropStages,
         CtxStages, WrapperShape, Res
<1>12. ASSUME NEW t \in Threads, NEW a \in Adapters, AdapterDtor(t, a) PROVE CallShape'
  BY <1>12, ResourceAssumption DEF AdapterDtor, UserDtor, Destroy, Collectable, InUse, Goto, Freed,
         objects, threads, interrupt, IInv, TypeOK, CallShape, LockShape,
         DropStages, CtxStages, WrapperShape, Res
<1>13. ASSUME NEW t \in Threads, NEW s \in Samplers, SamplerFree(t, s) PROVE CallShape'
  BY <1>13, ResourceAssumption DEF SamplerFree, FreeLeaf, Callable, Freed, objects, threads,
         interrupt, IInv, TypeOK, CallShape, LockShape, DropStages,
         CtxStages, WrapperShape, Res
<1>14. ASSUME NEW t \in Threads, NEW s \in Samplers, SamplerDtor(t, s) PROVE CallShape'
  BY <1>14, ResourceAssumption DEF SamplerDtor, Destroy, Collectable, InUse, Freed, objects,
         threads, interrupt, IInv, TypeOK, CallShape, LockShape,
         DropStages, CtxStages, WrapperShape, Res
<1>15. ASSUME NEW t \in Threads, DropModel(t) PROVE CallShape'
  BY <1>15, ResourceAssumption DEF DropModel, FreeModelObject, Return, Leftover, Freed, objects,
         threads, interrupt, IInv, TypeOK, CallShape, LockShape,
         DropStages, CtxStages, WrapperShape, Res
<1>16. ASSUME NEW t \in Threads, NEW c \in Contexts, NEW S \in SUBSET Samplers, StepBegin(t, c, S) PROVE CallShape'
  BY <1>16, ResourceAssumption DEF StepBegin, Callable, Goto, objects, threads, interrupt, IInv,
         TypeOK, CallShape, LockShape, DropStages, CtxStages,
         WrapperShape, Res
<1>17. ASSUME NEW t \in Threads, NEW c \in Contexts, DecodeUnarmed(t, c) PROVE CallShape'
  BY <1>17, ResourceAssumption DEF DecodeUnarmed, Callable, Goto, objects, threads, interrupt, IInv,
         TypeOK, CallShape, LockShape, DropStages, CtxStages,
         WrapperShape, Res
<1>18. ASSUME NEW t \in Threads, NEW s \in Samplers, SampleRow(t, s) PROVE CallShape'
  BY <1>18, ResourceAssumption DEF SampleRow, Goto, objects, threads, interrupt, IInv, TypeOK,
         CallShape, LockShape, DropStages, CtxStages, WrapperShape, Res
<1>19. ASSUME NEW t \in Threads, NEW s \in Samplers, StepReleased(t, s) PROVE CallShape'
  BY <1>19, ResourceAssumption DEF StepReleased, Return, objects, threads, interrupt, IInv, TypeOK,
         CallShape, LockShape, DropStages, CtxStages, WrapperShape, Res
<1>20. ASSUME NEW t \in Threads, StepRefused(t) PROVE CallShape'
  BY <1>20, ResourceAssumption DEF StepRefused, Return, objects, threads, interrupt, IInv, TypeOK,
         CallShape, LockShape, DropStages, CtxStages, WrapperShape, Res
<1>21. ASSUME NEW t \in Threads, NEW s \in Samplers, SampledRow(t, s) PROVE CallShape'
  BY <1>21, ResourceAssumption DEF SampledRow, Goto, objects, threads, interrupt, IInv, TypeOK,
         CallShape, LockShape, DropStages, CtxStages, WrapperShape, Res
<1>22. ASSUME NEW t \in Threads, StepDecode(t) PROVE CallShape'
  BY <1>22, ResourceAssumption DEF StepDecode, Goto, objects, threads, interrupt, IInv, TypeOK,
         CallShape, LockShape, DropStages, CtxStages, WrapperShape, Res
<1>23. ASSUME NEW t \in Threads, DecodeReturns(t) PROVE CallShape'
  BY <1>23, ResourceAssumption DEF DecodeReturns, Return, objects, threads, interrupt, IInv, TypeOK,
         CallShape, LockShape, DropStages, CtxStages, WrapperShape, Res
<1>24. ASSUME NEW t \in Threads, DecodeInterrupted(t) PROVE CallShape'
  BY <1>24, ResourceAssumption DEF DecodeInterrupted, Goto, objects, threads, interrupt, IInv,
         TypeOK, CallShape, LockShape, DropStages, CtxStages,
         WrapperShape, Res
<1>25. ASSUME NEW t \in Threads, InterruptReported(t) PROVE CallShape'
  BY <1>25, ResourceAssumption DEF InterruptReported, Return, objects, threads, interrupt, IInv,
         TypeOK, CallShape, LockShape, DropStages, CtxStages,
         WrapperShape, Res
<1>26. ASSUME NEW t \in Threads, NEW c \in Contexts, NEW A \in SUBSET Adapters, SetAdapters(t, c, A) PROVE CallShape'
  BY <1>26, ResourceAssumption DEF SetAdapters, Callable, Goto, objects, threads, interrupt, IInv,
         TypeOK, CallShape, LockShape, DropStages, CtxStages,
         WrapperShape, Res
<1>27. ASSUME NEW t \in Threads, NEW a \in Adapters, SetAdaptersLock(t, a) PROVE CallShape'
  BY <1>27, ResourceAssumption DEF SetAdaptersLock, NextAdapter, Missing, objects, threads,
         interrupt, IInv, TypeOK, CallShape, LockShape, DropStages,
         CtxStages, WrapperShape, Res
<1>28. ASSUME NEW t \in Threads, NEW a \in Adapters, SetAdaptersReleased(t, a) PROVE CallShape'
  BY <1>28, ResourceAssumption DEF SetAdaptersReleased, Return, objects, threads, interrupt, IInv,
         TypeOK, CallShape, LockShape, DropStages, CtxStages,
         WrapperShape, Res
<1>29. ASSUME NEW t \in Threads, SetAdaptersContext(t) PROVE CallShape'
  BY <1>29, ResourceAssumption DEF SetAdaptersContext, Goto, Return, Missing, objects, threads,
         interrupt, IInv, TypeOK, CallShape, LockShape, DropStages,
         CtxStages, WrapperShape, Res
<1>30. ASSUME NEW t \in Threads, SetAdaptersDone(t) PROVE CallShape'
  BY <1>30, ResourceAssumption DEF SetAdaptersDone, Return, objects, threads, interrupt, IInv,
         TypeOK, CallShape, LockShape, DropStages, CtxStages,
         WrapperShape, Res
<1>31. ASSUME NEW r \in Res, DropTerm(r) PROVE CallShape'
  BY <1>31, ResourceAssumption DEF DropTerm, objects, threads, interrupt, IInv, TypeOK, CallShape,
         LockShape, DropStages, CtxStages, WrapperShape, Res
<1>32. ASSUME NEW c \in Contexts, RequestAbort(c) PROVE CallShape'
  BY <1>32, ResourceAssumption DEF RequestAbort, objects, threads, interrupt, IInv, TypeOK,
         CallShape, LockShape, DropStages, CtxStages, WrapperShape, Res
<1>33. ASSUME NEW c \in Contexts, DeadlinePasses(c) PROVE CallShape'
  BY <1>33, ResourceAssumption DEF DeadlinePasses, objects, threads, interrupt, IInv, TypeOK,
         CallShape, LockShape, DropStages, CtxStages, WrapperShape, Res
<1>. QED BY <1>1, <1>2, <1>3, <1>4, <1>5, <1>6, <1>7, <1>8, <1>9, <1>10,
       <1>11, <1>12, <1>13, <1>14, <1>15, <1>16, <1>17, <1>18, <1>19, <1>20,
       <1>21, <1>22, <1>23, <1>24, <1>25, <1>26, <1>27, <1>28, <1>29, <1>30,
       <1>31, <1>32, <1>33
  DEF Next, Lifetimes, Decodes, Installs, DecodeOne, Embed, Prefill,
      ForwardWithArgmax

\* LockShape is preserved by every step
LEMMA LockShapeNext == ASSUME IInv, [Next]_vars PROVE LockShape'
<1>1. CASE UNCHANGED vars
  BY <1>1 DEF vars, objects, threads, interrupt, IInv, TypeOK, CallShape,
         LockShape, DropStages, CtxStages, Res
<1>2. ASSUME NEW t \in Threads, NEW m \in Models, LoadModel(t, m) PROVE LockShape'
  BY <1>2, ResourceAssumption DEF LoadModel, Wrap, objects, threads, interrupt, IInv, TypeOK,
         CallShape, LockShape, DropStages, CtxStages, Res
<1>3. ASSUME NEW t \in Threads, NEW m \in Models, FreeModelDeferred(t, m) PROVE LockShape'
  BY <1>3, ResourceAssumption DEF FreeModelDeferred, Callable, objects, threads, interrupt, IInv,
         TypeOK, CallShape, LockShape, DropStages, CtxStages, Res
<1>4. ASSUME NEW t \in Threads, NEW m \in Models, FreeModelNow(t, m) PROVE LockShape'
  BY <1>4, ResourceAssumption DEF FreeModelNow, Callable, FreeModelObject, Leftover, Freed,
         objects, threads, interrupt, IInv, TypeOK, CallShape, LockShape,
         DropStages, CtxStages, Res
<1>5. ASSUME NEW t \in Threads, NEW m \in Models, ModelDtor(t, m) PROVE LockShape'
  BY <1>5, ResourceAssumption DEF ModelDtor, Destroy, Collectable, InUse, Leftover, Freed, objects,
         threads, interrupt, IInv, TypeOK, CallShape, LockShape,
         DropStages, CtxStages, Res
<1>6. ASSUME NEW t \in Threads, NEW m \in Models, NEW c \in Contexts, NewContext(t, m, c) PROVE LockShape'
  BY <1>6, ResourceAssumption DEF NewContext, Callable, Wrap, objects, threads, interrupt, IInv,
         TypeOK, CallShape, LockShape, DropStages, CtxStages, Res
<1>7. ASSUME NEW t \in Threads, NEW m \in Models, NEW a \in Adapters, AdapterLoad(t, m, a) PROVE LockShape'
  BY <1>7, ResourceAssumption DEF AdapterLoad, Callable, Wrap, objects, threads, interrupt, IInv,
         TypeOK, CallShape, LockShape, DropStages, CtxStages, Res
<1>8. ASSUME NEW t \in Threads, NEW c \in Contexts, FreeContext(t, c) PROVE LockShape'
  BY <1>8, ResourceAssumption DEF FreeContext, Callable, Goto, Freed, objects, threads, interrupt,
         IInv, TypeOK, CallShape, LockShape, DropStages, CtxStages, Res
<1>9. ASSUME NEW t \in Threads, NEW c \in Contexts, CtxDtor(t, c) PROVE LockShape'
  BY <1>9, ResourceAssumption DEF CtxDtor, UserDtor, Destroy, Collectable, InUse, Goto, Freed,
         objects, threads, interrupt, IInv, TypeOK, CallShape, LockShape,
         DropStages, CtxStages, Res
<1>10. ASSUME NEW t \in Threads, NEW c \in Contexts, NEW s \in Samplers, SamplerNew(t, c, s) PROVE LockShape'
  BY <1>10, ResourceAssumption DEF SamplerNew, Callable, Wrap, objects, threads, interrupt, IInv,
         TypeOK, CallShape, LockShape, DropStages, CtxStages, Res
<1>11. ASSUME NEW t \in Threads, NEW a \in Adapters, AdapterFree(t, a) PROVE LockShape'
  BY <1>11, ResourceAssumption DEF AdapterFree, FreeLeaf, Callable, Freed, objects, threads,
         interrupt, IInv, TypeOK, CallShape, LockShape, DropStages,
         CtxStages, Res
<1>12. ASSUME NEW t \in Threads, NEW a \in Adapters, AdapterDtor(t, a) PROVE LockShape'
  BY <1>12, ResourceAssumption DEF AdapterDtor, UserDtor, Destroy, Collectable, InUse, Goto, Freed,
         objects, threads, interrupt, IInv, TypeOK, CallShape, LockShape,
         DropStages, CtxStages, Res
<1>13. ASSUME NEW t \in Threads, NEW s \in Samplers, SamplerFree(t, s) PROVE LockShape'
  BY <1>13, ResourceAssumption DEF SamplerFree, FreeLeaf, Callable, Freed, objects, threads,
         interrupt, IInv, TypeOK, CallShape, LockShape, DropStages,
         CtxStages, Res
<1>14. ASSUME NEW t \in Threads, NEW s \in Samplers, SamplerDtor(t, s) PROVE LockShape'
  BY <1>14, ResourceAssumption DEF SamplerDtor, Destroy, Collectable, InUse, Freed, objects,
         threads, interrupt, IInv, TypeOK, CallShape, LockShape,
         DropStages, CtxStages, Res
<1>15. ASSUME NEW t \in Threads, DropModel(t) PROVE LockShape'
  BY <1>15, ResourceAssumption DEF DropModel, FreeModelObject, Return, Leftover, Freed, objects,
         threads, interrupt, IInv, TypeOK, CallShape, LockShape,
         DropStages, CtxStages, Res
<1>16. ASSUME NEW t \in Threads, NEW c \in Contexts, NEW S \in SUBSET Samplers, StepBegin(t, c, S) PROVE LockShape'
  BY <1>16, ResourceAssumption DEF StepBegin, Callable, Goto, objects, threads, interrupt, IInv,
         TypeOK, CallShape, LockShape, DropStages, CtxStages, Res
<1>17. ASSUME NEW t \in Threads, NEW c \in Contexts, DecodeUnarmed(t, c) PROVE LockShape'
  BY <1>17, ResourceAssumption DEF DecodeUnarmed, Callable, Goto, objects, threads, interrupt, IInv,
         TypeOK, CallShape, LockShape, DropStages, CtxStages, Res
<1>18. ASSUME NEW t \in Threads, NEW s \in Samplers, SampleRow(t, s) PROVE LockShape'
  BY <1>18, ResourceAssumption DEF SampleRow, Goto, objects, threads, interrupt, IInv, TypeOK,
         CallShape, LockShape, DropStages, CtxStages, Res
<1>19. ASSUME NEW t \in Threads, NEW s \in Samplers, StepReleased(t, s) PROVE LockShape'
  BY <1>19, ResourceAssumption DEF StepReleased, Return, objects, threads, interrupt, IInv, TypeOK,
         CallShape, LockShape, DropStages, CtxStages, Res
<1>20. ASSUME NEW t \in Threads, StepRefused(t) PROVE LockShape'
  BY <1>20, ResourceAssumption DEF StepRefused, Return, objects, threads, interrupt, IInv, TypeOK,
         CallShape, LockShape, DropStages, CtxStages, Res
<1>21. ASSUME NEW t \in Threads, NEW s \in Samplers, SampledRow(t, s) PROVE LockShape'
  BY <1>21, ResourceAssumption DEF SampledRow, Goto, objects, threads, interrupt, IInv, TypeOK,
         CallShape, LockShape, DropStages, CtxStages, Res, HolderShape
<1>22. ASSUME NEW t \in Threads, StepDecode(t) PROVE LockShape'
  BY <1>22, ResourceAssumption DEF StepDecode, Goto, objects, threads, interrupt, IInv, TypeOK,
         CallShape, LockShape, DropStages, CtxStages, Res
<1>23. ASSUME NEW t \in Threads, DecodeReturns(t) PROVE LockShape'
  BY <1>23, ResourceAssumption DEF DecodeReturns, Return, objects, threads, interrupt, IInv, TypeOK,
         CallShape, LockShape, DropStages, CtxStages, Res
<1>24. ASSUME NEW t \in Threads, DecodeInterrupted(t) PROVE LockShape'
  BY <1>24, ResourceAssumption DEF DecodeInterrupted, Goto, objects, threads, interrupt, IInv,
         TypeOK, CallShape, LockShape, DropStages, CtxStages, Res
<1>25. ASSUME NEW t \in Threads, InterruptReported(t) PROVE LockShape'
  BY <1>25, ResourceAssumption DEF InterruptReported, Return, objects, threads, interrupt, IInv,
         TypeOK, CallShape, LockShape, DropStages, CtxStages, Res
<1>26. ASSUME NEW t \in Threads, NEW c \in Contexts, NEW A \in SUBSET Adapters, SetAdapters(t, c, A) PROVE LockShape'
  BY <1>26, ResourceAssumption DEF SetAdapters, Callable, Goto, objects, threads, interrupt, IInv,
         TypeOK, CallShape, LockShape, DropStages, CtxStages, Res
<1>27. ASSUME NEW t \in Threads, NEW a \in Adapters, SetAdaptersLock(t, a) PROVE LockShape'
  BY <1>27, ResourceAssumption DEF SetAdaptersLock, NextAdapter, Missing, objects, threads,
         interrupt, IInv, TypeOK, CallShape, LockShape, DropStages,
         CtxStages, Res
<1>28. ASSUME NEW t \in Threads, NEW a \in Adapters, SetAdaptersReleased(t, a) PROVE LockShape'
  BY <1>28, ResourceAssumption DEF SetAdaptersReleased, Return, objects, threads, interrupt, IInv,
         TypeOK, CallShape, LockShape, DropStages, CtxStages, Res
<1>29. ASSUME NEW t \in Threads, SetAdaptersContext(t) PROVE LockShape'
  BY <1>29, ResourceAssumption DEF SetAdaptersContext, Goto, Return, Missing, objects, threads,
         interrupt, IInv, TypeOK, CallShape, LockShape, DropStages,
         CtxStages, Res
<1>30. ASSUME NEW t \in Threads, SetAdaptersDone(t) PROVE LockShape'
  BY <1>30, ResourceAssumption DEF SetAdaptersDone, Return, objects, threads, interrupt, IInv,
         TypeOK, CallShape, LockShape, DropStages, CtxStages, Res
<1>31. ASSUME NEW r \in Res, DropTerm(r) PROVE LockShape'
  BY <1>31, ResourceAssumption DEF DropTerm, objects, threads, interrupt, IInv, TypeOK, CallShape,
         LockShape, DropStages, CtxStages, Res
<1>32. ASSUME NEW c \in Contexts, RequestAbort(c) PROVE LockShape'
  BY <1>32, ResourceAssumption DEF RequestAbort, objects, threads, interrupt, IInv, TypeOK,
         CallShape, LockShape, DropStages, CtxStages, Res
<1>33. ASSUME NEW c \in Contexts, DeadlinePasses(c) PROVE LockShape'
  BY <1>33, ResourceAssumption DEF DeadlinePasses, objects, threads, interrupt, IInv, TypeOK,
         CallShape, LockShape, DropStages, CtxStages, Res
<1>. QED BY <1>1, <1>2, <1>3, <1>4, <1>5, <1>6, <1>7, <1>8, <1>9, <1>10,
       <1>11, <1>12, <1>13, <1>14, <1>15, <1>16, <1>17, <1>18, <1>19, <1>20,
       <1>21, <1>22, <1>23, <1>24, <1>25, <1>26, <1>27, <1>28, <1>29, <1>30,
       <1>31, <1>32, <1>33
  DEF Next, Lifetimes, Decodes, Installs, DecodeOne, Embed, Prefill,
      ForwardWithArgmax

\* HolderShape is preserved by every step
LEMMA HolderShapeNext == ASSUME IInv, [Next]_vars PROVE HolderShape'
<1>1. CASE UNCHANGED vars
  BY <1>1 DEF vars, objects, threads, interrupt, IInv, TypeOK, CallShape,
         LockShape, HolderShape, DropStages, CtxStages, Res
<1>2. ASSUME NEW t \in Threads, NEW m \in Models, LoadModel(t, m) PROVE HolderShape'
  BY <1>2, ResourceAssumption DEF LoadModel, Wrap, objects, threads, interrupt, IInv, TypeOK,
         CallShape, LockShape, HolderShape, DropStages, CtxStages, Res
<1>3. ASSUME NEW t \in Threads, NEW m \in Models, FreeModelDeferred(t, m) PROVE HolderShape'
  BY <1>3, ResourceAssumption DEF FreeModelDeferred, Callable, objects, threads, interrupt, IInv,
         TypeOK, CallShape, LockShape, HolderShape, DropStages, CtxStages,
         Res
<1>4. ASSUME NEW t \in Threads, NEW m \in Models, FreeModelNow(t, m) PROVE HolderShape'
  BY <1>4, ResourceAssumption DEF FreeModelNow, Callable, FreeModelObject, Leftover, Freed,
         objects, threads, interrupt, IInv, TypeOK, CallShape, LockShape,
         HolderShape, DropStages, CtxStages, Res
<1>5. ASSUME NEW t \in Threads, NEW m \in Models, ModelDtor(t, m) PROVE HolderShape'
  BY <1>5, ResourceAssumption DEF ModelDtor, Destroy, Collectable, InUse, Leftover, Freed, objects,
         threads, interrupt, IInv, TypeOK, CallShape, LockShape,
         HolderShape, DropStages, CtxStages, Res
<1>6. ASSUME NEW t \in Threads, NEW m \in Models, NEW c \in Contexts, NewContext(t, m, c) PROVE HolderShape'
  BY <1>6, ResourceAssumption DEF NewContext, Callable, Wrap, objects, threads, interrupt, IInv,
         TypeOK, CallShape, LockShape, HolderShape, DropStages, CtxStages,
         Res
<1>7. ASSUME NEW t \in Threads, NEW m \in Models, NEW a \in Adapters, AdapterLoad(t, m, a) PROVE HolderShape'
  BY <1>7, ResourceAssumption DEF AdapterLoad, Callable, Wrap, objects, threads, interrupt, IInv,
         TypeOK, CallShape, LockShape, HolderShape, DropStages, CtxStages,
         Res
<1>8. ASSUME NEW t \in Threads, NEW c \in Contexts, FreeContext(t, c) PROVE HolderShape'
  BY <1>8, ResourceAssumption DEF FreeContext, Callable, Goto, Freed, objects, threads, interrupt,
         IInv, TypeOK, CallShape, LockShape, HolderShape, DropStages,
         CtxStages, Res
<1>9. ASSUME NEW t \in Threads, NEW c \in Contexts, CtxDtor(t, c) PROVE HolderShape'
  BY <1>9, ResourceAssumption DEF CtxDtor, UserDtor, Destroy, Collectable, InUse, Goto, Freed,
         objects, threads, interrupt, IInv, TypeOK, CallShape, LockShape,
         HolderShape, DropStages, CtxStages, Res
<1>10. ASSUME NEW t \in Threads, NEW c \in Contexts, NEW s \in Samplers, SamplerNew(t, c, s) PROVE HolderShape'
  BY <1>10, ResourceAssumption DEF SamplerNew, Callable, Wrap, objects, threads, interrupt, IInv,
         TypeOK, CallShape, LockShape, HolderShape, DropStages, CtxStages,
         Res
<1>11. ASSUME NEW t \in Threads, NEW a \in Adapters, AdapterFree(t, a) PROVE HolderShape'
  BY <1>11, ResourceAssumption DEF AdapterFree, FreeLeaf, Callable, Freed, objects, threads,
         interrupt, IInv, TypeOK, CallShape, LockShape, HolderShape,
         DropStages, CtxStages, Res
<1>12. ASSUME NEW t \in Threads, NEW a \in Adapters, AdapterDtor(t, a) PROVE HolderShape'
  BY <1>12, ResourceAssumption DEF AdapterDtor, UserDtor, Destroy, Collectable, InUse, Goto, Freed,
         objects, threads, interrupt, IInv, TypeOK, CallShape, LockShape,
         HolderShape, DropStages, CtxStages, Res
<1>13. ASSUME NEW t \in Threads, NEW s \in Samplers, SamplerFree(t, s) PROVE HolderShape'
  BY <1>13, ResourceAssumption DEF SamplerFree, FreeLeaf, Callable, Freed, objects, threads,
         interrupt, IInv, TypeOK, CallShape, LockShape, HolderShape,
         DropStages, CtxStages, Res
<1>14. ASSUME NEW t \in Threads, NEW s \in Samplers, SamplerDtor(t, s) PROVE HolderShape'
  BY <1>14, ResourceAssumption DEF SamplerDtor, Destroy, Collectable, InUse, Freed, objects,
         threads, interrupt, IInv, TypeOK, CallShape, LockShape,
         HolderShape, DropStages, CtxStages, Res
<1>15. ASSUME NEW t \in Threads, DropModel(t) PROVE HolderShape'
  BY <1>15, ResourceAssumption DEF DropModel, FreeModelObject, Return, Leftover, Freed, objects,
         threads, interrupt, IInv, TypeOK, CallShape, LockShape,
         HolderShape, DropStages, CtxStages, Res
<1>16. ASSUME NEW t \in Threads, NEW c \in Contexts, NEW S \in SUBSET Samplers, StepBegin(t, c, S) PROVE HolderShape'
  BY <1>16, ResourceAssumption DEF StepBegin, Callable, Goto, objects, threads, interrupt, IInv,
         TypeOK, CallShape, LockShape, HolderShape, DropStages, CtxStages,
         Res
<1>17. ASSUME NEW t \in Threads, NEW c \in Contexts, DecodeUnarmed(t, c) PROVE HolderShape'
  BY <1>17, ResourceAssumption DEF DecodeUnarmed, Callable, Goto, objects, threads, interrupt, IInv,
         TypeOK, CallShape, LockShape, HolderShape, DropStages, CtxStages,
         Res
<1>18. ASSUME NEW t \in Threads, NEW s \in Samplers, SampleRow(t, s) PROVE HolderShape'
  BY <1>18, ResourceAssumption DEF SampleRow, Goto, objects, threads, interrupt, IInv, TypeOK,
         CallShape, LockShape, HolderShape, DropStages, CtxStages, Res
<1>19. ASSUME NEW t \in Threads, NEW s \in Samplers, StepReleased(t, s) PROVE HolderShape'
  BY <1>19, ResourceAssumption DEF StepReleased, Return, objects, threads, interrupt, IInv, TypeOK,
         CallShape, LockShape, HolderShape, DropStages, CtxStages, Res
<1>20. ASSUME NEW t \in Threads, StepRefused(t) PROVE HolderShape'
  BY <1>20, ResourceAssumption DEF StepRefused, Return, objects, threads, interrupt, IInv, TypeOK,
         CallShape, LockShape, HolderShape, DropStages, CtxStages, Res
<1>21. ASSUME NEW t \in Threads, NEW s \in Samplers, SampledRow(t, s) PROVE HolderShape'
  BY <1>21, ResourceAssumption DEF SampledRow, Goto, objects, threads, interrupt, IInv, TypeOK,
         CallShape, LockShape, HolderShape, DropStages, CtxStages, Res
<1>22. ASSUME NEW t \in Threads, StepDecode(t) PROVE HolderShape'
  BY <1>22, ResourceAssumption DEF StepDecode, Goto, objects, threads, interrupt, IInv, TypeOK,
         CallShape, LockShape, HolderShape, DropStages, CtxStages, Res
<1>23. ASSUME NEW t \in Threads, DecodeReturns(t) PROVE HolderShape'
  BY <1>23, ResourceAssumption DEF DecodeReturns, Return, objects, threads, interrupt, IInv, TypeOK,
         CallShape, LockShape, HolderShape, DropStages, CtxStages, Res
<1>24. ASSUME NEW t \in Threads, DecodeInterrupted(t) PROVE HolderShape'
  BY <1>24, ResourceAssumption DEF DecodeInterrupted, Goto, objects, threads, interrupt, IInv,
         TypeOK, CallShape, LockShape, HolderShape, DropStages, CtxStages,
         Res
<1>25. ASSUME NEW t \in Threads, InterruptReported(t) PROVE HolderShape'
  BY <1>25, ResourceAssumption DEF InterruptReported, Return, objects, threads, interrupt, IInv,
         TypeOK, CallShape, LockShape, HolderShape, DropStages, CtxStages,
         Res
<1>26. ASSUME NEW t \in Threads, NEW c \in Contexts, NEW A \in SUBSET Adapters, SetAdapters(t, c, A) PROVE HolderShape'
  BY <1>26, ResourceAssumption DEF SetAdapters, Callable, Goto, objects, threads, interrupt, IInv,
         TypeOK, CallShape, LockShape, HolderShape, DropStages, CtxStages,
         Res
<1>27. ASSUME NEW t \in Threads, NEW a \in Adapters, SetAdaptersLock(t, a) PROVE HolderShape'
  BY <1>27, ResourceAssumption DEF SetAdaptersLock, NextAdapter, Missing, objects, threads,
         interrupt, IInv, TypeOK, CallShape, LockShape, HolderShape,
         DropStages, CtxStages, Res
<1>28. ASSUME NEW t \in Threads, NEW a \in Adapters, SetAdaptersReleased(t, a) PROVE HolderShape'
  BY <1>28, ResourceAssumption DEF SetAdaptersReleased, Return, objects, threads, interrupt, IInv,
         TypeOK, CallShape, LockShape, HolderShape, DropStages, CtxStages,
         Res
<1>29. ASSUME NEW t \in Threads, SetAdaptersContext(t) PROVE HolderShape'
  BY <1>29, ResourceAssumption DEF SetAdaptersContext, Goto, Return, Missing, objects, threads,
         interrupt, IInv, TypeOK, CallShape, LockShape, HolderShape,
         DropStages, CtxStages, Res
<1>30. ASSUME NEW t \in Threads, SetAdaptersDone(t) PROVE HolderShape'
  BY <1>30, ResourceAssumption DEF SetAdaptersDone, Return, objects, threads, interrupt, IInv,
         TypeOK, CallShape, LockShape, HolderShape, DropStages, CtxStages,
         Res
<1>31. ASSUME NEW r \in Res, DropTerm(r) PROVE HolderShape'
  BY <1>31, ResourceAssumption DEF DropTerm, objects, threads, interrupt, IInv, TypeOK, CallShape,
         LockShape, HolderShape, DropStages, CtxStages, Res
<1>32. ASSUME NEW c \in Contexts, RequestAbort(c) PROVE HolderShape'
  BY <1>32, ResourceAssumption DEF RequestAbort, objects, threads, interrupt, IInv, TypeOK,
         CallShape, LockShape, HolderShape, DropStages, CtxStages, Res
<1>33. ASSUME NEW c \in Contexts, DeadlinePasses(c) PROVE HolderShape'
  BY <1>33, ResourceAssumption DEF DeadlinePasses, objects, threads, interrupt, IInv, TypeOK,
         CallShape, LockShape, HolderShape, DropStages, CtxStages, Res
<1>. QED BY <1>1, <1>2, <1>3, <1>4, <1>5, <1>6, <1>7, <1>8, <1>9, <1>10,
       <1>11, <1>12, <1>13, <1>14, <1>15, <1>16, <1>17, <1>18, <1>19, <1>20,
       <1>21, <1>22, <1>23, <1>24, <1>25, <1>26, <1>27, <1>28, <1>29, <1>30,
       <1>31, <1>32, <1>33
  DEF Next, Lifetimes, Decodes, Installs, DecodeOne, Embed, Prefill,
      ForwardWithArgmax

\* LockOrder is preserved by every step
LEMMA LockOrderNext == ASSUME IInv, [Next]_vars PROVE LockOrder'
<1>1. CASE UNCHANGED vars
  BY <1>1 DEF vars, objects, threads, interrupt, IInv, TypeOK, CallShape,
         LockShape, LockOrder, DropStages, CtxStages, Res
<1>2. ASSUME NEW t \in Threads, NEW m \in Models, LoadModel(t, m) PROVE LockOrder'
  BY <1>2, ResourceAssumption DEF LoadModel, Wrap, objects, threads, interrupt, IInv, TypeOK,
         CallShape, LockShape, LockOrder, DropStages, CtxStages, Res
<1>3. ASSUME NEW t \in Threads, NEW m \in Models, FreeModelDeferred(t, m) PROVE LockOrder'
  BY <1>3, ResourceAssumption DEF FreeModelDeferred, Callable, objects, threads, interrupt, IInv,
         TypeOK, CallShape, LockShape, LockOrder, DropStages, CtxStages,
         Res
<1>4. ASSUME NEW t \in Threads, NEW m \in Models, FreeModelNow(t, m) PROVE LockOrder'
  BY <1>4, ResourceAssumption DEF FreeModelNow, Callable, FreeModelObject, Leftover, Freed,
         objects, threads, interrupt, IInv, TypeOK, CallShape, LockShape,
         LockOrder, DropStages, CtxStages, Res
<1>5. ASSUME NEW t \in Threads, NEW m \in Models, ModelDtor(t, m) PROVE LockOrder'
  BY <1>5, ResourceAssumption DEF ModelDtor, Destroy, Collectable, InUse, Leftover, Freed, objects,
         threads, interrupt, IInv, TypeOK, CallShape, LockShape,
         LockOrder, DropStages, CtxStages, Res
<1>6. ASSUME NEW t \in Threads, NEW m \in Models, NEW c \in Contexts, NewContext(t, m, c) PROVE LockOrder'
  BY <1>6, ResourceAssumption DEF NewContext, Callable, Wrap, objects, threads, interrupt, IInv,
         TypeOK, CallShape, LockShape, LockOrder, DropStages, CtxStages,
         Res
<1>7. ASSUME NEW t \in Threads, NEW m \in Models, NEW a \in Adapters, AdapterLoad(t, m, a) PROVE LockOrder'
  BY <1>7, ResourceAssumption DEF AdapterLoad, Callable, Wrap, objects, threads, interrupt, IInv,
         TypeOK, CallShape, LockShape, LockOrder, DropStages, CtxStages,
         Res
<1>8. ASSUME NEW t \in Threads, NEW c \in Contexts, FreeContext(t, c) PROVE LockOrder'
  BY <1>8, ResourceAssumption DEF FreeContext, Callable, Goto, Freed, objects, threads, interrupt,
         IInv, TypeOK, CallShape, LockShape, LockOrder, DropStages,
         CtxStages, Res
<1>9. ASSUME NEW t \in Threads, NEW c \in Contexts, CtxDtor(t, c) PROVE LockOrder'
  BY <1>9, ResourceAssumption DEF CtxDtor, UserDtor, Destroy, Collectable, InUse, Goto, Freed,
         objects, threads, interrupt, IInv, TypeOK, CallShape, LockShape,
         LockOrder, DropStages, CtxStages, Res
<1>10. ASSUME NEW t \in Threads, NEW c \in Contexts, NEW s \in Samplers, SamplerNew(t, c, s) PROVE LockOrder'
  BY <1>10, ResourceAssumption DEF SamplerNew, Callable, Wrap, objects, threads, interrupt, IInv,
         TypeOK, CallShape, LockShape, LockOrder, DropStages, CtxStages,
         Res
<1>11. ASSUME NEW t \in Threads, NEW a \in Adapters, AdapterFree(t, a) PROVE LockOrder'
  BY <1>11, ResourceAssumption DEF AdapterFree, FreeLeaf, Callable, Freed, objects, threads,
         interrupt, IInv, TypeOK, CallShape, LockShape, LockOrder,
         DropStages, CtxStages, Res
<1>12. ASSUME NEW t \in Threads, NEW a \in Adapters, AdapterDtor(t, a) PROVE LockOrder'
  BY <1>12, ResourceAssumption DEF AdapterDtor, UserDtor, Destroy, Collectable, InUse, Goto, Freed,
         objects, threads, interrupt, IInv, TypeOK, CallShape, LockShape,
         LockOrder, DropStages, CtxStages, Res
<1>13. ASSUME NEW t \in Threads, NEW s \in Samplers, SamplerFree(t, s) PROVE LockOrder'
  BY <1>13, ResourceAssumption DEF SamplerFree, FreeLeaf, Callable, Freed, objects, threads,
         interrupt, IInv, TypeOK, CallShape, LockShape, LockOrder,
         DropStages, CtxStages, Res
<1>14. ASSUME NEW t \in Threads, NEW s \in Samplers, SamplerDtor(t, s) PROVE LockOrder'
  BY <1>14, ResourceAssumption DEF SamplerDtor, Destroy, Collectable, InUse, Freed, objects,
         threads, interrupt, IInv, TypeOK, CallShape, LockShape,
         LockOrder, DropStages, CtxStages, Res
<1>15. ASSUME NEW t \in Threads, DropModel(t) PROVE LockOrder'
  BY <1>15, ResourceAssumption DEF DropModel, FreeModelObject, Return, Leftover, Freed, objects,
         threads, interrupt, IInv, TypeOK, CallShape, LockShape,
         LockOrder, DropStages, CtxStages, Res
<1>16. ASSUME NEW t \in Threads, NEW c \in Contexts, NEW S \in SUBSET Samplers, StepBegin(t, c, S) PROVE LockOrder'
  BY <1>16, ResourceAssumption DEF StepBegin, Callable, Goto, objects, threads, interrupt, IInv,
         TypeOK, CallShape, LockShape, LockOrder, DropStages, CtxStages,
         Res
<1>17. ASSUME NEW t \in Threads, NEW c \in Contexts, DecodeUnarmed(t, c) PROVE LockOrder'
  BY <1>17, ResourceAssumption DEF DecodeUnarmed, Callable, Goto, objects, threads, interrupt, IInv,
         TypeOK, CallShape, LockShape, LockOrder, DropStages, CtxStages,
         Res
<1>18. ASSUME NEW t \in Threads, NEW s \in Samplers, SampleRow(t, s) PROVE LockOrder'
  BY <1>18, ResourceAssumption DEF SampleRow, Goto, objects, threads, interrupt, IInv, TypeOK,
         CallShape, LockShape, LockOrder, DropStages, CtxStages, Res
<1>19. ASSUME NEW t \in Threads, NEW s \in Samplers, StepReleased(t, s) PROVE LockOrder'
  BY <1>19, ResourceAssumption DEF StepReleased, Return, objects, threads, interrupt, IInv, TypeOK,
         CallShape, LockShape, LockOrder, DropStages, CtxStages, Res
<1>20. ASSUME NEW t \in Threads, StepRefused(t) PROVE LockOrder'
  BY <1>20, ResourceAssumption DEF StepRefused, Return, objects, threads, interrupt, IInv, TypeOK,
         CallShape, LockShape, LockOrder, DropStages, CtxStages, Res
<1>21. ASSUME NEW t \in Threads, NEW s \in Samplers, SampledRow(t, s) PROVE LockOrder'
  BY <1>21, ResourceAssumption DEF SampledRow, Goto, objects, threads, interrupt, IInv, TypeOK,
         CallShape, LockShape, LockOrder, DropStages, CtxStages, Res
<1>22. ASSUME NEW t \in Threads, StepDecode(t) PROVE LockOrder'
  BY <1>22, ResourceAssumption DEF StepDecode, Goto, objects, threads, interrupt, IInv, TypeOK,
         CallShape, LockShape, LockOrder, DropStages, CtxStages, Res
<1>23. ASSUME NEW t \in Threads, DecodeReturns(t) PROVE LockOrder'
  BY <1>23, ResourceAssumption DEF DecodeReturns, Return, objects, threads, interrupt, IInv, TypeOK,
         CallShape, LockShape, LockOrder, DropStages, CtxStages, Res
<1>24. ASSUME NEW t \in Threads, DecodeInterrupted(t) PROVE LockOrder'
  BY <1>24, ResourceAssumption DEF DecodeInterrupted, Goto, objects, threads, interrupt, IInv,
         TypeOK, CallShape, LockShape, LockOrder, DropStages, CtxStages,
         Res
<1>25. ASSUME NEW t \in Threads, InterruptReported(t) PROVE LockOrder'
  BY <1>25, ResourceAssumption DEF InterruptReported, Return, objects, threads, interrupt, IInv,
         TypeOK, CallShape, LockShape, LockOrder, DropStages, CtxStages,
         Res
<1>26. ASSUME NEW t \in Threads, NEW c \in Contexts, NEW A \in SUBSET Adapters, SetAdapters(t, c, A) PROVE LockOrder'
  BY <1>26, ResourceAssumption DEF SetAdapters, Callable, Goto, objects, threads, interrupt, IInv,
         TypeOK, CallShape, LockShape, LockOrder, DropStages, CtxStages,
         Res
<1>27. ASSUME NEW t \in Threads, NEW a \in Adapters, SetAdaptersLock(t, a) PROVE LockOrder'
  BY SMTT(20), <1>27, ResourceAssumption DEF SetAdaptersLock, NextAdapter, Missing, objects, threads,
         interrupt, IInv, TypeOK, CallShape, LockShape, LockOrder,
         DropStages, CtxStages, Res
<1>28. ASSUME NEW t \in Threads, NEW a \in Adapters, SetAdaptersReleased(t, a) PROVE LockOrder'
  BY <1>28, ResourceAssumption DEF SetAdaptersReleased, Return, objects, threads, interrupt, IInv,
         TypeOK, CallShape, LockShape, LockOrder, DropStages, CtxStages,
         Res
<1>29. ASSUME NEW t \in Threads, SetAdaptersContext(t) PROVE LockOrder'
  BY <1>29, ResourceAssumption DEF SetAdaptersContext, Goto, Return, Missing, objects, threads,
         interrupt, IInv, TypeOK, CallShape, LockShape, LockOrder,
         DropStages, CtxStages, Res
<1>30. ASSUME NEW t \in Threads, SetAdaptersDone(t) PROVE LockOrder'
  BY <1>30, ResourceAssumption DEF SetAdaptersDone, Return, objects, threads, interrupt, IInv,
         TypeOK, CallShape, LockShape, LockOrder, DropStages, CtxStages,
         Res
<1>31. ASSUME NEW r \in Res, DropTerm(r) PROVE LockOrder'
  BY <1>31, ResourceAssumption DEF DropTerm, objects, threads, interrupt, IInv, TypeOK, CallShape,
         LockShape, LockOrder, DropStages, CtxStages, Res
<1>32. ASSUME NEW c \in Contexts, RequestAbort(c) PROVE LockOrder'
  BY <1>32, ResourceAssumption DEF RequestAbort, objects, threads, interrupt, IInv, TypeOK,
         CallShape, LockShape, LockOrder, DropStages, CtxStages, Res
<1>33. ASSUME NEW c \in Contexts, DeadlinePasses(c) PROVE LockOrder'
  BY <1>33, ResourceAssumption DEF DeadlinePasses, objects, threads, interrupt, IInv, TypeOK,
         CallShape, LockShape, LockOrder, DropStages, CtxStages, Res
<1>. QED BY <1>1, <1>2, <1>3, <1>4, <1>5, <1>6, <1>7, <1>8, <1>9, <1>10,
       <1>11, <1>12, <1>13, <1>14, <1>15, <1>16, <1>17, <1>18, <1>19, <1>20,
       <1>21, <1>22, <1>23, <1>24, <1>25, <1>26, <1>27, <1>28, <1>29, <1>30,
       <1>31, <1>32, <1>33
  DEF Next, Lifetimes, Decodes, Installs, DecodeOne, Embed, Prefill,
      ForwardWithArgmax

\* Interrupts is preserved by every step
LEMMA InterruptsNext == ASSUME IInv, [Next]_vars PROVE Interrupts'
<1>1. CASE UNCHANGED vars
  BY <1>1 DEF vars, objects, threads, interrupt, IInv, TypeOK, CallShape,
         LockShape, HolderShape, DropStages, CtxStages, Res, Interrupts
<1>2. ASSUME NEW t \in Threads, NEW m \in Models, LoadModel(t, m) PROVE Interrupts'
  BY <1>2, ResourceAssumption DEF LoadModel, Wrap, objects, threads, interrupt, IInv, TypeOK,
         CallShape, LockShape, HolderShape, DropStages, CtxStages, Res,
         Interrupts
<1>3. ASSUME NEW t \in Threads, NEW m \in Models, FreeModelDeferred(t, m) PROVE Interrupts'
  BY <1>3, ResourceAssumption DEF FreeModelDeferred, Callable, objects, threads, interrupt, IInv,
         TypeOK, CallShape, LockShape, HolderShape, DropStages, CtxStages,
         Res, Interrupts
<1>4. ASSUME NEW t \in Threads, NEW m \in Models, FreeModelNow(t, m) PROVE Interrupts'
  BY <1>4, ResourceAssumption DEF FreeModelNow, Callable, FreeModelObject, Leftover, Freed,
         objects, threads, interrupt, IInv, TypeOK, CallShape, LockShape,
         HolderShape, DropStages, CtxStages, Res, Interrupts
<1>5. ASSUME NEW t \in Threads, NEW m \in Models, ModelDtor(t, m) PROVE Interrupts'
  BY <1>5, ResourceAssumption DEF ModelDtor, Destroy, Collectable, InUse, Leftover, Freed, objects,
         threads, interrupt, IInv, TypeOK, CallShape, LockShape,
         HolderShape, DropStages, CtxStages, Res, Interrupts
<1>6. ASSUME NEW t \in Threads, NEW m \in Models, NEW c \in Contexts, NewContext(t, m, c) PROVE Interrupts'
  BY <1>6, ResourceAssumption DEF NewContext, Callable, Wrap, objects, threads, interrupt, IInv,
         TypeOK, CallShape, LockShape, HolderShape, DropStages, CtxStages,
         Res, Interrupts
<1>7. ASSUME NEW t \in Threads, NEW m \in Models, NEW a \in Adapters, AdapterLoad(t, m, a) PROVE Interrupts'
  BY <1>7, ResourceAssumption DEF AdapterLoad, Callable, Wrap, objects, threads, interrupt, IInv,
         TypeOK, CallShape, LockShape, HolderShape, DropStages, CtxStages,
         Res, Interrupts
<1>8. ASSUME NEW t \in Threads, NEW c \in Contexts, FreeContext(t, c) PROVE Interrupts'
  BY <1>8, ResourceAssumption DEF FreeContext, Callable, Goto, Freed, objects, threads, interrupt,
         IInv, TypeOK, CallShape, LockShape, HolderShape, DropStages,
         CtxStages, Res, Interrupts
<1>9. ASSUME NEW t \in Threads, NEW c \in Contexts, CtxDtor(t, c) PROVE Interrupts'
  BY <1>9, ResourceAssumption DEF CtxDtor, UserDtor, Destroy, Collectable, InUse, Goto, Freed,
         objects, threads, interrupt, IInv, TypeOK, CallShape, LockShape,
         HolderShape, DropStages, CtxStages, Res, Interrupts
<1>10. ASSUME NEW t \in Threads, NEW c \in Contexts, NEW s \in Samplers, SamplerNew(t, c, s) PROVE Interrupts'
  BY <1>10, ResourceAssumption DEF SamplerNew, Callable, Wrap, objects, threads, interrupt, IInv,
         TypeOK, CallShape, LockShape, HolderShape, DropStages, CtxStages,
         Res, Interrupts
<1>11. ASSUME NEW t \in Threads, NEW a \in Adapters, AdapterFree(t, a) PROVE Interrupts'
  BY <1>11, ResourceAssumption DEF AdapterFree, FreeLeaf, Callable, Freed, objects, threads,
         interrupt, IInv, TypeOK, CallShape, LockShape, HolderShape,
         DropStages, CtxStages, Res, Interrupts
<1>12. ASSUME NEW t \in Threads, NEW a \in Adapters, AdapterDtor(t, a) PROVE Interrupts'
  BY <1>12, ResourceAssumption DEF AdapterDtor, UserDtor, Destroy, Collectable, InUse, Goto, Freed,
         objects, threads, interrupt, IInv, TypeOK, CallShape, LockShape,
         HolderShape, DropStages, CtxStages, Res, Interrupts
<1>13. ASSUME NEW t \in Threads, NEW s \in Samplers, SamplerFree(t, s) PROVE Interrupts'
  BY <1>13, ResourceAssumption DEF SamplerFree, FreeLeaf, Callable, Freed, objects, threads,
         interrupt, IInv, TypeOK, CallShape, LockShape, HolderShape,
         DropStages, CtxStages, Res, Interrupts
<1>14. ASSUME NEW t \in Threads, NEW s \in Samplers, SamplerDtor(t, s) PROVE Interrupts'
  BY <1>14, ResourceAssumption DEF SamplerDtor, Destroy, Collectable, InUse, Freed, objects,
         threads, interrupt, IInv, TypeOK, CallShape, LockShape,
         HolderShape, DropStages, CtxStages, Res, Interrupts
<1>15. ASSUME NEW t \in Threads, DropModel(t) PROVE Interrupts'
  BY <1>15, ResourceAssumption DEF DropModel, FreeModelObject, Return, Leftover, Freed, objects,
         threads, interrupt, IInv, TypeOK, CallShape, LockShape,
         HolderShape, DropStages, CtxStages, Res, Interrupts
<1>16. ASSUME NEW t \in Threads, NEW c \in Contexts, NEW S \in SUBSET Samplers, StepBegin(t, c, S) PROVE Interrupts'
  BY <1>16, ResourceAssumption DEF StepBegin, Callable, Goto, objects, threads, interrupt, IInv,
         TypeOK, CallShape, LockShape, HolderShape, DropStages, CtxStages,
         Res, Interrupts
<1>17. ASSUME NEW t \in Threads, NEW c \in Contexts, DecodeUnarmed(t, c) PROVE Interrupts'
  BY <1>17, ResourceAssumption DEF DecodeUnarmed, Callable, Goto, objects, threads, interrupt, IInv,
         TypeOK, CallShape, LockShape, HolderShape, DropStages, CtxStages,
         Res, Interrupts
<1>18. ASSUME NEW t \in Threads, NEW s \in Samplers, SampleRow(t, s) PROVE Interrupts'
  BY <1>18, ResourceAssumption DEF SampleRow, Goto, objects, threads, interrupt, IInv, TypeOK,
         CallShape, LockShape, HolderShape, DropStages, CtxStages, Res,
         Interrupts
<1>19. ASSUME NEW t \in Threads, NEW s \in Samplers, StepReleased(t, s) PROVE Interrupts'
  BY <1>19, ResourceAssumption DEF StepReleased, Return, objects, threads, interrupt, IInv, TypeOK,
         CallShape, LockShape, HolderShape, DropStages, CtxStages, Res,
         Interrupts
<1>20. ASSUME NEW t \in Threads, StepRefused(t) PROVE Interrupts'
  BY <1>20, ResourceAssumption DEF StepRefused, Return, objects, threads, interrupt, IInv, TypeOK,
         CallShape, LockShape, HolderShape, DropStages, CtxStages, Res,
         Interrupts
<1>21. ASSUME NEW t \in Threads, NEW s \in Samplers, SampledRow(t, s) PROVE Interrupts'
  BY <1>21, ResourceAssumption DEF SampledRow, Goto, objects, threads, interrupt, IInv, TypeOK,
         CallShape, LockShape, HolderShape, DropStages, CtxStages, Res,
         Interrupts
<1>22. ASSUME NEW t \in Threads, StepDecode(t) PROVE Interrupts'
  BY <1>22, ResourceAssumption DEF StepDecode, Goto, objects, threads, interrupt, IInv, TypeOK,
         CallShape, LockShape, HolderShape, DropStages, CtxStages, Res,
         Interrupts
<1>23. ASSUME NEW t \in Threads, DecodeReturns(t) PROVE Interrupts'
  BY <1>23, ResourceAssumption DEF DecodeReturns, Return, objects, threads, interrupt, IInv, TypeOK,
         CallShape, LockShape, HolderShape, DropStages, CtxStages, Res,
         Interrupts
<1>24. ASSUME NEW t \in Threads, DecodeInterrupted(t) PROVE Interrupts'
  BY <1>24, ResourceAssumption DEF DecodeInterrupted, Goto, objects, threads, interrupt, IInv,
         TypeOK, CallShape, LockShape, HolderShape, DropStages, CtxStages,
         Res, Interrupts
<1>25. ASSUME NEW t \in Threads, InterruptReported(t) PROVE Interrupts'
  BY <1>25, ResourceAssumption DEF InterruptReported, Return, objects, threads, interrupt, IInv,
         TypeOK, CallShape, LockShape, HolderShape, DropStages, CtxStages,
         Res, Interrupts
<1>26. ASSUME NEW t \in Threads, NEW c \in Contexts, NEW A \in SUBSET Adapters, SetAdapters(t, c, A) PROVE Interrupts'
  BY <1>26, ResourceAssumption DEF SetAdapters, Callable, Goto, objects, threads, interrupt, IInv,
         TypeOK, CallShape, LockShape, HolderShape, DropStages, CtxStages,
         Res, Interrupts
<1>27. ASSUME NEW t \in Threads, NEW a \in Adapters, SetAdaptersLock(t, a) PROVE Interrupts'
  BY <1>27, ResourceAssumption DEF SetAdaptersLock, NextAdapter, Missing, objects, threads,
         interrupt, IInv, TypeOK, CallShape, LockShape, HolderShape,
         DropStages, CtxStages, Res, Interrupts
<1>28. ASSUME NEW t \in Threads, NEW a \in Adapters, SetAdaptersReleased(t, a) PROVE Interrupts'
  BY <1>28, ResourceAssumption DEF SetAdaptersReleased, Return, objects, threads, interrupt, IInv,
         TypeOK, CallShape, LockShape, HolderShape, DropStages, CtxStages,
         Res, Interrupts
<1>29. ASSUME NEW t \in Threads, SetAdaptersContext(t) PROVE Interrupts'
  BY <1>29, ResourceAssumption DEF SetAdaptersContext, Goto, Return, Missing, objects, threads,
         interrupt, IInv, TypeOK, CallShape, LockShape, HolderShape,
         DropStages, CtxStages, Res, Interrupts
<1>30. ASSUME NEW t \in Threads, SetAdaptersDone(t) PROVE Interrupts'
  BY <1>30, ResourceAssumption DEF SetAdaptersDone, Return, objects, threads, interrupt, IInv,
         TypeOK, CallShape, LockShape, HolderShape, DropStages, CtxStages,
         Res, Interrupts
<1>31. ASSUME NEW r \in Res, DropTerm(r) PROVE Interrupts'
  BY <1>31, ResourceAssumption DEF DropTerm, objects, threads, interrupt, IInv, TypeOK, CallShape,
         LockShape, HolderShape, DropStages, CtxStages, Res, Interrupts
<1>32. ASSUME NEW c \in Contexts, RequestAbort(c) PROVE Interrupts'
  BY <1>32, ResourceAssumption DEF RequestAbort, objects, threads, interrupt, IInv, TypeOK,
         CallShape, LockShape, HolderShape, DropStages, CtxStages, Res,
         Interrupts
<1>33. ASSUME NEW c \in Contexts, DeadlinePasses(c) PROVE Interrupts'
  BY <1>33, ResourceAssumption DEF DeadlinePasses, objects, threads, interrupt, IInv, TypeOK,
         CallShape, LockShape, HolderShape, DropStages, CtxStages, Res,
         Interrupts
<1>. QED BY <1>1, <1>2, <1>3, <1>4, <1>5, <1>6, <1>7, <1>8, <1>9, <1>10,
       <1>11, <1>12, <1>13, <1>14, <1>15, <1>16, <1>17, <1>18, <1>19, <1>20,
       <1>21, <1>22, <1>23, <1>24, <1>25, <1>26, <1>27, <1>28, <1>29, <1>30,
       <1>31, <1>32, <1>33
  DEF Next, Lifetimes, Decodes, Installs, DecodeOne, Embed, Prefill,
      ForwardWithArgmax

\* LockedAlive is preserved by every step
LEMMA LockedAliveNext == ASSUME IInv, [Next]_vars PROVE LockedAlive'
<1>1. CASE UNCHANGED vars
  BY <1>1 DEF vars, objects, threads, interrupt, IInv, TypeOK, CallShape,
         LockShape, HolderShape, DropStages, CtxStages, Res, LockedAlive,
         Referenced
<1>2. ASSUME NEW t \in Threads, NEW m \in Models, LoadModel(t, m) PROVE LockedAlive'
  BY <1>2, ResourceAssumption DEF LoadModel, Wrap, objects, threads, interrupt, IInv, TypeOK,
         CallShape, LockShape, HolderShape, DropStages, CtxStages, Res,
         LockedAlive, Referenced
<1>3. ASSUME NEW t \in Threads, NEW m \in Models, FreeModelDeferred(t, m) PROVE LockedAlive'
  BY <1>3, ResourceAssumption DEF FreeModelDeferred, Callable, objects, threads, interrupt, IInv,
         TypeOK, CallShape, LockShape, HolderShape, DropStages, CtxStages,
         Res, LockedAlive, Referenced
<1>4. ASSUME NEW t \in Threads, NEW m \in Models, FreeModelNow(t, m) PROVE LockedAlive'
  BY <1>4, ResourceAssumption DEF FreeModelNow, Callable, FreeModelObject, Leftover, Freed,
         objects, threads, interrupt, IInv, TypeOK, CallShape, LockShape,
         HolderShape, DropStages, CtxStages, Res, LockedAlive, Referenced
<1>5. ASSUME NEW t \in Threads, NEW m \in Models, ModelDtor(t, m) PROVE LockedAlive'
  BY <1>5, ResourceAssumption DEF ModelDtor, Destroy, Collectable, InUse, Leftover, Freed, objects,
         threads, interrupt, IInv, TypeOK, CallShape, LockShape,
         HolderShape, DropStages, CtxStages, Res, LockedAlive, Referenced
<1>6. ASSUME NEW t \in Threads, NEW m \in Models, NEW c \in Contexts, NewContext(t, m, c) PROVE LockedAlive'
  BY <1>6, ResourceAssumption DEF NewContext, Callable, Wrap, objects, threads, interrupt, IInv,
         TypeOK, CallShape, LockShape, HolderShape, DropStages, CtxStages,
         Res, LockedAlive, Referenced
<1>7. ASSUME NEW t \in Threads, NEW m \in Models, NEW a \in Adapters, AdapterLoad(t, m, a) PROVE LockedAlive'
  BY <1>7, ResourceAssumption DEF AdapterLoad, Callable, Wrap, objects, threads, interrupt, IInv,
         TypeOK, CallShape, LockShape, HolderShape, DropStages, CtxStages,
         Res, LockedAlive, Referenced
<1>8. ASSUME NEW t \in Threads, NEW c \in Contexts, FreeContext(t, c) PROVE LockedAlive'
  BY <1>8, ResourceAssumption DEF FreeContext, Callable, Goto, Freed, objects, threads, interrupt,
         IInv, TypeOK, CallShape, LockShape, HolderShape, DropStages,
         CtxStages, Res, LockedAlive, Referenced
<1>9. ASSUME NEW t \in Threads, NEW c \in Contexts, CtxDtor(t, c) PROVE LockedAlive'
  BY <1>9, ResourceAssumption DEF CtxDtor, UserDtor, Destroy, Collectable, InUse, Goto, Freed,
         objects, threads, interrupt, IInv, TypeOK, CallShape, LockShape,
         HolderShape, DropStages, CtxStages, Res, LockedAlive, Referenced
<1>10. ASSUME NEW t \in Threads, NEW c \in Contexts, NEW s \in Samplers, SamplerNew(t, c, s) PROVE LockedAlive'
  BY <1>10, ResourceAssumption DEF SamplerNew, Callable, Wrap, objects, threads, interrupt, IInv,
         TypeOK, CallShape, LockShape, HolderShape, DropStages, CtxStages,
         Res, LockedAlive, Referenced
<1>11. ASSUME NEW t \in Threads, NEW a \in Adapters, AdapterFree(t, a) PROVE LockedAlive'
  BY <1>11, ResourceAssumption DEF AdapterFree, FreeLeaf, Callable, Freed, objects, threads,
         interrupt, IInv, TypeOK, CallShape, LockShape, HolderShape,
         DropStages, CtxStages, Res, LockedAlive, Referenced
<1>12. ASSUME NEW t \in Threads, NEW a \in Adapters, AdapterDtor(t, a) PROVE LockedAlive'
  BY <1>12, ResourceAssumption DEF AdapterDtor, UserDtor, Destroy, Collectable, InUse, Goto, Freed,
         objects, threads, interrupt, IInv, TypeOK, CallShape, LockShape,
         HolderShape, DropStages, CtxStages, Res, LockedAlive, Referenced
<1>13. ASSUME NEW t \in Threads, NEW s \in Samplers, SamplerFree(t, s) PROVE LockedAlive'
  BY <1>13, ResourceAssumption DEF SamplerFree, FreeLeaf, Callable, Freed, objects, threads,
         interrupt, IInv, TypeOK, CallShape, LockShape, HolderShape,
         DropStages, CtxStages, Res, LockedAlive, Referenced
<1>14. ASSUME NEW t \in Threads, NEW s \in Samplers, SamplerDtor(t, s) PROVE LockedAlive'
  BY <1>14, ResourceAssumption DEF SamplerDtor, Destroy, Collectable, InUse, Freed, objects,
         threads, interrupt, IInv, TypeOK, CallShape, LockShape,
         HolderShape, DropStages, CtxStages, Res, LockedAlive, Referenced
<1>15. ASSUME NEW t \in Threads, DropModel(t) PROVE LockedAlive'
  <2>1. on[t] \in Models /\ lock[on[t]] = None
    BY <1>15 DEF DropModel, IInv, CallShape, DropStages
  <2>2. \A r \in Res : r # on[t] => ptr'[r] = ptr[r]
    BY <1>15 DEF DropModel, FreeModelObject, IInv, TypeOK
  <2>3. \A r \in Res : lock'[r] # None => lock[r] # None
    BY <1>15 DEF DropModel, Return
  <2>. QED BY <2>1, <2>2, <2>3 DEF IInv, LockedAlive
<1>16. ASSUME NEW t \in Threads, NEW c \in Contexts, NEW S \in SUBSET Samplers, StepBegin(t, c, S) PROVE LockedAlive'
  BY <1>16, ResourceAssumption DEF StepBegin, Callable, Goto, objects, threads, interrupt, IInv,
         TypeOK, CallShape, LockShape, HolderShape, DropStages, CtxStages,
         Res, LockedAlive, Referenced
<1>17. ASSUME NEW t \in Threads, NEW c \in Contexts, DecodeUnarmed(t, c) PROVE LockedAlive'
  BY <1>17, ResourceAssumption DEF DecodeUnarmed, Callable, Goto, objects, threads, interrupt, IInv,
         TypeOK, CallShape, LockShape, HolderShape, DropStages, CtxStages,
         Res, LockedAlive, Referenced
<1>18. ASSUME NEW t \in Threads, NEW s \in Samplers, SampleRow(t, s) PROVE LockedAlive'
  BY <1>18, ResourceAssumption DEF SampleRow, Goto, objects, threads, interrupt, IInv, TypeOK,
         CallShape, LockShape, HolderShape, DropStages, CtxStages, Res,
         LockedAlive, Referenced
<1>19. ASSUME NEW t \in Threads, NEW s \in Samplers, StepReleased(t, s) PROVE LockedAlive'
  BY <1>19, ResourceAssumption DEF StepReleased, Return, objects, threads, interrupt, IInv, TypeOK,
         CallShape, LockShape, HolderShape, DropStages, CtxStages, Res,
         LockedAlive, Referenced
<1>20. ASSUME NEW t \in Threads, StepRefused(t) PROVE LockedAlive'
  BY <1>20, ResourceAssumption DEF StepRefused, Return, objects, threads, interrupt, IInv, TypeOK,
         CallShape, LockShape, HolderShape, DropStages, CtxStages, Res,
         LockedAlive, Referenced
<1>21. ASSUME NEW t \in Threads, NEW s \in Samplers, SampledRow(t, s) PROVE LockedAlive'
  BY <1>21, ResourceAssumption DEF SampledRow, Goto, objects, threads, interrupt, IInv, TypeOK,
         CallShape, LockShape, HolderShape, DropStages, CtxStages, Res,
         LockedAlive, Referenced
<1>22. ASSUME NEW t \in Threads, StepDecode(t) PROVE LockedAlive'
  BY <1>22, ResourceAssumption DEF StepDecode, Goto, objects, threads, interrupt, IInv, TypeOK,
         CallShape, LockShape, HolderShape, DropStages, CtxStages, Res,
         LockedAlive, Referenced
<1>23. ASSUME NEW t \in Threads, DecodeReturns(t) PROVE LockedAlive'
  BY <1>23, ResourceAssumption DEF DecodeReturns, Return, objects, threads, interrupt, IInv, TypeOK,
         CallShape, LockShape, HolderShape, DropStages, CtxStages, Res,
         LockedAlive, Referenced
<1>24. ASSUME NEW t \in Threads, DecodeInterrupted(t) PROVE LockedAlive'
  BY <1>24, ResourceAssumption DEF DecodeInterrupted, Goto, objects, threads, interrupt, IInv,
         TypeOK, CallShape, LockShape, HolderShape, DropStages, CtxStages,
         Res, LockedAlive, Referenced
<1>25. ASSUME NEW t \in Threads, InterruptReported(t) PROVE LockedAlive'
  BY <1>25, ResourceAssumption DEF InterruptReported, Return, objects, threads, interrupt, IInv,
         TypeOK, CallShape, LockShape, HolderShape, DropStages, CtxStages,
         Res, LockedAlive, Referenced
<1>26. ASSUME NEW t \in Threads, NEW c \in Contexts, NEW A \in SUBSET Adapters, SetAdapters(t, c, A) PROVE LockedAlive'
  BY <1>26, ResourceAssumption DEF SetAdapters, Callable, Goto, objects, threads, interrupt, IInv,
         TypeOK, CallShape, LockShape, HolderShape, DropStages, CtxStages,
         Res, LockedAlive, Referenced
<1>27. ASSUME NEW t \in Threads, NEW a \in Adapters, SetAdaptersLock(t, a) PROVE LockedAlive'
  BY <1>27, ResourceAssumption DEF SetAdaptersLock, NextAdapter, Missing, objects, threads,
         interrupt, IInv, TypeOK, CallShape, LockShape, HolderShape,
         DropStages, CtxStages, Res, LockedAlive, Referenced
<1>28. ASSUME NEW t \in Threads, NEW a \in Adapters, SetAdaptersReleased(t, a) PROVE LockedAlive'
  BY <1>28, ResourceAssumption DEF SetAdaptersReleased, Return, objects, threads, interrupt, IInv,
         TypeOK, CallShape, LockShape, HolderShape, DropStages, CtxStages,
         Res, LockedAlive, Referenced
<1>29. ASSUME NEW t \in Threads, SetAdaptersContext(t) PROVE LockedAlive'
  BY <1>29, ResourceAssumption DEF SetAdaptersContext, Goto, Return, Missing, objects, threads,
         interrupt, IInv, TypeOK, CallShape, LockShape, HolderShape,
         DropStages, CtxStages, Res, LockedAlive, Referenced
<1>30. ASSUME NEW t \in Threads, SetAdaptersDone(t) PROVE LockedAlive'
  BY <1>30, ResourceAssumption DEF SetAdaptersDone, Return, objects, threads, interrupt, IInv,
         TypeOK, CallShape, LockShape, HolderShape, DropStages, CtxStages,
         Res, LockedAlive, Referenced
<1>31. ASSUME NEW r \in Res, DropTerm(r) PROVE LockedAlive'
  BY <1>31, ResourceAssumption DEF DropTerm, objects, threads, interrupt, IInv, TypeOK, CallShape,
         LockShape, HolderShape, DropStages, CtxStages, Res, LockedAlive,
         Referenced
<1>32. ASSUME NEW c \in Contexts, RequestAbort(c) PROVE LockedAlive'
  BY <1>32, ResourceAssumption DEF RequestAbort, objects, threads, interrupt, IInv, TypeOK,
         CallShape, LockShape, HolderShape, DropStages, CtxStages, Res,
         LockedAlive, Referenced
<1>33. ASSUME NEW c \in Contexts, DeadlinePasses(c) PROVE LockedAlive'
  BY <1>33, ResourceAssumption DEF DeadlinePasses, objects, threads, interrupt, IInv, TypeOK,
         CallShape, LockShape, HolderShape, DropStages, CtxStages, Res,
         LockedAlive, Referenced
<1>. QED BY <1>1, <1>2, <1>3, <1>4, <1>5, <1>6, <1>7, <1>8, <1>9, <1>10,
       <1>11, <1>12, <1>13, <1>14, <1>15, <1>16, <1>17, <1>18, <1>19, <1>20,
       <1>21, <1>22, <1>23, <1>24, <1>25, <1>26, <1>27, <1>28, <1>29, <1>30,
       <1>31, <1>32, <1>33
  DEF Next, Lifetimes, Decodes, Installs, DecodeOne, Embed, Prefill,
      ForwardWithArgmax

\* Referenced is preserved by every step
LEMMA ReferencedNext == ASSUME IInv, [Next]_vars PROVE Referenced'
<1>1. CASE UNCHANGED vars
  BY <1>1 DEF vars, objects, threads, interrupt, IInv, TypeOK, CallShape,
         LockShape, HolderShape, DropStages, CtxStages, Res, Referenced,
         WrapperShape
<1>2. ASSUME NEW t \in Threads, NEW m \in Models, LoadModel(t, m) PROVE Referenced'
  BY <1>2, ResourceAssumption DEF LoadModel, Wrap, objects, threads, interrupt, IInv, TypeOK,
         CallShape, LockShape, HolderShape, DropStages, CtxStages, Res,
         Referenced, WrapperShape
<1>3. ASSUME NEW t \in Threads, NEW m \in Models, FreeModelDeferred(t, m) PROVE Referenced'
  BY <1>3, ResourceAssumption DEF FreeModelDeferred, Callable, objects, threads, interrupt, IInv,
         TypeOK, CallShape, LockShape, HolderShape, DropStages, CtxStages,
         Res, Referenced, WrapperShape
<1>4. ASSUME NEW t \in Threads, NEW m \in Models, FreeModelNow(t, m) PROVE Referenced'
  BY <1>4, ResourceAssumption DEF FreeModelNow, Callable, FreeModelObject, Leftover, Freed,
         objects, threads, interrupt, IInv, TypeOK, CallShape, LockShape,
         HolderShape, DropStages, CtxStages, Res, Referenced,
         WrapperShape
<1>5. ASSUME NEW t \in Threads, NEW m \in Models, ModelDtor(t, m) PROVE Referenced'
  BY <1>5, ResourceAssumption DEF ModelDtor, Destroy, Collectable, InUse, Leftover, Freed, objects,
         threads, interrupt, IInv, TypeOK, CallShape, LockShape,
         HolderShape, DropStages, CtxStages, Res, Referenced,
         WrapperShape
<1>6. ASSUME NEW t \in Threads, NEW m \in Models, NEW c \in Contexts, NewContext(t, m, c) PROVE Referenced'
  BY <1>6, ResourceAssumption DEF NewContext, Callable, Wrap, objects, threads, interrupt, IInv,
         TypeOK, CallShape, LockShape, HolderShape, DropStages, CtxStages,
         Res, Referenced, WrapperShape
<1>7. ASSUME NEW t \in Threads, NEW m \in Models, NEW a \in Adapters, AdapterLoad(t, m, a) PROVE Referenced'
  BY <1>7, ResourceAssumption DEF AdapterLoad, Callable, Wrap, objects, threads, interrupt, IInv,
         TypeOK, CallShape, LockShape, HolderShape, DropStages, CtxStages,
         Res, Referenced, WrapperShape
<1>8. ASSUME NEW t \in Threads, NEW c \in Contexts, FreeContext(t, c) PROVE Referenced'
  BY <1>8, ResourceAssumption DEF FreeContext, Callable, Goto, Freed, objects, threads, interrupt,
         IInv, TypeOK, CallShape, LockShape, HolderShape, DropStages,
         CtxStages, Res, Referenced, WrapperShape
<1>9. ASSUME NEW t \in Threads, NEW c \in Contexts, CtxDtor(t, c) PROVE Referenced'
  BY <1>9, ResourceAssumption DEF CtxDtor, UserDtor, Destroy, Collectable, InUse, Goto, Freed,
         objects, threads, interrupt, IInv, TypeOK, CallShape, LockShape,
         HolderShape, DropStages, CtxStages, Res, Referenced,
         WrapperShape
<1>10. ASSUME NEW t \in Threads, NEW c \in Contexts, NEW s \in Samplers, SamplerNew(t, c, s) PROVE Referenced'
  BY <1>10, ResourceAssumption DEF SamplerNew, Callable, Wrap, objects, threads, interrupt, IInv,
         TypeOK, CallShape, LockShape, HolderShape, DropStages, CtxStages,
         Res, Referenced, WrapperShape
<1>11. ASSUME NEW t \in Threads, NEW a \in Adapters, AdapterFree(t, a) PROVE Referenced'
  BY <1>11, ResourceAssumption DEF AdapterFree, FreeLeaf, Callable, Freed, objects, threads,
         interrupt, IInv, TypeOK, CallShape, LockShape, HolderShape,
         DropStages, CtxStages, Res, Referenced, WrapperShape
<1>12. ASSUME NEW t \in Threads, NEW a \in Adapters, AdapterDtor(t, a) PROVE Referenced'
  BY <1>12, ResourceAssumption DEF AdapterDtor, UserDtor, Destroy, Collectable, InUse, Goto, Freed,
         objects, threads, interrupt, IInv, TypeOK, CallShape, LockShape,
         HolderShape, DropStages, CtxStages, Res, Referenced,
         WrapperShape
<1>13. ASSUME NEW t \in Threads, NEW s \in Samplers, SamplerFree(t, s) PROVE Referenced'
  BY <1>13, ResourceAssumption DEF SamplerFree, FreeLeaf, Callable, Freed, objects, threads,
         interrupt, IInv, TypeOK, CallShape, LockShape, HolderShape,
         DropStages, CtxStages, Res, Referenced, WrapperShape
<1>14. ASSUME NEW t \in Threads, NEW s \in Samplers, SamplerDtor(t, s) PROVE Referenced'
  BY <1>14, ResourceAssumption DEF SamplerDtor, Destroy, Collectable, InUse, Freed, objects,
         threads, interrupt, IInv, TypeOK, CallShape, LockShape,
         HolderShape, DropStages, CtxStages, Res, Referenced,
         WrapperShape
<1>15. ASSUME NEW t \in Threads, DropModel(t) PROVE Referenced'
  BY <1>15, ResourceAssumption DEF DropModel, FreeModelObject, Return, Leftover, Freed, objects,
         threads, interrupt, IInv, TypeOK, CallShape, LockShape,
         HolderShape, DropStages, CtxStages, Res, Referenced,
         WrapperShape
<1>16. ASSUME NEW t \in Threads, NEW c \in Contexts, NEW S \in SUBSET Samplers, StepBegin(t, c, S) PROVE Referenced'
  BY <1>16, ResourceAssumption DEF StepBegin, Callable, Goto, objects, threads, interrupt, IInv,
         TypeOK, CallShape, LockShape, HolderShape, DropStages, CtxStages,
         Res, Referenced, WrapperShape
<1>17. ASSUME NEW t \in Threads, NEW c \in Contexts, DecodeUnarmed(t, c) PROVE Referenced'
  BY <1>17, ResourceAssumption DEF DecodeUnarmed, Callable, Goto, objects, threads, interrupt, IInv,
         TypeOK, CallShape, LockShape, HolderShape, DropStages, CtxStages,
         Res, Referenced, WrapperShape
<1>18. ASSUME NEW t \in Threads, NEW s \in Samplers, SampleRow(t, s) PROVE Referenced'
  BY <1>18, ResourceAssumption DEF SampleRow, Goto, objects, threads, interrupt, IInv, TypeOK,
         CallShape, LockShape, HolderShape, DropStages, CtxStages, Res,
         Referenced, WrapperShape
<1>19. ASSUME NEW t \in Threads, NEW s \in Samplers, StepReleased(t, s) PROVE Referenced'
  BY <1>19, ResourceAssumption DEF StepReleased, Return, objects, threads, interrupt, IInv, TypeOK,
         CallShape, LockShape, HolderShape, DropStages, CtxStages, Res,
         Referenced, WrapperShape
<1>20. ASSUME NEW t \in Threads, StepRefused(t) PROVE Referenced'
  BY <1>20, ResourceAssumption DEF StepRefused, Return, objects, threads, interrupt, IInv, TypeOK,
         CallShape, LockShape, HolderShape, DropStages, CtxStages, Res,
         Referenced, WrapperShape
<1>21. ASSUME NEW t \in Threads, NEW s \in Samplers, SampledRow(t, s) PROVE Referenced'
  BY <1>21, ResourceAssumption DEF SampledRow, Goto, objects, threads, interrupt, IInv, TypeOK,
         CallShape, LockShape, HolderShape, DropStages, CtxStages, Res,
         Referenced, WrapperShape
<1>22. ASSUME NEW t \in Threads, StepDecode(t) PROVE Referenced'
  BY <1>22, ResourceAssumption DEF StepDecode, Goto, objects, threads, interrupt, IInv, TypeOK,
         CallShape, LockShape, HolderShape, DropStages, CtxStages, Res,
         Referenced, WrapperShape
<1>23. ASSUME NEW t \in Threads, DecodeReturns(t) PROVE Referenced'
  BY <1>23, ResourceAssumption DEF DecodeReturns, Return, objects, threads, interrupt, IInv, TypeOK,
         CallShape, LockShape, HolderShape, DropStages, CtxStages, Res,
         Referenced, WrapperShape
<1>24. ASSUME NEW t \in Threads, DecodeInterrupted(t) PROVE Referenced'
  BY <1>24, ResourceAssumption DEF DecodeInterrupted, Goto, objects, threads, interrupt, IInv,
         TypeOK, CallShape, LockShape, HolderShape, DropStages, CtxStages,
         Res, Referenced, WrapperShape
<1>25. ASSUME NEW t \in Threads, InterruptReported(t) PROVE Referenced'
  BY <1>25, ResourceAssumption DEF InterruptReported, Return, objects, threads, interrupt, IInv,
         TypeOK, CallShape, LockShape, HolderShape, DropStages, CtxStages,
         Res, Referenced, WrapperShape
<1>26. ASSUME NEW t \in Threads, NEW c \in Contexts, NEW A \in SUBSET Adapters, SetAdapters(t, c, A) PROVE Referenced'
  BY <1>26, ResourceAssumption DEF SetAdapters, Callable, Goto, objects, threads, interrupt, IInv,
         TypeOK, CallShape, LockShape, HolderShape, DropStages, CtxStages,
         Res, Referenced, WrapperShape
<1>27. ASSUME NEW t \in Threads, NEW a \in Adapters, SetAdaptersLock(t, a) PROVE Referenced'
  BY <1>27, ResourceAssumption DEF SetAdaptersLock, NextAdapter, Missing, objects, threads,
         interrupt, IInv, TypeOK, CallShape, LockShape, HolderShape,
         DropStages, CtxStages, Res, Referenced, WrapperShape
<1>28. ASSUME NEW t \in Threads, NEW a \in Adapters, SetAdaptersReleased(t, a) PROVE Referenced'
  BY <1>28, ResourceAssumption DEF SetAdaptersReleased, Return, objects, threads, interrupt, IInv,
         TypeOK, CallShape, LockShape, HolderShape, DropStages, CtxStages,
         Res, Referenced, WrapperShape
<1>29. ASSUME NEW t \in Threads, SetAdaptersContext(t) PROVE Referenced'
  BY <1>29, ResourceAssumption DEF SetAdaptersContext, Goto, Return, Missing, objects, threads,
         interrupt, IInv, TypeOK, CallShape, LockShape, HolderShape,
         DropStages, CtxStages, Res, Referenced, WrapperShape
<1>30. ASSUME NEW t \in Threads, SetAdaptersDone(t) PROVE Referenced'
  BY <1>30, ResourceAssumption DEF SetAdaptersDone, Return, objects, threads, interrupt, IInv,
         TypeOK, CallShape, LockShape, HolderShape, DropStages, CtxStages,
         Res, Referenced, WrapperShape
<1>31. ASSUME NEW r \in Res, DropTerm(r) PROVE Referenced'
  BY <1>31, ResourceAssumption DEF DropTerm, objects, threads, interrupt, IInv, TypeOK, CallShape,
         LockShape, HolderShape, DropStages, CtxStages, Res, Referenced,
         WrapperShape
<1>32. ASSUME NEW c \in Contexts, RequestAbort(c) PROVE Referenced'
  BY <1>32, ResourceAssumption DEF RequestAbort, objects, threads, interrupt, IInv, TypeOK,
         CallShape, LockShape, HolderShape, DropStages, CtxStages, Res,
         Referenced, WrapperShape
<1>33. ASSUME NEW c \in Contexts, DeadlinePasses(c) PROVE Referenced'
  BY <1>33, ResourceAssumption DEF DeadlinePasses, objects, threads, interrupt, IInv, TypeOK,
         CallShape, LockShape, HolderShape, DropStages, CtxStages, Res,
         Referenced, WrapperShape
<1>. QED BY <1>1, <1>2, <1>3, <1>4, <1>5, <1>6, <1>7, <1>8, <1>9, <1>10,
       <1>11, <1>12, <1>13, <1>14, <1>15, <1>16, <1>17, <1>18, <1>19, <1>20,
       <1>21, <1>22, <1>23, <1>24, <1>25, <1>26, <1>27, <1>28, <1>29, <1>30,
       <1>31, <1>32, <1>33
  DEF Next, Lifetimes, Decodes, Installs, DecodeOne, Embed, Prefill,
      ForwardWithArgmax


\* A model that no adapter counts on has no adapter left to delete.
LEMMA NoAdapters ==
    ASSUME IInv, NEW m \in Models, activeAdp[m] = 0
    PROVE  Leftover(m) = {}
<1>1. IsFiniteSet(Attached(m, Adapters)) /\ IsFiniteSet(Dropping(m, "drop_adp"))
  BY ResourceAssumption, FS_Subset DEF Attached, Dropping
<1>2. Cardinality(Attached(m, Adapters)) = 0
  BY <1>1, FS_CardinalityType DEF IInv, UsersCounted
<1>3. Attached(m, Adapters) = {}
  BY <1>1, <1>2, FS_EmptySet
<1>. QED BY <1>3, ResourceAssumption DEF Attached, Leftover, IInv, WrapperShape, TypeOK, Res

\* When the last adapter gives its reference back, none is left either.
LEMMA LastAdapter ==
    ASSUME IInv, NEW m \in Models, activeAdp[m] <= 1,
           NEW t \in Threads, pc[t] = "drop_adp", on[t] = m
    PROVE  Leftover(m) = {}
<1>1. IsFiniteSet(Attached(m, Adapters)) /\ IsFiniteSet(Dropping(m, "drop_adp"))
  BY ResourceAssumption, FS_Subset DEF Attached, Dropping
<1>2. Dropping(m, "drop_adp") # {}
  BY DEF Dropping
<1>3. Cardinality(Dropping(m, "drop_adp")) # 0
  BY <1>1, <1>2, FS_EmptySet
<1>4. Cardinality(Attached(m, Adapters)) = 0
  BY <1>1, <1>3, FS_CardinalityType DEF IInv, UsersCounted, TypeOK
<1>5. Attached(m, Adapters) = {}
  BY <1>1, <1>4, FS_EmptySet
<1>. QED BY <1>5, ResourceAssumption DEF Attached, Leftover, IInv, WrapperShape, TypeOK, Res


\* A model that can be collected has no users.
LEMMA Unused ==
    ASSUME IInv, NEW m \in Models, Collectable(m)
    PROVE  activeCtx[m] = 0 /\ activeAdp[m] = 0
<1>1. Attached(m, Contexts) = {} /\ Attached(m, Adapters) = {}
  BY DEF Collectable, Attached, Res
<1>2. Dropping(m, "drop_ctx") = {} /\ Dropping(m, "drop_adp") = {}
  BY DEF Collectable, InUse, Dropping
<1>. QED BY <1>1, <1>2, FS_EmptySet DEF IInv, UsersCounted

\* WrapperShape is preserved by every step
LEMMA WrapperShapeNext == ASSUME IInv, [Next]_vars PROVE WrapperShape'
<1>1. CASE UNCHANGED vars
  BY <1>1 DEF vars, objects, threads, interrupt, IInv, TypeOK, Res,
         WrapperShape
<1>2. ASSUME NEW t \in Threads, NEW m \in Models, LoadModel(t, m) PROVE WrapperShape'
  BY <1>2, ResourceAssumption DEF LoadModel, Wrap, objects, threads, interrupt, IInv, TypeOK, Res,
         WrapperShape
<1>3. ASSUME NEW t \in Threads, NEW m \in Models, FreeModelDeferred(t, m) PROVE WrapperShape'
  BY <1>3, ResourceAssumption DEF FreeModelDeferred, Callable, objects, threads, interrupt, IInv,
         TypeOK, Res, WrapperShape
<1>4. ASSUME NEW t \in Threads, NEW m \in Models, FreeModelNow(t, m) PROVE WrapperShape'
  BY <1>4, ResourceAssumption, NoAdapters DEF FreeModelNow, Callable, FreeModelObject, Leftover, Freed,
         objects, threads, interrupt, IInv, TypeOK, Res, WrapperShape
<1>5. ASSUME NEW t \in Threads, NEW m \in Models, ModelDtor(t, m) PROVE WrapperShape'
  BY <1>5, ResourceAssumption DEF ModelDtor, Destroy, Collectable, InUse, Leftover, Freed, objects,
         threads, interrupt, IInv, TypeOK, Res, WrapperShape
<1>6. ASSUME NEW t \in Threads, NEW m \in Models, NEW c \in Contexts, NewContext(t, m, c) PROVE WrapperShape'
  BY <1>6, ResourceAssumption DEF NewContext, Callable, Wrap, objects, threads, interrupt, IInv,
         TypeOK, Res, WrapperShape
<1>7. ASSUME NEW t \in Threads, NEW m \in Models, NEW a \in Adapters, AdapterLoad(t, m, a) PROVE WrapperShape'
  BY <1>7, ResourceAssumption DEF AdapterLoad, Callable, Wrap, objects, threads, interrupt, IInv,
         TypeOK, Res, WrapperShape
<1>8. ASSUME NEW t \in Threads, NEW c \in Contexts, FreeContext(t, c) PROVE WrapperShape'
  BY <1>8, ResourceAssumption DEF FreeContext, Callable, Goto, Freed, objects, threads, interrupt,
         IInv, TypeOK, Res, WrapperShape
<1>9. ASSUME NEW t \in Threads, NEW c \in Contexts, CtxDtor(t, c) PROVE WrapperShape'
  BY <1>9, ResourceAssumption DEF CtxDtor, UserDtor, Destroy, Collectable, InUse, Goto, Freed,
         objects, threads, interrupt, IInv, TypeOK, Res, WrapperShape
<1>10. ASSUME NEW t \in Threads, NEW c \in Contexts, NEW s \in Samplers, SamplerNew(t, c, s) PROVE WrapperShape'
  BY <1>10, ResourceAssumption DEF SamplerNew, Callable, Wrap, objects, threads, interrupt, IInv,
         TypeOK, Res, WrapperShape
<1>11. ASSUME NEW t \in Threads, NEW a \in Adapters, AdapterFree(t, a) PROVE WrapperShape'
  BY <1>11, ResourceAssumption DEF AdapterFree, FreeLeaf, Callable, Freed, objects, threads,
         interrupt, IInv, TypeOK, Res, WrapperShape
<1>12. ASSUME NEW t \in Threads, NEW a \in Adapters, AdapterDtor(t, a) PROVE WrapperShape'
  BY <1>12, ResourceAssumption DEF AdapterDtor, UserDtor, Destroy, Collectable, InUse, Goto, Freed,
         objects, threads, interrupt, IInv, TypeOK, Res, WrapperShape
<1>13. ASSUME NEW t \in Threads, NEW s \in Samplers, SamplerFree(t, s) PROVE WrapperShape'
  BY <1>13, ResourceAssumption DEF SamplerFree, FreeLeaf, Callable, Freed, objects, threads,
         interrupt, IInv, TypeOK, Res, WrapperShape
<1>14. ASSUME NEW t \in Threads, NEW s \in Samplers, SamplerDtor(t, s) PROVE WrapperShape'
  BY <1>14, ResourceAssumption DEF SamplerDtor, Destroy, Collectable, InUse, Freed, objects,
         threads, interrupt, IInv, TypeOK, Res, WrapperShape
<1>15. ASSUME NEW t \in Threads, DropModel(t) PROVE WrapperShape'
  <2>1. on[t] \in Models /\ on[t] \in Res
    BY <1>15 DEF IInv, CallShape, DropStages, DropModel, Res
  <2>2. CASE UNCHANGED <<frees, ptr, pending>>
    BY <1>15, <2>2 DEF DropModel, IInv, WrapperShape
  <2>3. CASE FreeModelObject(on[t]) /\ ptr[on[t]] /\ ~UNCHANGED <<frees, ptr, pending>>
    <3>1. Leftover(on[t]) = {}
      <4>1. CASE pc[t] = "drop_adp"
        <5>1. activeAdp[on[t]] <= 1
          BY <1>15, <2>1, <2>3, <4>1 DEF DropModel, IInv, TypeOK
        <5>. QED BY <2>1, <4>1, <5>1, LastAdapter
      <4>2. CASE pc[t] = "drop_ctx"
        <5>1. activeAdp[on[t]] = 0
          BY <1>15, <2>1, <2>3, <4>2 DEF DropModel, IInv, TypeOK
        <5>. QED BY <2>1, <5>1, NoAdapters
      <4>. QED BY <1>15, <4>1, <4>2 DEF DropModel
    <3>2. \A r \in Res : /\ frees'[r] = IF r = on[t] THEN Freed(frees[r]) ELSE frees[r]
                         /\ ptr'[r] = IF r = on[t] THEN FALSE ELSE ptr[r]
      BY <2>1, <2>3, <3>1 DEF FreeModelObject, IInv, TypeOK
    <3>3. UNCHANGED <<wrapper, term, parent>>
      BY <1>15 DEF DropModel
    <3>4. wrapper[on[t]] = "made" /\ frees[on[t]] = 0 /\ parent[on[t]] = None
      BY <2>1, <2>3 DEF IInv, WrapperShape, TypeOK
    <3>5. /\ frees'[on[t]] = 1 /\ ~ptr'[on[t]]
          /\ wrapper'[on[t]] = "made" /\ parent'[on[t]] = None
      <4>1. frees'[on[t]] = Freed(frees[on[t]]) /\ ~ptr'[on[t]]
        BY <2>1, <3>2
      <4>. QED BY <3>3, <3>4, <4>1 DEF Freed
    <3>6. on[t] \notin Contexts \cup Adapters \cup Samplers
      BY <2>1, ResourceAssumption
    <3>7. ASSUME NEW r \in Res, r # on[t]
          PROVE  /\ frees'[r] = frees[r] /\ ptr'[r] = ptr[r]
                 /\ wrapper'[r] = wrapper[r] /\ term'[r] = term[r]
                 /\ parent'[r] = parent[r]
      BY <3>2, <3>3, <3>7
    <3>. QED BY <3>5, <3>6, <3>7 DEF IInv, WrapperShape
  <2>. QED BY <1>15, <2>2, <2>3 DEF DropModel
<1>16. ASSUME NEW t \in Threads, NEW c \in Contexts, NEW S \in SUBSET Samplers, StepBegin(t, c, S) PROVE WrapperShape'
  BY <1>16, ResourceAssumption DEF StepBegin, Callable, Goto, objects, threads, interrupt, IInv,
         TypeOK, Res, WrapperShape
<1>17. ASSUME NEW t \in Threads, NEW c \in Contexts, DecodeUnarmed(t, c) PROVE WrapperShape'
  BY <1>17, ResourceAssumption DEF DecodeUnarmed, Callable, Goto, objects, threads, interrupt, IInv,
         TypeOK, Res, WrapperShape
<1>18. ASSUME NEW t \in Threads, NEW s \in Samplers, SampleRow(t, s) PROVE WrapperShape'
  BY <1>18, ResourceAssumption DEF SampleRow, Goto, objects, threads, interrupt, IInv, TypeOK, Res,
         WrapperShape
<1>19. ASSUME NEW t \in Threads, NEW s \in Samplers, StepReleased(t, s) PROVE WrapperShape'
  BY <1>19, ResourceAssumption DEF StepReleased, Return, objects, threads, interrupt, IInv, TypeOK,
         Res, WrapperShape
<1>20. ASSUME NEW t \in Threads, StepRefused(t) PROVE WrapperShape'
  BY <1>20, ResourceAssumption DEF StepRefused, Return, objects, threads, interrupt, IInv, TypeOK,
         Res, WrapperShape
<1>21. ASSUME NEW t \in Threads, NEW s \in Samplers, SampledRow(t, s) PROVE WrapperShape'
  BY <1>21, ResourceAssumption DEF SampledRow, Goto, objects, threads, interrupt, IInv, TypeOK, Res,
         WrapperShape
<1>22. ASSUME NEW t \in Threads, StepDecode(t) PROVE WrapperShape'
  BY <1>22, ResourceAssumption DEF StepDecode, Goto, objects, threads, interrupt, IInv, TypeOK, Res,
         WrapperShape
<1>23. ASSUME NEW t \in Threads, DecodeReturns(t) PROVE WrapperShape'
  BY <1>23, ResourceAssumption DEF DecodeReturns, Return, objects, threads, interrupt, IInv, TypeOK,
         Res, WrapperShape
<1>24. ASSUME NEW t \in Threads, DecodeInterrupted(t) PROVE WrapperShape'
  BY <1>24, ResourceAssumption DEF DecodeInterrupted, Goto, objects, threads, interrupt, IInv,
         TypeOK, Res, WrapperShape
<1>25. ASSUME NEW t \in Threads, InterruptReported(t) PROVE WrapperShape'
  BY <1>25, ResourceAssumption DEF InterruptReported, Return, objects, threads, interrupt, IInv,
         TypeOK, Res, WrapperShape
<1>26. ASSUME NEW t \in Threads, NEW c \in Contexts, NEW A \in SUBSET Adapters, SetAdapters(t, c, A) PROVE WrapperShape'
  BY <1>26, ResourceAssumption DEF SetAdapters, Callable, Goto, objects, threads, interrupt, IInv,
         TypeOK, Res, WrapperShape
<1>27. ASSUME NEW t \in Threads, NEW a \in Adapters, SetAdaptersLock(t, a) PROVE WrapperShape'
  BY <1>27, ResourceAssumption DEF SetAdaptersLock, NextAdapter, Missing, objects, threads,
         interrupt, IInv, TypeOK, Res, WrapperShape
<1>28. ASSUME NEW t \in Threads, NEW a \in Adapters, SetAdaptersReleased(t, a) PROVE WrapperShape'
  BY <1>28, ResourceAssumption DEF SetAdaptersReleased, Return, objects, threads, interrupt, IInv,
         TypeOK, Res, WrapperShape
<1>29. ASSUME NEW t \in Threads, SetAdaptersContext(t) PROVE WrapperShape'
  BY <1>29, ResourceAssumption DEF SetAdaptersContext, Goto, Return, Missing, objects, threads,
         interrupt, IInv, TypeOK, Res, WrapperShape
<1>30. ASSUME NEW t \in Threads, SetAdaptersDone(t) PROVE WrapperShape'
  BY <1>30, ResourceAssumption DEF SetAdaptersDone, Return, objects, threads, interrupt, IInv,
         TypeOK, Res, WrapperShape
<1>31. ASSUME NEW r \in Res, DropTerm(r) PROVE WrapperShape'
  BY <1>31, ResourceAssumption DEF DropTerm, objects, threads, interrupt, IInv, TypeOK, Res,
         WrapperShape
<1>32. ASSUME NEW c \in Contexts, RequestAbort(c) PROVE WrapperShape'
  BY <1>32, ResourceAssumption DEF RequestAbort, objects, threads, interrupt, IInv, TypeOK, Res,
         WrapperShape
<1>33. ASSUME NEW c \in Contexts, DeadlinePasses(c) PROVE WrapperShape'
  BY <1>33, ResourceAssumption DEF DeadlinePasses, objects, threads, interrupt, IInv, TypeOK, Res,
         WrapperShape
<1>. QED BY <1>1, <1>2, <1>3, <1>4, <1>5, <1>6, <1>7, <1>8, <1>9, <1>10,
       <1>11, <1>12, <1>13, <1>14, <1>15, <1>16, <1>17, <1>18, <1>19, <1>20,
       <1>21, <1>22, <1>23, <1>24, <1>25, <1>26, <1>27, <1>28, <1>29, <1>30,
       <1>31, <1>32, <1>33
  DEF Next, Lifetimes, Decodes, Installs, DecodeOne, Embed, Prefill,
      ForwardWithArgmax

\* ModelKept is preserved by every step
LEMMA ModelKeptNext == ASSUME IInv, [Next]_vars PROVE ModelKept'
<1>1. CASE UNCHANGED vars
  BY <1>1 DEF vars, objects, threads, interrupt, IInv, TypeOK, ModelKept,
         WrapperShape, CallShape, DropStages, Res
<1>2. ASSUME NEW t \in Threads, NEW m \in Models, LoadModel(t, m) PROVE ModelKept'
  BY <1>2, ResourceAssumption DEF LoadModel, Wrap, objects, threads, interrupt, IInv, TypeOK,
         ModelKept, WrapperShape, CallShape, DropStages, Res
<1>3. ASSUME NEW t \in Threads, NEW m \in Models, FreeModelDeferred(t, m) PROVE ModelKept'
  BY <1>3, ResourceAssumption DEF FreeModelDeferred, Callable, objects, threads, interrupt, IInv,
         TypeOK, ModelKept, WrapperShape, CallShape, DropStages, Res
<1>4. ASSUME NEW t \in Threads, NEW m \in Models, FreeModelNow(t, m) PROVE ModelKept'
  BY <1>4, ResourceAssumption DEF FreeModelNow, Callable, FreeModelObject, Leftover, Freed,
         objects, threads, interrupt, IInv, TypeOK, ModelKept,
         WrapperShape, CallShape, DropStages, Res
<1>5. ASSUME NEW t \in Threads, NEW m \in Models, ModelDtor(t, m) PROVE ModelKept'
  <2>1. activeCtx[m] = 0 /\ activeAdp[m] = 0
    BY <1>5, Unused DEF ModelDtor, Destroy
  <2>2. ~pending[m]
    BY <2>1 DEF IInv, ModelKept
  <2>3. \A n \in Models : n # m => ptr'[n] = ptr[n]
    BY <1>5 DEF ModelDtor, Destroy, IInv, TypeOK, Res
  <2>4. UNCHANGED <<activeCtx, activeAdp, pending>>
    BY <1>5 DEF ModelDtor
  <2>. QED BY <2>1, <2>2, <2>3, <2>4 DEF IInv, ModelKept
<1>6. ASSUME NEW t \in Threads, NEW m \in Models, NEW c \in Contexts, NewContext(t, m, c) PROVE ModelKept'
  BY <1>6, ResourceAssumption DEF NewContext, Callable, Wrap, objects, threads, interrupt, IInv,
         TypeOK, ModelKept, WrapperShape, CallShape, DropStages, Res
<1>7. ASSUME NEW t \in Threads, NEW m \in Models, NEW a \in Adapters, AdapterLoad(t, m, a) PROVE ModelKept'
  BY <1>7, ResourceAssumption DEF AdapterLoad, Callable, Wrap, objects, threads, interrupt, IInv,
         TypeOK, ModelKept, WrapperShape, CallShape, DropStages, Res
<1>8. ASSUME NEW t \in Threads, NEW c \in Contexts, FreeContext(t, c) PROVE ModelKept'
  BY <1>8, ResourceAssumption DEF FreeContext, Callable, Goto, Freed, objects, threads, interrupt,
         IInv, TypeOK, ModelKept, WrapperShape, CallShape, DropStages,
         Res
<1>9. ASSUME NEW t \in Threads, NEW c \in Contexts, CtxDtor(t, c) PROVE ModelKept'
  BY <1>9, ResourceAssumption DEF CtxDtor, UserDtor, Destroy, Collectable, InUse, Goto, Freed,
         objects, threads, interrupt, IInv, TypeOK, ModelKept,
         WrapperShape, CallShape, DropStages, Res
<1>10. ASSUME NEW t \in Threads, NEW c \in Contexts, NEW s \in Samplers, SamplerNew(t, c, s) PROVE ModelKept'
  BY <1>10, ResourceAssumption DEF SamplerNew, Callable, Wrap, objects, threads, interrupt, IInv,
         TypeOK, ModelKept, WrapperShape, CallShape, DropStages, Res
<1>11. ASSUME NEW t \in Threads, NEW a \in Adapters, AdapterFree(t, a) PROVE ModelKept'
  BY <1>11, ResourceAssumption DEF AdapterFree, FreeLeaf, Callable, Freed, objects, threads,
         interrupt, IInv, TypeOK, ModelKept, WrapperShape, CallShape,
         DropStages, Res
<1>12. ASSUME NEW t \in Threads, NEW a \in Adapters, AdapterDtor(t, a) PROVE ModelKept'
  BY <1>12, ResourceAssumption DEF AdapterDtor, UserDtor, Destroy, Collectable, InUse, Goto, Freed,
         objects, threads, interrupt, IInv, TypeOK, ModelKept,
         WrapperShape, CallShape, DropStages, Res
<1>13. ASSUME NEW t \in Threads, NEW s \in Samplers, SamplerFree(t, s) PROVE ModelKept'
  BY <1>13, ResourceAssumption DEF SamplerFree, FreeLeaf, Callable, Freed, objects, threads,
         interrupt, IInv, TypeOK, ModelKept, WrapperShape, CallShape,
         DropStages, Res
<1>14. ASSUME NEW t \in Threads, NEW s \in Samplers, SamplerDtor(t, s) PROVE ModelKept'
  BY <1>14, ResourceAssumption DEF SamplerDtor, Destroy, Collectable, InUse, Freed, objects,
         threads, interrupt, IInv, TypeOK, ModelKept, WrapperShape,
         CallShape, DropStages, Res
<1>15. ASSUME NEW t \in Threads, DropModel(t) PROVE ModelKept'
  BY SMTT(20), <1>15, ResourceAssumption DEF DropModel, FreeModelObject, Return, Leftover, Freed, objects,
         threads, interrupt, IInv, TypeOK, ModelKept, WrapperShape,
         CallShape, DropStages, Res
<1>16. ASSUME NEW t \in Threads, NEW c \in Contexts, NEW S \in SUBSET Samplers, StepBegin(t, c, S) PROVE ModelKept'
  BY <1>16, ResourceAssumption DEF StepBegin, Callable, Goto, objects, threads, interrupt, IInv,
         TypeOK, ModelKept, WrapperShape, CallShape, DropStages, Res
<1>17. ASSUME NEW t \in Threads, NEW c \in Contexts, DecodeUnarmed(t, c) PROVE ModelKept'
  BY <1>17, ResourceAssumption DEF DecodeUnarmed, Callable, Goto, objects, threads, interrupt, IInv,
         TypeOK, ModelKept, WrapperShape, CallShape, DropStages, Res
<1>18. ASSUME NEW t \in Threads, NEW s \in Samplers, SampleRow(t, s) PROVE ModelKept'
  BY <1>18, ResourceAssumption DEF SampleRow, Goto, objects, threads, interrupt, IInv, TypeOK,
         ModelKept, WrapperShape, CallShape, DropStages, Res
<1>19. ASSUME NEW t \in Threads, NEW s \in Samplers, StepReleased(t, s) PROVE ModelKept'
  BY <1>19, ResourceAssumption DEF StepReleased, Return, objects, threads, interrupt, IInv, TypeOK,
         ModelKept, WrapperShape, CallShape, DropStages, Res
<1>20. ASSUME NEW t \in Threads, StepRefused(t) PROVE ModelKept'
  BY <1>20, ResourceAssumption DEF StepRefused, Return, objects, threads, interrupt, IInv, TypeOK,
         ModelKept, WrapperShape, CallShape, DropStages, Res
<1>21. ASSUME NEW t \in Threads, NEW s \in Samplers, SampledRow(t, s) PROVE ModelKept'
  BY <1>21, ResourceAssumption DEF SampledRow, Goto, objects, threads, interrupt, IInv, TypeOK,
         ModelKept, WrapperShape, CallShape, DropStages, Res
<1>22. ASSUME NEW t \in Threads, StepDecode(t) PROVE ModelKept'
  BY <1>22, ResourceAssumption DEF StepDecode, Goto, objects, threads, interrupt, IInv, TypeOK,
         ModelKept, WrapperShape, CallShape, DropStages, Res
<1>23. ASSUME NEW t \in Threads, DecodeReturns(t) PROVE ModelKept'
  BY <1>23, ResourceAssumption DEF DecodeReturns, Return, objects, threads, interrupt, IInv, TypeOK,
         ModelKept, WrapperShape, CallShape, DropStages, Res
<1>24. ASSUME NEW t \in Threads, DecodeInterrupted(t) PROVE ModelKept'
  BY <1>24, ResourceAssumption DEF DecodeInterrupted, Goto, objects, threads, interrupt, IInv,
         TypeOK, ModelKept, WrapperShape, CallShape, DropStages, Res
<1>25. ASSUME NEW t \in Threads, InterruptReported(t) PROVE ModelKept'
  BY <1>25, ResourceAssumption DEF InterruptReported, Return, objects, threads, interrupt, IInv,
         TypeOK, ModelKept, WrapperShape, CallShape, DropStages, Res
<1>26. ASSUME NEW t \in Threads, NEW c \in Contexts, NEW A \in SUBSET Adapters, SetAdapters(t, c, A) PROVE ModelKept'
  BY <1>26, ResourceAssumption DEF SetAdapters, Callable, Goto, objects, threads, interrupt, IInv,
         TypeOK, ModelKept, WrapperShape, CallShape, DropStages, Res
<1>27. ASSUME NEW t \in Threads, NEW a \in Adapters, SetAdaptersLock(t, a) PROVE ModelKept'
  BY <1>27, ResourceAssumption DEF SetAdaptersLock, NextAdapter, Missing, objects, threads,
         interrupt, IInv, TypeOK, ModelKept, WrapperShape, CallShape,
         DropStages, Res
<1>28. ASSUME NEW t \in Threads, NEW a \in Adapters, SetAdaptersReleased(t, a) PROVE ModelKept'
  BY <1>28, ResourceAssumption DEF SetAdaptersReleased, Return, objects, threads, interrupt, IInv,
         TypeOK, ModelKept, WrapperShape, CallShape, DropStages, Res
<1>29. ASSUME NEW t \in Threads, SetAdaptersContext(t) PROVE ModelKept'
  BY <1>29, ResourceAssumption DEF SetAdaptersContext, Goto, Return, Missing, objects, threads,
         interrupt, IInv, TypeOK, ModelKept, WrapperShape, CallShape,
         DropStages, Res
<1>30. ASSUME NEW t \in Threads, SetAdaptersDone(t) PROVE ModelKept'
  BY <1>30, ResourceAssumption DEF SetAdaptersDone, Return, objects, threads, interrupt, IInv,
         TypeOK, ModelKept, WrapperShape, CallShape, DropStages, Res
<1>31. ASSUME NEW r \in Res, DropTerm(r) PROVE ModelKept'
  BY <1>31, ResourceAssumption DEF DropTerm, objects, threads, interrupt, IInv, TypeOK, ModelKept,
         WrapperShape, CallShape, DropStages, Res
<1>32. ASSUME NEW c \in Contexts, RequestAbort(c) PROVE ModelKept'
  BY <1>32, ResourceAssumption DEF RequestAbort, objects, threads, interrupt, IInv, TypeOK,
         ModelKept, WrapperShape, CallShape, DropStages, Res
<1>33. ASSUME NEW c \in Contexts, DeadlinePasses(c) PROVE ModelKept'
  BY <1>33, ResourceAssumption DEF DeadlinePasses, objects, threads, interrupt, IInv, TypeOK,
         ModelKept, WrapperShape, CallShape, DropStages, Res
<1>. QED BY <1>1, <1>2, <1>3, <1>4, <1>5, <1>6, <1>7, <1>8, <1>9, <1>10,
       <1>11, <1>12, <1>13, <1>14, <1>15, <1>16, <1>17, <1>18, <1>19, <1>20,
       <1>21, <1>22, <1>23, <1>24, <1>25, <1>26, <1>27, <1>28, <1>29, <1>30,
       <1>31, <1>32, <1>33
  DEF Next, Lifetimes, Decodes, Installs, DecodeOne, Embed, Prefill,
      ForwardWithArgmax


\* A step after which every model has the same users as before
Quiet ==
    /\ UNCHANGED <<activeCtx, activeAdp>>
    /\ \A m \in Models, r \in Users :
          (wrapper'[r] = "made" /\ parent'[r] = m)
             <=> (wrapper[r] = "made" /\ parent[r] = m)
    /\ \A m \in Models, t \in Threads, stage \in DropStages :
          (pc'[t] = stage /\ on'[t] = m) <=> (pc[t] = stage /\ on[t] = m)

\* The counts stay exact over a quiet step.
LEMMA QuietCounts == ASSUME IInv, Quiet PROVE UsersCounted'
<1>1. ASSUME NEW m \in Models
      PROVE  /\ Attached(m, Contexts)' = Attached(m, Contexts)
             /\ Attached(m, Adapters)' = Attached(m, Adapters)
  BY DEF Attached, Quiet, Users
<1>2. ASSUME NEW m \in Models
      PROVE  /\ Dropping(m, "drop_ctx")' = Dropping(m, "drop_ctx")
             /\ Dropping(m, "drop_adp")' = Dropping(m, "drop_adp")
  BY DEF Dropping, Quiet, DropStages
<1>. QED BY <1>1, <1>2 DEF IInv, UsersCounted, Quiet

\* One more or one less element, counted
LEMMA OneMore ==
    ASSUME NEW S, NEW x, IsFiniteSet(S), x \notin S
    PROVE  Cardinality(S \cup {x}) = Cardinality(S) + 1
BY FS_AddElement

LEMMA OneLess ==
    ASSUME NEW S, NEW x \in S, IsFiniteSet(S)
    PROVE  Cardinality(S \ {x}) = Cardinality(S) - 1
BY FS_RemoveElement

\* The sets that UsersCounted counts are finite.
LEMMA UsersFinite ==
    ASSUME NEW m, NEW stage
    PROVE  /\ IsFiniteSet(Attached(m, Contexts)) /\ IsFiniteSet(Attached(m, Adapters))
           /\ IsFiniteSet(Dropping(m, stage))
           /\ Cardinality(Attached(m, Contexts)) \in Nat
           /\ Cardinality(Attached(m, Adapters)) \in Nat
           /\ Cardinality(Dropping(m, stage)) \in Nat
BY ResourceAssumption, FS_Subset, FS_CardinalityType DEF Attached, Dropping


\* A user hands its model reference to the thread that will drop it.
LEMMA ContextsHandOver ==
    ASSUME IInv, NEW t \in Threads, NEW r \in Contexts, pc[t] = "idle",
           wrapper[r] = "made", parent[r] \in Models,
           parent' = [parent EXCEPT ![r] = None],
           wrapper' = wrapper \/ wrapper' = [wrapper EXCEPT ![r] = "dead"],
           pc' = [pc EXCEPT ![t] = "drop_ctx"], on' = [on EXCEPT ![t] = parent[r]],
           UNCHANGED <<activeCtx, activeAdp>>
    PROVE  UsersCounted'
<1> DEFINE p == parent[r]
<1>1. \A q \in Res : q # r => (wrapper'[q] = wrapper[q] /\ parent'[q] = parent[q])
  BY DEF IInv, TypeOK
<1>2. parent'[r] = None /\ r \in Res
  BY DEF IInv, TypeOK, Res
<1>3. ASSUME NEW m \in Models
      PROVE  /\ Attached(m, Contexts)' = IF m = p THEN Attached(m, Contexts) \ {r}
                                                 ELSE Attached(m, Contexts)
             /\ Attached(m, Adapters)' = Attached(m, Adapters)
  <2>1. ASSUME NEW q \in Contexts
        PROVE  (wrapper'[q] = "made" /\ parent'[q] = m)
                  <=> (wrapper[q] = "made" /\ parent[q] = m /\ q # r)
    BY <1>1, <1>2, ResourceAssumption DEF Res
  <2>2. ASSUME NEW q \in Adapters
        PROVE  (wrapper'[q] = "made" /\ parent'[q] = m)
                  <=> (wrapper[q] = "made" /\ parent[q] = m)
    BY <1>1, ResourceAssumption DEF Res
  <2>3. m # p => r \notin Attached(m, Contexts)
    BY DEF Attached
  <2>. QED BY <2>1, <2>2, <2>3 DEF Attached
<1>4. ASSUME NEW m \in Models
      PROVE  /\ Dropping(m, "drop_ctx")' = IF m = p THEN Dropping(m, "drop_ctx") \cup {t}
                                                ELSE Dropping(m, "drop_ctx")
             /\ Dropping(m, "drop_adp")' = Dropping(m, "drop_adp")
  BY DEF Dropping, IInv, TypeOK
<1>5. r \in Attached(p, Contexts) /\ t \notin Dropping(p, "drop_ctx")
  BY DEF Attached, Dropping
<1>6. /\ Cardinality(Attached(p, Contexts) \ {r}) = Cardinality(Attached(p, Contexts)) - 1
      /\ Cardinality(Dropping(p, "drop_ctx") \cup {t})
            = Cardinality(Dropping(p, "drop_ctx")) + 1
  BY <1>5, OneMore, OneLess, UsersFinite
<1>7. ASSUME NEW m \in Models
      PROVE  /\ activeCtx[m] = Cardinality(Attached(m, Contexts)')
                                + Cardinality(Dropping(m, "drop_ctx")')
             /\ activeAdp[m] = Cardinality(Attached(m, Adapters)')
                                + Cardinality(Dropping(m, "drop_adp")')
  <2>1. /\ activeCtx[m] = Cardinality(Attached(m, Contexts))
                           + Cardinality(Dropping(m, "drop_ctx"))
        /\ activeAdp[m] = Cardinality(Attached(m, Adapters))
                           + Cardinality(Dropping(m, "drop_adp"))
    BY DEF IInv, UsersCounted
  <2>2. CASE m = p
    <3>1. activeCtx[p] = Cardinality(Attached(p, Contexts) \ {r})
                        + Cardinality(Dropping(p, "drop_ctx") \cup {t})
      BY <1>6, <2>1, <2>2, UsersFinite
    <3>. QED BY <1>3, <1>4, <2>1, <2>2, <3>1
  <2>3. CASE m # p
    BY <1>3, <1>4, <2>1, <2>3
  <2>. QED BY <2>2, <2>3
<1>. QED BY <1>7 DEF UsersCounted


\* A user hands its model reference to the thread that will drop it.
LEMMA AdaptersHandOver ==
    ASSUME IInv, NEW t \in Threads, NEW r \in Adapters, pc[t] = "idle",
           wrapper[r] = "made", parent[r] \in Models,
           parent' = [parent EXCEPT ![r] = None],
           wrapper' = wrapper \/ wrapper' = [wrapper EXCEPT ![r] = "dead"],
           pc' = [pc EXCEPT ![t] = "drop_adp"], on' = [on EXCEPT ![t] = parent[r]],
           UNCHANGED <<activeCtx, activeAdp>>
    PROVE  UsersCounted'
<1> DEFINE p == parent[r]
<1>1. \A q \in Res : q # r => (wrapper'[q] = wrapper[q] /\ parent'[q] = parent[q])
  BY DEF IInv, TypeOK
<1>2. parent'[r] = None /\ r \in Res
  BY DEF IInv, TypeOK, Res
<1>3. ASSUME NEW m \in Models
      PROVE  /\ Attached(m, Adapters)' = IF m = p THEN Attached(m, Adapters) \ {r}
                                                 ELSE Attached(m, Adapters)
             /\ Attached(m, Contexts)' = Attached(m, Contexts)
  <2>1. ASSUME NEW q \in Adapters
        PROVE  (wrapper'[q] = "made" /\ parent'[q] = m)
                  <=> (wrapper[q] = "made" /\ parent[q] = m /\ q # r)
    BY <1>1, <1>2, ResourceAssumption DEF Res
  <2>2. ASSUME NEW q \in Contexts
        PROVE  (wrapper'[q] = "made" /\ parent'[q] = m)
                  <=> (wrapper[q] = "made" /\ parent[q] = m)
    BY <1>1, ResourceAssumption DEF Res
  <2>3. m # p => r \notin Attached(m, Adapters)
    BY DEF Attached
  <2>. QED BY <2>1, <2>2, <2>3 DEF Attached
<1>4. ASSUME NEW m \in Models
      PROVE  /\ Dropping(m, "drop_adp")' = IF m = p THEN Dropping(m, "drop_adp") \cup {t}
                                                ELSE Dropping(m, "drop_adp")
             /\ Dropping(m, "drop_ctx")' = Dropping(m, "drop_ctx")
  BY DEF Dropping, IInv, TypeOK
<1>5. r \in Attached(p, Adapters) /\ t \notin Dropping(p, "drop_adp")
  BY DEF Attached, Dropping
<1>6. /\ Cardinality(Attached(p, Adapters) \ {r}) = Cardinality(Attached(p, Adapters)) - 1
      /\ Cardinality(Dropping(p, "drop_adp") \cup {t})
            = Cardinality(Dropping(p, "drop_adp")) + 1
  BY <1>5, OneMore, OneLess, UsersFinite
<1>7. ASSUME NEW m \in Models
      PROVE  /\ activeCtx[m] = Cardinality(Attached(m, Contexts)')
                                + Cardinality(Dropping(m, "drop_ctx")')
             /\ activeAdp[m] = Cardinality(Attached(m, Adapters)')
                                + Cardinality(Dropping(m, "drop_adp")')
  <2>1. /\ activeCtx[m] = Cardinality(Attached(m, Contexts))
                           + Cardinality(Dropping(m, "drop_ctx"))
        /\ activeAdp[m] = Cardinality(Attached(m, Adapters))
                           + Cardinality(Dropping(m, "drop_adp"))
    BY DEF IInv, UsersCounted
  <2>2. CASE m = p
    <3>1. activeAdp[p] = Cardinality(Attached(p, Adapters) \ {r})
                        + Cardinality(Dropping(p, "drop_adp") \cup {t})
      BY <1>6, <2>1, <2>2, UsersFinite
    <3>. QED BY <1>3, <1>4, <2>1, <2>2, <3>1
  <2>3. CASE m # p
    BY <1>3, <1>4, <2>1, <2>3
  <2>. QED BY <2>2, <2>3
<1>. QED BY <1>7 DEF UsersCounted

\* UsersCounted is preserved by every step
LEMMA UsersCountedNext == ASSUME IInv, [Next]_vars PROVE UsersCounted'
<1>1. CASE UNCHANGED vars
  BY <1>1, QuietCounts DEF vars, objects, threads, Quiet
<1>2. ASSUME NEW t \in Threads, NEW m \in Models, LoadModel(t, m) PROVE UsersCounted'
  <2>1. Quiet
    BY <1>2, ResourceAssumption DEF LoadModel, Wrap, objects, threads, interrupt, IInv, TypeOK,
         Quiet, Users, WrapperShape, CallShape, CtxStages, DropStages,
         Res
  <2>. QED BY <2>1, QuietCounts
<1>3. ASSUME NEW t \in Threads, NEW m \in Models, FreeModelDeferred(t, m) PROVE UsersCounted'
  <2>1. Quiet
    BY <1>3, ResourceAssumption DEF FreeModelDeferred, Callable, objects, threads, interrupt, IInv,
         TypeOK, Quiet, Users, WrapperShape, CallShape, CtxStages,
         DropStages, Res
  <2>. QED BY <2>1, QuietCounts
<1>4. ASSUME NEW t \in Threads, NEW m \in Models, FreeModelNow(t, m) PROVE UsersCounted'
  <2>1. Quiet
    BY <1>4, ResourceAssumption DEF FreeModelNow, Callable, FreeModelObject, Leftover, Freed,
         objects, threads, interrupt, IInv, TypeOK, Quiet, Users,
         WrapperShape, CallShape, CtxStages, DropStages, Res
  <2>. QED BY <2>1, QuietCounts
<1>5. ASSUME NEW t \in Threads, NEW m \in Models, ModelDtor(t, m) PROVE UsersCounted'
  <2>1. Quiet
    BY <1>5, ResourceAssumption DEF ModelDtor, Destroy, Collectable, InUse, Leftover, Freed, objects,
         threads, interrupt, IInv, TypeOK, Quiet, Users, WrapperShape,
         CallShape, CtxStages, DropStages, Res
  <2>. QED BY <2>1, QuietCounts
<1>6. ASSUME NEW t \in Threads, NEW m \in Models, NEW c \in Contexts, NewContext(t, m, c) PROVE UsersCounted'
  <2>1. c \in Res /\ wrapper[c] = "unused"
    BY <1>6 DEF NewContext, Res
  <2>2. /\ wrapper'[c] = "made" /\ parent'[c] = m
        /\ \A q \in Res : q # c => (wrapper'[q] = wrapper[q] /\ parent'[q] = parent[q])
    BY <1>6, <2>1 DEF NewContext, Wrap, IInv, TypeOK
  <2>3. ASSUME NEW n \in Models
        PROVE  /\ Attached(n, Contexts)' = IF n = m THEN Attached(n, Contexts) \cup {c}
                                                   ELSE Attached(n, Contexts)
               /\ Attached(n, Adapters)' = Attached(n, Adapters)
    <3>1. ASSUME NEW q \in Contexts
          PROVE  (wrapper'[q] = "made" /\ parent'[q] = n)
                    <=> ((wrapper[q] = "made" /\ parent[q] = n) \/ (q = c /\ n = m))
      BY <2>1, <2>2, ResourceAssumption DEF Res
    <3>2. ASSUME NEW q \in Adapters
          PROVE  (wrapper'[q] = "made" /\ parent'[q] = n)
                    <=> (wrapper[q] = "made" /\ parent[q] = n)
      BY <2>2, ResourceAssumption DEF Res
    <3>. QED BY <3>1, <3>2 DEF Attached
  <2>4. \A n \in Models : /\ Dropping(n, "drop_ctx")' = Dropping(n, "drop_ctx")
                          /\ Dropping(n, "drop_adp")' = Dropping(n, "drop_adp")
    BY <1>6 DEF NewContext, Dropping, threads
  <2>5. Cardinality(Attached(m, Contexts) \cup {c})
           = Cardinality(Attached(m, Contexts)) + 1
    <3>1. c \notin Attached(m, Contexts)
      BY <2>1 DEF Attached
    <3>. QED BY <3>1, OneMore, UsersFinite
  <2>6. \A n \in Models : /\ activeCtx'[n] = IF n = m THEN activeCtx[n] + 1 ELSE activeCtx[n]
                          /\ activeAdp'[n] = activeAdp[n]
    BY <1>6 DEF NewContext, IInv, TypeOK
  <2>7. ASSUME NEW n \in Models
        PROVE  /\ activeCtx'[n] = Cardinality(Attached(n, Contexts)')
                                   + Cardinality(Dropping(n, "drop_ctx")')
               /\ activeAdp'[n] = Cardinality(Attached(n, Adapters)')
                                   + Cardinality(Dropping(n, "drop_adp")')
    <3>1. /\ activeCtx[n] = Cardinality(Attached(n, Contexts))
                             + Cardinality(Dropping(n, "drop_ctx"))
          /\ activeAdp[n] = Cardinality(Attached(n, Adapters))
                             + Cardinality(Dropping(n, "drop_adp"))
      BY DEF IInv, UsersCounted
    <3>2. CASE n = m
      <4>1. activeCtx[m] + 1 = Cardinality(Attached(m, Contexts) \cup {c})
                              + Cardinality(Dropping(m, "drop_ctx"))
        BY <2>5, <3>1, <3>2, UsersFinite
      <4>. QED BY <2>3, <2>4, <2>6, <3>1, <3>2, <4>1
    <3>3. CASE n # m
      BY <2>3, <2>4, <2>6, <3>1, <3>3
    <3>. QED BY <3>2, <3>3
  <2>. QED BY <2>7 DEF UsersCounted
<1>7. ASSUME NEW t \in Threads, NEW m \in Models, NEW a \in Adapters, AdapterLoad(t, m, a) PROVE UsersCounted'
  <2>1. a \in Res /\ wrapper[a] = "unused"
    BY <1>7 DEF AdapterLoad, Res
  <2>2. /\ wrapper'[a] = "made" /\ parent'[a] = m
        /\ \A q \in Res : q # a => (wrapper'[q] = wrapper[q] /\ parent'[q] = parent[q])
    BY <1>7, <2>1 DEF AdapterLoad, Wrap, IInv, TypeOK
  <2>3. ASSUME NEW n \in Models
        PROVE  /\ Attached(n, Adapters)' = IF n = m THEN Attached(n, Adapters) \cup {a}
                                                   ELSE Attached(n, Adapters)
               /\ Attached(n, Contexts)' = Attached(n, Contexts)
    <3>1. ASSUME NEW q \in Adapters
          PROVE  (wrapper'[q] = "made" /\ parent'[q] = n)
                    <=> ((wrapper[q] = "made" /\ parent[q] = n) \/ (q = a /\ n = m))
      BY <2>1, <2>2, ResourceAssumption DEF Res
    <3>2. ASSUME NEW q \in Contexts
          PROVE  (wrapper'[q] = "made" /\ parent'[q] = n)
                    <=> (wrapper[q] = "made" /\ parent[q] = n)
      BY <2>2, ResourceAssumption DEF Res
    <3>. QED BY <3>1, <3>2 DEF Attached
  <2>4. \A n \in Models : /\ Dropping(n, "drop_ctx")' = Dropping(n, "drop_ctx")
                          /\ Dropping(n, "drop_adp")' = Dropping(n, "drop_adp")
    BY <1>7 DEF AdapterLoad, Dropping, threads
  <2>5. Cardinality(Attached(m, Adapters) \cup {a})
           = Cardinality(Attached(m, Adapters)) + 1
    <3>1. a \notin Attached(m, Adapters)
      BY <2>1 DEF Attached
    <3>. QED BY <3>1, OneMore, UsersFinite
  <2>6. \A n \in Models : /\ activeAdp'[n] = IF n = m THEN activeAdp[n] + 1 ELSE activeAdp[n]
                          /\ activeCtx'[n] = activeCtx[n]
    BY <1>7 DEF AdapterLoad, IInv, TypeOK
  <2>7. ASSUME NEW n \in Models
        PROVE  /\ activeCtx'[n] = Cardinality(Attached(n, Contexts)')
                                   + Cardinality(Dropping(n, "drop_ctx")')
               /\ activeAdp'[n] = Cardinality(Attached(n, Adapters)')
                                   + Cardinality(Dropping(n, "drop_adp")')
    <3>1. /\ activeCtx[n] = Cardinality(Attached(n, Contexts))
                             + Cardinality(Dropping(n, "drop_ctx"))
          /\ activeAdp[n] = Cardinality(Attached(n, Adapters))
                             + Cardinality(Dropping(n, "drop_adp"))
      BY DEF IInv, UsersCounted
    <3>2. CASE n = m
      <4>1. activeAdp[m] + 1 = Cardinality(Attached(m, Adapters) \cup {a})
                              + Cardinality(Dropping(m, "drop_adp"))
        BY <2>5, <3>1, <3>2, UsersFinite
      <4>. QED BY <2>3, <2>4, <2>6, <3>1, <3>2, <4>1
    <3>3. CASE n # m
      BY <2>3, <2>4, <2>6, <3>1, <3>3
    <3>. QED BY <3>2, <3>3
  <2>. QED BY <2>7 DEF UsersCounted
<1>8. ASSUME NEW t \in Threads, NEW c \in Contexts, FreeContext(t, c) PROVE UsersCounted'
  <2>1. wrapper[c] = "made" /\ parent[c] \in Models
    BY <1>8 DEF FreeContext, IInv, WrapperShape, TypeOK, Res
  <2>2. /\ parent' = [parent EXCEPT ![c] = None] /\ wrapper' = wrapper
        /\ pc' = [pc EXCEPT ![t] = "drop_ctx"] /\ on' = [on EXCEPT ![t] = parent[c]]
        /\ UNCHANGED <<activeCtx, activeAdp>> /\ pc[t] = "idle"
    BY <1>8 DEF FreeContext, Callable, Goto
  <2>. QED BY <2>1, <2>2, ContextsHandOver
<1>9. ASSUME NEW t \in Threads, NEW c \in Contexts, CtxDtor(t, c) PROVE UsersCounted'
  <2>1. CASE parent[c] = None
    <3>1. Quiet
      BY <1>9, <2>1, ResourceAssumption
      DEF CtxDtor, UserDtor, Destroy, Collectable, IInv, TypeOK, Quiet, Users, CallShape,
          DropStages, Res
    <3>. QED BY <3>1, QuietCounts
  <2>2. CASE parent[c] # None
    <3>1. wrapper[c] = "made" /\ parent[c] \in Models
      BY <1>9, <2>2 DEF CtxDtor, UserDtor, Destroy, Collectable, IInv, WrapperShape, Res
    <3>2. /\ parent' = [parent EXCEPT ![c] = None]
          /\ wrapper' = [wrapper EXCEPT ![c] = "dead"]
          /\ pc' = [pc EXCEPT ![t] = "drop_ctx"] /\ on' = [on EXCEPT ![t] = parent[c]]
          /\ UNCHANGED <<activeCtx, activeAdp>> /\ pc[t] = "idle"
      BY <1>9, <2>2 DEF CtxDtor, UserDtor, Destroy, Goto
    <3>. QED BY <3>1, <3>2, ContextsHandOver
  <2>. QED BY <2>1, <2>2
<1>10. ASSUME NEW t \in Threads, NEW c \in Contexts, NEW s \in Samplers, SamplerNew(t, c, s) PROVE UsersCounted'
  <2>1. Quiet
    BY <1>10, ResourceAssumption DEF SamplerNew, Callable, Wrap, objects, threads, interrupt, IInv,
         TypeOK, Quiet, Users, WrapperShape, CallShape, CtxStages,
         DropStages, Res
  <2>. QED BY <2>1, QuietCounts
<1>11. ASSUME NEW t \in Threads, NEW a \in Adapters, AdapterFree(t, a) PROVE UsersCounted'
  <2>1. Quiet
    BY <1>11, ResourceAssumption DEF AdapterFree, FreeLeaf, Callable, Freed, objects, threads,
         interrupt, IInv, TypeOK, Quiet, Users, WrapperShape, CallShape,
         CtxStages, DropStages, Res
  <2>. QED BY <2>1, QuietCounts
<1>12. ASSUME NEW t \in Threads, NEW a \in Adapters, AdapterDtor(t, a) PROVE UsersCounted'
  <2>1. CASE parent[a] = None
    <3>1. Quiet
      BY <1>12, <2>1, ResourceAssumption
      DEF AdapterDtor, UserDtor, Destroy, Collectable, IInv, TypeOK, Quiet, Users, CallShape,
          DropStages, Res
    <3>. QED BY <3>1, QuietCounts
  <2>2. CASE parent[a] # None
    <3>1. wrapper[a] = "made" /\ parent[a] \in Models
      BY <1>12, <2>2 DEF AdapterDtor, UserDtor, Destroy, Collectable, IInv, WrapperShape, Res
    <3>2. /\ parent' = [parent EXCEPT ![a] = None]
          /\ wrapper' = [wrapper EXCEPT ![a] = "dead"]
          /\ pc' = [pc EXCEPT ![t] = "drop_adp"] /\ on' = [on EXCEPT ![t] = parent[a]]
          /\ UNCHANGED <<activeCtx, activeAdp>> /\ pc[t] = "idle"
      BY <1>12, <2>2 DEF AdapterDtor, UserDtor, Destroy, Goto
    <3>. QED BY <3>1, <3>2, AdaptersHandOver
  <2>. QED BY <2>1, <2>2
<1>13. ASSUME NEW t \in Threads, NEW s \in Samplers, SamplerFree(t, s) PROVE UsersCounted'
  <2>1. Quiet
    BY <1>13, ResourceAssumption DEF SamplerFree, FreeLeaf, Callable, Freed, objects, threads,
         interrupt, IInv, TypeOK, Quiet, Users, WrapperShape, CallShape,
         CtxStages, DropStages, Res
  <2>. QED BY <2>1, QuietCounts
<1>14. ASSUME NEW t \in Threads, NEW s \in Samplers, SamplerDtor(t, s) PROVE UsersCounted'
  <2>1. Quiet
    BY <1>14, ResourceAssumption DEF SamplerDtor, Destroy, Collectable, InUse, Freed, objects,
         threads, interrupt, IInv, TypeOK, Quiet, Users, WrapperShape,
         CallShape, CtxStages, DropStages, Res
  <2>. QED BY <2>1, QuietCounts
<1>15. ASSUME NEW t \in Threads, DropModel(t) PROVE UsersCounted'
  <2> DEFINE p == on[t]
  <2>1. p \in Models /\ pc[t] \in DropStages
    BY <1>15 DEF IInv, CallShape, DropStages, DropModel
  <2>2. pc' = [pc EXCEPT ![t] = "idle"] /\ on' = [on EXCEPT ![t] = None]
    BY <1>15 DEF DropModel, Return
  <2>3. \A m \in Models : /\ Attached(m, Contexts)' = Attached(m, Contexts)
                          /\ Attached(m, Adapters)' = Attached(m, Adapters)
    BY <1>15 DEF DropModel, Attached
  <2>4. CASE pc[t] = "drop_ctx"
    <3>1. \A m \in Models :
             /\ Dropping(m, "drop_ctx")' = IF m = p THEN Dropping(m, "drop_ctx") \ {t}
                                             ELSE Dropping(m, "drop_ctx")
             /\ Dropping(m, "drop_adp")' = Dropping(m, "drop_adp")
      BY <2>1, <2>2, <2>4, ResourceAssumption DEF Dropping, IInv, TypeOK
    <3>2. t \in Dropping(p, "drop_ctx")
      BY <2>4 DEF Dropping
    <3>3. /\ Cardinality(Dropping(p, "drop_ctx") \ {t})
                = Cardinality(Dropping(p, "drop_ctx")) - 1
          /\ Cardinality(Dropping(p, "drop_ctx")) # 0
      BY <3>2, OneLess, UsersFinite, FS_EmptySet
    <3>4. activeCtx[p] > 0
      BY <2>1, <3>3, UsersFinite DEF IInv, UsersCounted
    <3>5. \A m \in Models : /\ activeCtx'[m] = IF m = p THEN activeCtx[m] - 1 ELSE activeCtx[m]
                            /\ activeAdp'[m] = activeAdp[m]
      BY <1>15, <2>1, <2>4, <3>4 DEF DropModel, IInv, TypeOK
    <3>6. ASSUME NEW m \in Models
          PROVE  /\ activeCtx'[m] = Cardinality(Attached(m, Contexts)')
                                     + Cardinality(Dropping(m, "drop_ctx")')
                 /\ activeAdp'[m] = Cardinality(Attached(m, Adapters)')
                                     + Cardinality(Dropping(m, "drop_adp")')
      <4>1. /\ activeCtx[m] = Cardinality(Attached(m, Contexts))
                               + Cardinality(Dropping(m, "drop_ctx"))
            /\ activeAdp[m] = Cardinality(Attached(m, Adapters))
                               + Cardinality(Dropping(m, "drop_adp"))
        BY DEF IInv, UsersCounted
      <4>2. CASE m = p
        <5>1. activeCtx[p] - 1 = Cardinality(Attached(p, Contexts))
                                + Cardinality(Dropping(p, "drop_ctx") \ {t})
          BY <3>3, <4>1, <4>2, UsersFinite
        <5>. QED BY <2>3, <3>1, <3>5, <4>1, <4>2, <5>1
      <4>3. CASE m # p
        BY <2>3, <3>1, <3>5, <4>1, <4>3
      <4>. QED BY <4>2, <4>3
    <3>. QED BY <3>6 DEF UsersCounted
  <2>5. CASE pc[t] = "drop_adp"
    <3>1. \A m \in Models :
             /\ Dropping(m, "drop_adp")' = IF m = p THEN Dropping(m, "drop_adp") \ {t}
                                             ELSE Dropping(m, "drop_adp")
             /\ Dropping(m, "drop_ctx")' = Dropping(m, "drop_ctx")
      BY <2>1, <2>2, <2>5, ResourceAssumption DEF Dropping, IInv, TypeOK
    <3>2. t \in Dropping(p, "drop_adp")
      BY <2>5 DEF Dropping
    <3>3. /\ Cardinality(Dropping(p, "drop_adp") \ {t})
                = Cardinality(Dropping(p, "drop_adp")) - 1
          /\ Cardinality(Dropping(p, "drop_adp")) # 0
      BY <3>2, OneLess, UsersFinite, FS_EmptySet
    <3>4. activeAdp[p] > 0
      BY <2>1, <3>3, UsersFinite DEF IInv, UsersCounted
    <3>5. \A m \in Models : /\ activeAdp'[m] = IF m = p THEN activeAdp[m] - 1 ELSE activeAdp[m]
                            /\ activeCtx'[m] = activeCtx[m]
      BY <1>15, <2>1, <2>5, <3>4 DEF DropModel, IInv, TypeOK
    <3>6. ASSUME NEW m \in Models
          PROVE  /\ activeCtx'[m] = Cardinality(Attached(m, Contexts)')
                                     + Cardinality(Dropping(m, "drop_ctx")')
                 /\ activeAdp'[m] = Cardinality(Attached(m, Adapters)')
                                     + Cardinality(Dropping(m, "drop_adp")')
      <4>1. /\ activeCtx[m] = Cardinality(Attached(m, Contexts))
                               + Cardinality(Dropping(m, "drop_ctx"))
            /\ activeAdp[m] = Cardinality(Attached(m, Adapters))
                               + Cardinality(Dropping(m, "drop_adp"))
        BY DEF IInv, UsersCounted
      <4>2. CASE m = p
        <5>1. activeAdp[p] - 1 = Cardinality(Attached(p, Adapters))
                                + Cardinality(Dropping(p, "drop_adp") \ {t})
          BY <3>3, <4>1, <4>2, UsersFinite
        <5>. QED BY <2>3, <3>1, <3>5, <4>1, <4>2, <5>1
      <4>3. CASE m # p
        BY <2>3, <3>1, <3>5, <4>1, <4>3
      <4>. QED BY <4>2, <4>3
    <3>. QED BY <3>6 DEF UsersCounted
  <2>. QED BY <2>1, <2>4, <2>5 DEF DropStages
<1>16. ASSUME NEW t \in Threads, NEW c \in Contexts, NEW S \in SUBSET Samplers, StepBegin(t, c, S) PROVE UsersCounted'
  <2>1. Quiet
    BY <1>16, ResourceAssumption DEF StepBegin, Callable, Goto, objects, threads, interrupt, IInv,
         TypeOK, Quiet, Users, WrapperShape, CallShape, CtxStages,
         DropStages, Res
  <2>. QED BY <2>1, QuietCounts
<1>17. ASSUME NEW t \in Threads, NEW c \in Contexts, DecodeUnarmed(t, c) PROVE UsersCounted'
  <2>1. Quiet
    BY <1>17, ResourceAssumption DEF DecodeUnarmed, Callable, Goto, objects, threads, interrupt, IInv,
         TypeOK, Quiet, Users, WrapperShape, CallShape, CtxStages,
         DropStages, Res
  <2>. QED BY <2>1, QuietCounts
<1>18. ASSUME NEW t \in Threads, NEW s \in Samplers, SampleRow(t, s) PROVE UsersCounted'
  <2>1. Quiet
    BY <1>18, ResourceAssumption DEF SampleRow, Goto, objects, threads, interrupt, IInv, TypeOK,
         Quiet, Users, WrapperShape, CallShape, CtxStages, DropStages,
         Res
  <2>. QED BY <2>1, QuietCounts
<1>19. ASSUME NEW t \in Threads, NEW s \in Samplers, StepReleased(t, s) PROVE UsersCounted'
  <2>1. Quiet
    BY <1>19, ResourceAssumption DEF StepReleased, Return, objects, threads, interrupt, IInv, TypeOK,
         Quiet, Users, WrapperShape, CallShape, CtxStages, DropStages,
         Res
  <2>. QED BY <2>1, QuietCounts
<1>20. ASSUME NEW t \in Threads, StepRefused(t) PROVE UsersCounted'
  <2>1. Quiet
    BY <1>20, ResourceAssumption DEF StepRefused, Return, objects, threads, interrupt, IInv, TypeOK,
         Quiet, Users, WrapperShape, CallShape, CtxStages, DropStages,
         Res
  <2>. QED BY <2>1, QuietCounts
<1>21. ASSUME NEW t \in Threads, NEW s \in Samplers, SampledRow(t, s) PROVE UsersCounted'
  <2>1. Quiet
    BY <1>21, ResourceAssumption DEF SampledRow, Goto, objects, threads, interrupt, IInv, TypeOK,
         Quiet, Users, WrapperShape, CallShape, CtxStages, DropStages,
         Res
  <2>. QED BY <2>1, QuietCounts
<1>22. ASSUME NEW t \in Threads, StepDecode(t) PROVE UsersCounted'
  <2>1. Quiet
    BY <1>22, ResourceAssumption DEF StepDecode, Goto, objects, threads, interrupt, IInv, TypeOK,
         Quiet, Users, WrapperShape, CallShape, CtxStages, DropStages,
         Res
  <2>. QED BY <2>1, QuietCounts
<1>23. ASSUME NEW t \in Threads, DecodeReturns(t) PROVE UsersCounted'
  <2>1. Quiet
    BY <1>23, ResourceAssumption DEF DecodeReturns, Return, objects, threads, interrupt, IInv, TypeOK,
         Quiet, Users, WrapperShape, CallShape, CtxStages, DropStages,
         Res
  <2>. QED BY <2>1, QuietCounts
<1>24. ASSUME NEW t \in Threads, DecodeInterrupted(t) PROVE UsersCounted'
  <2>1. Quiet
    BY <1>24, ResourceAssumption DEF DecodeInterrupted, Goto, objects, threads, interrupt, IInv,
         TypeOK, Quiet, Users, WrapperShape, CallShape, CtxStages,
         DropStages, Res
  <2>. QED BY <2>1, QuietCounts
<1>25. ASSUME NEW t \in Threads, InterruptReported(t) PROVE UsersCounted'
  <2>1. Quiet
    BY <1>25, ResourceAssumption DEF InterruptReported, Return, objects, threads, interrupt, IInv,
         TypeOK, Quiet, Users, WrapperShape, CallShape, CtxStages,
         DropStages, Res
  <2>. QED BY <2>1, QuietCounts
<1>26. ASSUME NEW t \in Threads, NEW c \in Contexts, NEW A \in SUBSET Adapters, SetAdapters(t, c, A) PROVE UsersCounted'
  <2>1. Quiet
    BY <1>26, ResourceAssumption DEF SetAdapters, Callable, Goto, objects, threads, interrupt, IInv,
         TypeOK, Quiet, Users, WrapperShape, CallShape, CtxStages,
         DropStages, Res
  <2>. QED BY <2>1, QuietCounts
<1>27. ASSUME NEW t \in Threads, NEW a \in Adapters, SetAdaptersLock(t, a) PROVE UsersCounted'
  <2>1. Quiet
    BY <1>27, ResourceAssumption DEF SetAdaptersLock, NextAdapter, Missing, objects, threads,
         interrupt, IInv, TypeOK, Quiet, Users, WrapperShape, CallShape,
         CtxStages, DropStages, Res
  <2>. QED BY <2>1, QuietCounts
<1>28. ASSUME NEW t \in Threads, NEW a \in Adapters, SetAdaptersReleased(t, a) PROVE UsersCounted'
  <2>1. Quiet
    BY <1>28, ResourceAssumption DEF SetAdaptersReleased, Return, objects, threads, interrupt, IInv,
         TypeOK, Quiet, Users, WrapperShape, CallShape, CtxStages,
         DropStages, Res
  <2>. QED BY <2>1, QuietCounts
<1>29. ASSUME NEW t \in Threads, SetAdaptersContext(t) PROVE UsersCounted'
  <2>1. Quiet
    BY <1>29, ResourceAssumption DEF SetAdaptersContext, Goto, Return, Missing, objects, threads,
         interrupt, IInv, TypeOK, Quiet, Users, WrapperShape, CallShape,
         CtxStages, DropStages, Res
  <2>. QED BY <2>1, QuietCounts
<1>30. ASSUME NEW t \in Threads, SetAdaptersDone(t) PROVE UsersCounted'
  <2>1. Quiet
    BY <1>30, ResourceAssumption DEF SetAdaptersDone, Return, objects, threads, interrupt, IInv,
         TypeOK, Quiet, Users, WrapperShape, CallShape, CtxStages,
         DropStages, Res
  <2>. QED BY <2>1, QuietCounts
<1>31. ASSUME NEW r \in Res, DropTerm(r) PROVE UsersCounted'
  <2>1. Quiet
    BY <1>31, ResourceAssumption DEF DropTerm, objects, threads, interrupt, IInv, TypeOK, Quiet,
         Users, WrapperShape, CallShape, CtxStages, DropStages, Res
  <2>. QED BY <2>1, QuietCounts
<1>32. ASSUME NEW c \in Contexts, RequestAbort(c) PROVE UsersCounted'
  <2>1. Quiet
    BY <1>32, ResourceAssumption DEF RequestAbort, objects, threads, interrupt, IInv, TypeOK, Quiet,
         Users, WrapperShape, CallShape, CtxStages, DropStages, Res
  <2>. QED BY <2>1, QuietCounts
<1>33. ASSUME NEW c \in Contexts, DeadlinePasses(c) PROVE UsersCounted'
  <2>1. Quiet
    BY <1>33, ResourceAssumption DEF DeadlinePasses, objects, threads, interrupt, IInv, TypeOK, Quiet,
         Users, WrapperShape, CallShape, CtxStages, DropStages, Res
  <2>. QED BY <2>1, QuietCounts
<1>. QED BY <1>1, <1>2, <1>3, <1>4, <1>5, <1>6, <1>7, <1>8, <1>9, <1>10,
       <1>11, <1>12, <1>13, <1>14, <1>15, <1>16, <1>17, <1>18, <1>19, <1>20,
       <1>21, <1>22, <1>23, <1>24, <1>25, <1>26, <1>27, <1>28, <1>29, <1>30,
       <1>31, <1>32, <1>33
  DEF Next, Lifetimes, Decodes, Installs, DecodeOne, Embed, Prefill,
      ForwardWithArgmax

\* No step but the creation of a context or an adapter, which the model
\* refuses once it is to be released, attaches a user to it.
LEMMA FinalStepHolds == ASSUME IInv, [Next]_vars PROVE FinalStep
<1>1. CASE UNCHANGED vars
  BY <1>1 DEF vars, objects, threads, interrupt, IInv, TypeOK, WrapperShape,
         FinalStep, Res
<1>2. ASSUME NEW t \in Threads, NEW m \in Models, LoadModel(t, m) PROVE FinalStep
  BY <1>2, ResourceAssumption DEF LoadModel, Wrap, objects, threads, interrupt, IInv, TypeOK,
         WrapperShape, FinalStep, Res
<1>3. ASSUME NEW t \in Threads, NEW m \in Models, FreeModelDeferred(t, m) PROVE FinalStep
  BY <1>3, ResourceAssumption DEF FreeModelDeferred, Callable, objects, threads, interrupt, IInv,
         TypeOK, WrapperShape, FinalStep, Res
<1>4. ASSUME NEW t \in Threads, NEW m \in Models, FreeModelNow(t, m) PROVE FinalStep
  BY <1>4, ResourceAssumption DEF FreeModelNow, Callable, FreeModelObject, Leftover, Freed,
         objects, threads, interrupt, IInv, TypeOK, WrapperShape,
         FinalStep, Res
<1>5. ASSUME NEW t \in Threads, NEW m \in Models, ModelDtor(t, m) PROVE FinalStep
  BY <1>5, ResourceAssumption DEF ModelDtor, Destroy, Collectable, InUse, Leftover, Freed, objects,
         threads, interrupt, IInv, TypeOK, WrapperShape, FinalStep, Res
<1>6. ASSUME NEW t \in Threads, NEW m \in Models, NEW c \in Contexts, NewContext(t, m, c) PROVE FinalStep
  BY <1>6, ResourceAssumption DEF NewContext, Callable, Wrap, objects, threads, interrupt, IInv,
         TypeOK, WrapperShape, FinalStep, Res
<1>7. ASSUME NEW t \in Threads, NEW m \in Models, NEW a \in Adapters, AdapterLoad(t, m, a) PROVE FinalStep
  BY <1>7, ResourceAssumption DEF AdapterLoad, Callable, Wrap, objects, threads, interrupt, IInv,
         TypeOK, WrapperShape, FinalStep, Res
<1>8. ASSUME NEW t \in Threads, NEW c \in Contexts, FreeContext(t, c) PROVE FinalStep
  BY <1>8, ResourceAssumption DEF FreeContext, Callable, Goto, Freed, objects, threads, interrupt,
         IInv, TypeOK, WrapperShape, FinalStep, Res
<1>9. ASSUME NEW t \in Threads, NEW c \in Contexts, CtxDtor(t, c) PROVE FinalStep
  BY <1>9, ResourceAssumption DEF CtxDtor, UserDtor, Destroy, Collectable, InUse, Goto, Freed,
         objects, threads, interrupt, IInv, TypeOK, WrapperShape,
         FinalStep, Res
<1>10. ASSUME NEW t \in Threads, NEW c \in Contexts, NEW s \in Samplers, SamplerNew(t, c, s) PROVE FinalStep
  BY <1>10, ResourceAssumption DEF SamplerNew, Callable, Wrap, objects, threads, interrupt, IInv,
         TypeOK, WrapperShape, FinalStep, Res
<1>11. ASSUME NEW t \in Threads, NEW a \in Adapters, AdapterFree(t, a) PROVE FinalStep
  BY <1>11, ResourceAssumption DEF AdapterFree, FreeLeaf, Callable, Freed, objects, threads,
         interrupt, IInv, TypeOK, WrapperShape, FinalStep, Res
<1>12. ASSUME NEW t \in Threads, NEW a \in Adapters, AdapterDtor(t, a) PROVE FinalStep
  BY <1>12, ResourceAssumption DEF AdapterDtor, UserDtor, Destroy, Collectable, InUse, Goto, Freed,
         objects, threads, interrupt, IInv, TypeOK, WrapperShape,
         FinalStep, Res
<1>13. ASSUME NEW t \in Threads, NEW s \in Samplers, SamplerFree(t, s) PROVE FinalStep
  BY <1>13, ResourceAssumption DEF SamplerFree, FreeLeaf, Callable, Freed, objects, threads,
         interrupt, IInv, TypeOK, WrapperShape, FinalStep, Res
<1>14. ASSUME NEW t \in Threads, NEW s \in Samplers, SamplerDtor(t, s) PROVE FinalStep
  BY <1>14, ResourceAssumption DEF SamplerDtor, Destroy, Collectable, InUse, Freed, objects,
         threads, interrupt, IInv, TypeOK, WrapperShape, FinalStep, Res
<1>15. ASSUME NEW t \in Threads, DropModel(t) PROVE FinalStep
  BY <1>15, ResourceAssumption DEF DropModel, FreeModelObject, Return, Leftover, Freed, objects,
         threads, interrupt, IInv, TypeOK, WrapperShape, FinalStep, Res
<1>16. ASSUME NEW t \in Threads, NEW c \in Contexts, NEW S \in SUBSET Samplers, StepBegin(t, c, S) PROVE FinalStep
  BY <1>16, ResourceAssumption DEF StepBegin, Callable, Goto, objects, threads, interrupt, IInv,
         TypeOK, WrapperShape, FinalStep, Res
<1>17. ASSUME NEW t \in Threads, NEW c \in Contexts, DecodeUnarmed(t, c) PROVE FinalStep
  BY <1>17, ResourceAssumption DEF DecodeUnarmed, Callable, Goto, objects, threads, interrupt, IInv,
         TypeOK, WrapperShape, FinalStep, Res
<1>18. ASSUME NEW t \in Threads, NEW s \in Samplers, SampleRow(t, s) PROVE FinalStep
  BY <1>18, ResourceAssumption DEF SampleRow, Goto, objects, threads, interrupt, IInv, TypeOK,
         WrapperShape, FinalStep, Res
<1>19. ASSUME NEW t \in Threads, NEW s \in Samplers, StepReleased(t, s) PROVE FinalStep
  BY <1>19, ResourceAssumption DEF StepReleased, Return, objects, threads, interrupt, IInv, TypeOK,
         WrapperShape, FinalStep, Res
<1>20. ASSUME NEW t \in Threads, StepRefused(t) PROVE FinalStep
  BY <1>20, ResourceAssumption DEF StepRefused, Return, objects, threads, interrupt, IInv, TypeOK,
         WrapperShape, FinalStep, Res
<1>21. ASSUME NEW t \in Threads, NEW s \in Samplers, SampledRow(t, s) PROVE FinalStep
  BY <1>21, ResourceAssumption DEF SampledRow, Goto, objects, threads, interrupt, IInv, TypeOK,
         WrapperShape, FinalStep, Res
<1>22. ASSUME NEW t \in Threads, StepDecode(t) PROVE FinalStep
  BY <1>22, ResourceAssumption DEF StepDecode, Goto, objects, threads, interrupt, IInv, TypeOK,
         WrapperShape, FinalStep, Res
<1>23. ASSUME NEW t \in Threads, DecodeReturns(t) PROVE FinalStep
  BY <1>23, ResourceAssumption DEF DecodeReturns, Return, objects, threads, interrupt, IInv, TypeOK,
         WrapperShape, FinalStep, Res
<1>24. ASSUME NEW t \in Threads, DecodeInterrupted(t) PROVE FinalStep
  BY <1>24, ResourceAssumption DEF DecodeInterrupted, Goto, objects, threads, interrupt, IInv,
         TypeOK, WrapperShape, FinalStep, Res
<1>25. ASSUME NEW t \in Threads, InterruptReported(t) PROVE FinalStep
  BY <1>25, ResourceAssumption DEF InterruptReported, Return, objects, threads, interrupt, IInv,
         TypeOK, WrapperShape, FinalStep, Res
<1>26. ASSUME NEW t \in Threads, NEW c \in Contexts, NEW A \in SUBSET Adapters, SetAdapters(t, c, A) PROVE FinalStep
  BY <1>26, ResourceAssumption DEF SetAdapters, Callable, Goto, objects, threads, interrupt, IInv,
         TypeOK, WrapperShape, FinalStep, Res
<1>27. ASSUME NEW t \in Threads, NEW a \in Adapters, SetAdaptersLock(t, a) PROVE FinalStep
  BY <1>27, ResourceAssumption DEF SetAdaptersLock, NextAdapter, Missing, objects, threads,
         interrupt, IInv, TypeOK, WrapperShape, FinalStep, Res
<1>28. ASSUME NEW t \in Threads, NEW a \in Adapters, SetAdaptersReleased(t, a) PROVE FinalStep
  BY <1>28, ResourceAssumption DEF SetAdaptersReleased, Return, objects, threads, interrupt, IInv,
         TypeOK, WrapperShape, FinalStep, Res
<1>29. ASSUME NEW t \in Threads, SetAdaptersContext(t) PROVE FinalStep
  BY <1>29, ResourceAssumption DEF SetAdaptersContext, Goto, Return, Missing, objects, threads,
         interrupt, IInv, TypeOK, WrapperShape, FinalStep, Res
<1>30. ASSUME NEW t \in Threads, SetAdaptersDone(t) PROVE FinalStep
  BY <1>30, ResourceAssumption DEF SetAdaptersDone, Return, objects, threads, interrupt, IInv,
         TypeOK, WrapperShape, FinalStep, Res
<1>31. ASSUME NEW r \in Res, DropTerm(r) PROVE FinalStep
  BY <1>31, ResourceAssumption DEF DropTerm, objects, threads, interrupt, IInv, TypeOK,
         WrapperShape, FinalStep, Res
<1>32. ASSUME NEW c \in Contexts, RequestAbort(c) PROVE FinalStep
  BY <1>32, ResourceAssumption DEF RequestAbort, objects, threads, interrupt, IInv, TypeOK,
         WrapperShape, FinalStep, Res
<1>33. ASSUME NEW c \in Contexts, DeadlinePasses(c) PROVE FinalStep
  BY <1>33, ResourceAssumption DEF DeadlinePasses, objects, threads, interrupt, IInv, TypeOK,
         WrapperShape, FinalStep, Res
<1>. QED BY <1>1, <1>2, <1>3, <1>4, <1>5, <1>6, <1>7, <1>8, <1>9, <1>10,
       <1>11, <1>12, <1>13, <1>14, <1>15, <1>16, <1>17, <1>18, <1>19, <1>20,
       <1>21, <1>22, <1>23, <1>24, <1>25, <1>26, <1>27, <1>28, <1>29, <1>30,
       <1>31, <1>32, <1>33
  DEF Next, Lifetimes, Decodes, Installs, DecodeOne, Embed, Prefill,
      ForwardWithArgmax

-----------------------------------------------------------------------------
\* The initial states satisfy the invariant
LEMMA InitInv == Init => IInv
<1> SUFFICES ASSUME Init PROVE IInv
  OBVIOUS
<1> USE DEF Init
<1>1. TypeOK
  BY DEF TypeOK, Res, Stages
<1>2. CallShape /\ LockShape /\ HolderShape /\ LockOrder
  BY ResourceAssumption DEF CallShape, LockShape, HolderShape, LockOrder, DropStages, CtxStages, Res
<1>3. WrapperShape /\ Referenced /\ LockedAlive
  BY ResourceAssumption DEF WrapperShape, Referenced, LockedAlive, Res
<1>4. UsersCounted
  <2> SUFFICES ASSUME NEW m \in Models PROVE
        /\ activeCtx[m] = Cardinality(Attached(m, Contexts))
                            + Cardinality(Dropping(m, "drop_ctx"))
        /\ activeAdp[m] = Cardinality(Attached(m, Adapters))
                            + Cardinality(Dropping(m, "drop_adp"))
    BY DEF UsersCounted
  <2>1. /\ Attached(m, Contexts) = {} /\ Attached(m, Adapters) = {}
        /\ Dropping(m, "drop_ctx") = {} /\ Dropping(m, "drop_adp") = {}
    BY DEF Attached, Dropping, Res
  <2>2. Cardinality({}) = 0
    BY FS_EmptySet
  <2>3. activeCtx[m] = 0 /\ activeAdp[m] = 0
    OBVIOUS
  <2> HIDE DEF Init
  <2> QED BY <2>1, <2>2, <2>3
<1>5. ModelKept /\ Interrupts
  BY DEF ModelKept, Interrupts
<1> QED BY <1>1, <1>2, <1>3, <1>4, <1>5 DEF IInv

\* A thread inside a call on a context has its mutex, and the context and its
\* model are there.
LEMMA InCallAlive ==
    ASSUME IInv, NEW t \in Threads, pc[t] \in CtxStages
    PROVE  /\ on[t] \in Contexts /\ lock[on[t]] = t /\ on[t] \in Live
           /\ parent[on[t]] \in Models /\ parent[on[t]] \in Live
           /\ wrapper[on[t]] = "made" /\ wrapper[parent[on[t]]] = "made"
<1> DEFINE c == on[t]
<1>1. c \in Contexts /\ c \in Res /\ lock[c] = t /\ t # None
  BY ResourceAssumption DEF IInv, CallShape, HolderShape, CtxStages, Res
<1>2. ptr[c] /\ wrapper[c] = "made"
  BY <1>1 DEF IInv, LockedAlive, TypeOK, WrapperShape
<1>3. parent[c] \in Models /\ parent[c] # None
  BY <1>1, <1>2, ResourceAssumption DEF IInv, TypeOK, WrapperShape, Res
<1>4. wrapper[parent[c]] = "made" /\ c \in Attached(parent[c], Contexts)
  BY <1>1, <1>2, <1>3 DEF IInv, Referenced, Attached
<1>5. Cardinality(Attached(parent[c], Contexts)) # 0
  BY <1>3, <1>4, UsersFinite, FS_EmptySet
<1>6. activeCtx[parent[c]] > 0
  BY <1>3, <1>5, UsersFinite DEF IInv, UsersCounted
<1>7. ptr[parent[c]]
  BY <1>3, <1>6 DEF IInv, TypeOK, ModelKept
<1> QED BY <1>1, <1>2, <1>3, <1>4, <1>7 DEF Live, Res

LEMMA UsingLive ==
    ASSUME IInv, NEW t \in Threads
    PROVE  Using[t] \subseteq Live
<1>1. t # None
  BY ResourceAssumption
<1>2. with[t] \subseteq Res
  BY DEF IInv, TypeOK, Res
<1>3. {r \in with[t] : lock[r] = t} \subseteq Live
  BY <1>1, <1>2 DEF IInv, LockedAlive, Live
<1>4. pc[t] \in CtxStages => {on[t], parent[on[t]]} \subseteq Live
  BY InCallAlive
<1> QED BY <1>3, <1>4 DEF Using

\* The inductive invariant holds in every reachable state.
THEOREM ResourceInv == Spec => []IInv
<1>1. ASSUME IInv, [Next]_vars PROVE IInv'
  <2>1. TypeOK' /\ CallShape' /\ LockShape' /\ HolderShape' /\ LockOrder'
    BY <1>1, TypeOKNext, CallShapeNext, LockShapeNext, HolderShapeNext, LockOrderNext
  <2>2. WrapperShape' /\ Referenced' /\ LockedAlive'
    BY <1>1, WrapperShapeNext, ReferencedNext, LockedAliveNext
  <2>3. UsersCounted' /\ ModelKept' /\ Interrupts'
    BY <1>1, UsersCountedNext, ModelKeptNext, InterruptsNext
  <2> QED BY <2>1, <2>2, <2>3 DEF IInv
<1> QED BY <1>1, InitInv, PTL DEF Spec

\* Every variable keeps its type.
THEOREM TypeCorrect == Spec => []TypeOK
<1>1. IInv => TypeOK
  BY DEF IInv
<1> QED BY <1>1, ResourceInv, PTL

\* No call of llama.cpp on a context, a model, a sampler or an adapter that
\* was freed.
THEOREM NothingUsedAfterFree == Spec => []UsedWhileAlive
<1>1. IInv => UsedWhileAlive
  <2> SUFFICES ASSUME IInv, NEW t \in Threads
      PROVE  /\ pc[t] \in CtxStages =>
                  /\ lock[on[t]] = t
                  /\ frees[on[t]] = 0 /\ frees[parent[on[t]]] = 0
             /\ pc[t] = "sampling" =>
                  \E s \in with[t] : lock[s] = t /\ frees[s] = 0
             /\ pc[t] = "install" =>
                  \A a \in with[t] : lock[a] = t /\ frees[a] = 0
    BY DEF UsedWhileAlive
  <2>1. t # None
    BY ResourceAssumption
  <2>2. ASSUME NEW r \in Res, lock[r] = t PROVE ptr[r] /\ frees[r] = 0 /\ wrapper[r] = "made"
    BY <2>1, <2>2 DEF IInv, TypeOK, LockedAlive, WrapperShape
  <2>3. ASSUME pc[t] \in CtxStages
        PROVE  lock[on[t]] = t /\ frees[on[t]] = 0 /\ frees[parent[on[t]]] = 0
    BY <2>3, InCallAlive DEF Live, IInv, WrapperShape, Res
  <2>4. ASSUME pc[t] = "sampling"
        PROVE  \E s \in with[t] : lock[s] = t /\ frees[s] = 0
    <3>1. PICK s \in with[t] : lock[s] = t
      BY <2>4 DEF IInv, HolderShape
    <3>2. s \in Res
      BY <2>4, <3>1 DEF IInv, CallShape, Res
    <3> QED BY <2>2, <3>1, <3>2
  <2>5. ASSUME pc[t] = "install", NEW a \in with[t]
        PROVE  lock[a] = t /\ frees[a] = 0
    <3>1. lock[a] = t /\ a \in Res
      BY <2>5 DEF IInv, HolderShape, CallShape, Res
    <3> QED BY <2>2, <3>1
  <2> QED BY <2>3, <2>4, <2>5
<1> QED BY <1>1, ResourceInv, PTL

\* No native object is freed twice, and none is left when its wrapper is gone.
THEOREM EachFreedOnce == Spec => []FreedExactlyOnce
<1>1. IInv => FreedExactlyOnce
  BY DEF IInv, TypeOK, WrapperShape, FreedExactlyOnce
<1> QED BY <1>1, ResourceInv, PTL

\* A model's counters say how many contexts and adapters still need it.
THEOREM CountersExact == Spec => []UsersCounted
<1>1. IInv => UsersCounted
  BY DEF IInv
<1> QED BY <1>1, ResourceInv, PTL

\* A deferred release always has somebody left to carry it out.
THEOREM DeferredIsCarriedOut == Spec => []DeferredWaits
<1>1. IInv => DeferredWaits
  BY DEF IInv, ModelKept, DeferredWaits
<1> QED BY <1>1, ResourceInv, PTL

\* Nothing attaches to a model that free_model was called on.
THEOREM NothingAttaches == Spec => ReleaseIsFinal
<1>1. IInv /\ [Next]_vars =>
        [\A m \in Models :
            pending[m] \/ (wrapper[m] # "unused" /\ ~ptr[m]) =>
                \A r \in Contexts \cup Adapters : parent'[r] = m => parent[r] = m]_vars
  BY FinalStepHolds DEF FinalStep
<1> QED BY <1>1, ResourceInv, PTL DEF Spec, ReleaseIsFinal

\* An armed decode never falls to an abort meant for an earlier one.
THEOREM ArmedDecodesEndOwn == Spec => []ArmedEndsOwn
<1>1. IInv => ArmedEndsOwn
  BY DEF IInv, Interrupts, ArmedEndsOwn
<1> QED BY <1>1, ResourceInv, PTL

-----------------------------------------------------------------------------
\* Thread t is in a call and waits for a mutex somebody holds
Blocked(t) == pc[t] # "idle" /\ \E r \in Res : Wants(t, r) /\ lock[r] # None

\* Among finitely addressed adapters one has the largest address
LEMMA LargestAddress ==
    ASSUME NEW W, W \subseteq Adapters, W # {}
    PROVE  \E a \in W : \A b \in W : Addr[b] <= Addr[a]
<1> DEFINE Below == {MaxAddr - Addr[a] : a \in W}
<1>1. \A a \in W : Addr[a] \in 0..MaxAddr /\ MaxAddr \in Nat
  BY ResourceAssumption
<1>2. Below \subseteq Nat /\ Below # {}
  BY <1>1
<1>3. PICK x \in Below : \A y \in Below : ~ (<<y, x>> \in OpToRel(<, Nat))
  BY <1>2, NatLessThanWellFounded, WFMin
<1>4. \A y \in Below : ~ (y < x)
  BY <1>2, <1>3 DEF OpToRel
<1>5. PICK a \in W : x = MaxAddr - Addr[a]
  BY <1>3
<1>6. \A b \in W : ~ (MaxAddr - Addr[b] < MaxAddr - Addr[a])
  BY <1>4, <1>5
<1>7. \A b \in W : Addr[b] <= Addr[a]
  BY <1>1, <1>6
<1> QED BY <1>7

\* A thread that holds a context's mutex waits for a sampler at most, and the
\* holder of a sampler's mutex waits for nothing.
LEMMA ContextHolderAdvances ==
    ASSUME IInv, NEW u \in Threads, pc[u] \in CtxStages
    PROVE  \E t \in Threads : pc[t] # "idle" /\ ~ Blocked(t)
<1>1. CASE pc[u] # "sample"
  BY <1>1 DEF CtxStages, Blocked, Wants
<1>2. CASE pc[u] = "sample" /\ ~ Blocked(u)
  BY <1>2
<1>3. CASE pc[u] = "sample" /\ Blocked(u)
  <2>1. PICK s \in Samplers : lock[s] # None
    BY <1>3 DEF Blocked, Wants, IInv, CallShape
  <2>2. s \in Res /\ lock[s] \in Threads
    BY <2>1 DEF IInv, TypeOK, Res
  <2>3. pc[lock[s]] = "sampling"
    BY <2>1, <2>2 DEF IInv, LockShape
  <2> QED BY <2>2, <2>3 DEF Blocked, Wants
<1> QED BY <1>1, <1>2, <1>3

\* Whatever calls are in progress, one of them does not wait: the order of the
\* addresses keeps the threads that install adapters from waiting in a circle.
THEOREM NoDeadlock == Spec => []SomeCallAdvances
<1>1. ASSUME IInv, NEW t0 \in Threads, pc[t0] # "idle"
      PROVE  \E t \in Threads : pc[t] # "idle" /\ ~ Blocked(t)
  <2> SUFFICES ASSUME \A t \in Threads : pc[t] # "idle" => Blocked(t) PROVE FALSE
    OBVIOUS
  <2>1. \A t \in Threads : pc[t] \notin CtxStages
    BY <1>1, ContextHolderAdvances
  <2>2. ASSUME NEW c \in Contexts PROVE lock[c] = None
    <3>1. c \in Res /\ lock[c] \in Threads \cup {None}
      BY <1>1 DEF IInv, TypeOK, Res
    <3>2. \A t \in Threads : lock[c] = t => pc[t] \in CtxStages
      BY <1>1, <3>1 DEF IInv, LockShape
    <3> QED BY <2>1, <3>1, <3>2
  <2>3. ASSUME NEW m \in Models PROVE lock[m] = None
    BY <1>1 DEF IInv, TypeOK, LockShape, Res
  <2>4. ASSUME NEW t \in Threads, pc[t] # "idle"
        PROVE  /\ pc[t] = "adapters"
               /\ \E a \in with[t] : NextAdapter(t, a) /\ lock[a] # None
    <3>1. PICK r \in Res : Wants(t, r) /\ lock[r] # None
      BY <2>4 DEF Blocked
    <3>2. ~ (pc[t] \in DropStages /\ r = on[t])
      BY <1>1, <2>3, <3>1 DEF IInv, CallShape
    <3>3. ~ (pc[t] = "sample")
      BY <2>1 DEF CtxStages
    <3>4. ~ (pc[t] = "adapters" /\ r = on[t])
      BY <1>1, <2>2, <3>1 DEF IInv, CallShape
    <3>5. pc[t] = "adapters" /\ NextAdapter(t, r)
      BY <3>1, <3>2, <3>3, <3>4 DEF Wants, DropStages
    <3> QED BY <3>1, <3>5 DEF NextAdapter, Missing
  <2> DEFINE W == {a \in Adapters :
                      \E t \in Threads : /\ pc[t] = "adapters" /\ a \in with[t]
                                         /\ NextAdapter(t, a) /\ lock[a] # None}
  <2>5. W # {}
    <3>1. PICK a \in with[t0] : NextAdapter(t0, a) /\ lock[a] # None
      BY <1>1, <2>4
    <3>2. pc[t0] = "adapters" /\ a \in Adapters
      BY <1>1, <2>4 DEF IInv, CallShape
    <3> QED BY <3>1, <3>2
  <2>6. PICK a \in W : \A b \in W : Addr[b] <= Addr[a]
    <3>1. W \subseteq Adapters
      OBVIOUS
    <3> HIDE DEF W
    <3> QED BY <2>5, <3>1, LargestAddress
  <2>7. a \in Adapters /\ a \in Res /\ lock[a] \in Threads
    BY <1>1 DEF IInv, TypeOK, Res
  <2> DEFINE u == lock[a]
  <2>8. pc[u] \in {"adapters", "install"} /\ a \in with[u]
    BY <1>1, <2>7 DEF IInv, LockShape
  <2>9. PICK b \in with[u] : NextAdapter(u, b) /\ lock[b] # None
    BY <2>4, <2>7, <2>8
  <2>10. pc[u] = "adapters" /\ b \in Adapters
    BY <1>1, <2>4, <2>7, <2>8 DEF IInv, CallShape
  <2>11. b \in W
    BY <2>7, <2>9, <2>10
  <2>12. Addr[a] < Addr[b]
    BY <1>1, <2>7, <2>8, <2>9, <2>10 DEF IInv, LockOrder, NextAdapter, Missing
  <2>13. Addr[a] \in Nat /\ Addr[b] \in Nat
    BY <2>7, <2>10, ResourceAssumption
  <2> QED BY <2>6, <2>11, <2>12, <2>13
<1>2. IInv => SomeCallAdvances
  BY <1>1 DEF SomeCallAdvances, Blocked
<1> QED BY <1>2, ResourceInv, PTL

-----------------------------------------------------------------------------
(***************************************************************************)
(* The lifetimes of the native objects.  A step of a thread leaves the     *)
(* other threads in the calls they are in.                                 *)
(***************************************************************************)
Others(t) ==
    \A u \in Threads \ {t} :
        /\ pc'[u] = pc[u] /\ on'[u] = on[u] /\ with'[u] = with[u]
        /\ \A r \in Res : lock'[r] = u <=> lock[r] = u

LEMMA OthersStay ==
    ASSUME IInv, NEW t \in Threads, Others(t),
           \A c \in Contexts : lock[c] # None => parent'[c] = parent[c],
           NEW u \in Threads \ {t}
    PROVE  Using'[u] = Using[u]
<1>1. with[u] \subseteq Res /\ u # None
  BY ResourceAssumption DEF IInv, TypeOK, Res
<1>2. {r \in with'[u] : lock'[r] = u} = {r \in with[u] : lock[r] = u}
  BY <1>1 DEF Others
<1>3. pc[u] \in CtxStages => parent'[on[u]] = parent[on[u]]
  BY <1>1, InCallAlive
<1>4. (IF pc'[u] \in CtxStages THEN {on'[u], parent'[on'[u]]} ELSE {})
        = (IF pc[u] \in CtxStages THEN {on[u], parent[on[u]]} ELSE {})
  BY <1>3 DEF Others
<1> QED BY <1>2, <1>4 DEF Using

LEMMA UsingLiveNext ==
    ASSUME NEW t \in Threads
    PROVE  IInv' => Using'[t] \subseteq Live'
<1>1. IInv => Using[t] \subseteq Live
  BY UsingLive
<1>2. (IInv => Using[t] \subseteq Live)'
  BY <1>1, PTL
<1> QED BY <1>2

\* A step that makes and destroys nothing: its thread enters or leaves calls.
LEMMA Touched ==
    ASSUME IInv, IInv', NEW t \in Threads, Others(t), Live' = Live, Gone' = Gone,
           \A r \in Users : r \in Live => parent'[r] = parent[r]
    PROVE  Life!Touch(t)
<1>1. \A c \in Contexts : lock[c] # None => parent'[c] = parent[c]
  BY DEF IInv, LockedAlive, Live, Users, Res
<1>2. \A u \in Threads \ {t} : Using'[u] = Using[u]
  BY <1>1, OthersStay
<1>3. Using'[t] \in SUBSET Live
  BY UsingLiveNext
<1>4. Using' = [Using EXCEPT ![t] = Using'[t]]
  <2>1. Using = [u \in Threads |-> Using[u]] /\ Using' = [u \in Threads |-> Using'[u]]
    BY DEF Using
  <2> QED BY <1>2, <2>1
<1>5. Within' = Within
  <2>1. \A r \in Users : ptr'[r] = ptr[r] /\ (ptr[r] => parent'[r] = parent[r])
    BY DEF Live, Users, Res, IInv, TypeOK
  <2> QED BY <2>1 DEF Within, Users
<1> QED BY <1>3, <1>4, <1>5 DEF Life!Touch

\* A new wrapper comes with a new object.
LEMMA Made ==
    ASSUME IInv, NEW r \in Res, NEW p \in Res \cup {None}, Wrap(r, p), wrapper[r] = "unused",
           r \in Users => p \in Models /\ ptr[p],
           UNCHANGED <<frees, lock, threads>>
    PROVE  Life!Make(r)
<1>1. ~ptr[r] /\ frees[r] = 0
  BY DEF IInv, WrapperShape
<1>2. Live' = Live \cup {r} /\ Gone' = Gone /\ r \notin Live \cup Gone
  BY <1>1 DEF Wrap, IInv, TypeOK, Live, Gone
<1>3. \A c \in Contexts : lock[c] # None => parent'[c] = parent[c]
  BY <1>1 DEF Wrap, IInv, TypeOK, LockedAlive, Res
<1>4. Using' = Using
  <2>1. \A t \in Threads : pc[t] \in CtxStages => parent'[on[t]] = parent[on[t]]
    BY <1>3, InCallAlive, ResourceAssumption
  <2> QED BY <2>1 DEF Using, threads
<1>5. Within' = IF r \in Users THEN Within \cup {<<r, p>>} ELSE Within
  <2>1. \A x \in Users : x # r => ptr'[x] = ptr[x] /\ parent'[x] = parent[x]
    BY DEF Wrap, IInv, TypeOK, Users, Res
  <2>2. ptr'[r] /\ parent'[r] = p
    BY DEF Wrap, IInv, TypeOK
  <2> QED BY <1>1, <2>1, <2>2 DEF Within, Users
<1>6. r \in Users => p \in Live
  BY DEF Live, Res
<1> QED BY <1>2, <1>4, <1>5, <1>6 DEF Life!Make, threads

\* Objects that are destroyed together: nobody has their mutexes, and what
\* was made in one of them goes too.
LEMMA Destroyed ==
    ASSUME IInv, NEW t \in Threads, Others(t), Using[t] = {}, Using'[t] = {},
           NEW R \in SUBSET Live, R # {}, Live' = Live \ R, Gone' = Gone \cup R,
           \A r \in R : lock[r] = None,
           \A r \in Users \ R : r \in Live => parent'[r] = parent[r],
           \A r \in Users : r \in Live /\ parent[r] \in R => r \in R
    PROVE  Life!DestroyAll(R)
<1>1. \A r \in R : r \in Res /\ ptr[r]
  BY DEF Live
<1>2. R \cap Gone = {}
  BY <1>1 DEF IInv, WrapperShape, Gone
<1>3. \A c \in Contexts : lock[c] # None => c \notin R /\ c \in Live
  BY DEF IInv, LockedAlive, Live, Res
<1>4. \A u \in Threads : Using[u] \cap R = {}
  <2> SUFFICES ASSUME NEW u \in Threads, NEW r \in R, r \in Using[u] PROVE FALSE
    OBVIOUS
  <2>1. u # None
    BY ResourceAssumption
  <2>2. ~(r \in with[u] /\ lock[r] = u)
    BY <2>1
  <2>3. pc[u] \in CtxStages /\ r \in {on[u], parent[on[u]]}
    BY <2>2 DEF Using
  <2>4. on[u] \in Contexts /\ lock[on[u]] = u
    BY <2>3, InCallAlive
  <2>5. on[u] \notin R /\ on[u] \in Live
    BY <1>3, <2>1, <2>4
  <2> QED BY <2>3, <2>4, <2>5 DEF Users
<1>5. Using' = Using
  <2>1. \A c \in Contexts : lock[c] # None => parent'[c] = parent[c]
    BY <1>3 DEF Users
  <2>2. \A u \in Threads \ {t} : Using'[u] = Using[u]
    BY <2>1, OthersStay
  <2>3. Using'[t] = Using[t]
    OBVIOUS
  <2> QED BY <2>2, <2>3 DEF Using
<1>6. \A r \in Users : r \in Res /\ (ptr[r] <=> r \in Live) /\ (ptr'[r] <=> r \in Live')
  BY DEF Users, Res, Live
<1>7. Within' = {p \in Within : p[1] \notin R}
  BY <1>6 DEF Within, Users
<1>8. \A p \in Within : p[2] \in R => p[1] \in R
  BY <1>6 DEF Within, Users
<1> QED BY <1>2, <1>4, <1>5, <1>7, <1>8 DEF Life!DestroyAll

\* The calls on contexts: only the thread that runs them changes its place.
LEMMA CallsTouch ==
    ASSUME IInv, IInv', NEW t \in Threads, Decodes(t) \/ Installs(t)
    PROVE  Life!Touch(t)
<1>1. UNCHANGED objects
  BY DEF Decodes, Installs, StepBegin, DecodeOne, Embed, Prefill, ForwardWithArgmax,
         DecodeUnarmed, SampleRow, StepReleased, SampledRow, StepRefused, StepDecode,
         DecodeReturns, DecodeInterrupted, InterruptReported, SetAdapters, SetAdaptersLock,
         SetAdaptersReleased, SetAdaptersContext, SetAdaptersDone
<1> DEFINE Elsewhere(f, g) == \A u \in Threads \ {t} : g[u] = f[u]
           Mine(l, k) == \A r \in Res : k[r] = l[r] \/ (l[r] \in {None, t} /\ k[r] \in {None, t})
<1>2. Elsewhere(pc, pc') /\ Elsewhere(on, on') /\ Elsewhere(with, with')
  BY DEF Decodes, Installs, StepBegin, DecodeOne, Embed, Prefill, ForwardWithArgmax,
         DecodeUnarmed, SampleRow, StepReleased, SampledRow, StepRefused, StepDecode,
         DecodeReturns, DecodeInterrupted, InterruptReported, SetAdapters, SetAdaptersLock,
         SetAdaptersReleased, SetAdaptersContext, SetAdaptersDone, Return, Goto, threads,
         IInv, TypeOK
<1>3. Mine(lock, lock')
  BY DEF Decodes, Installs, StepBegin, DecodeOne, Embed, Prefill, ForwardWithArgmax,
         DecodeUnarmed, SampleRow, StepReleased, SampledRow, StepRefused, StepDecode,
         DecodeReturns, DecodeInterrupted, InterruptReported, SetAdapters, SetAdaptersLock,
         SetAdaptersReleased, SetAdaptersContext, SetAdaptersDone, Return, Goto, threads,
         IInv, TypeOK
<1>4. Others(t)
  BY <1>2, <1>3, ResourceAssumption DEF Others
<1> QED BY <1>1, <1>4, Touched DEF objects, Live, Gone

\* A thread that runs no call on a context, now and after the step
LEMMA NotInside ==
    ASSUME IInv, NEW t \in Threads, pc[t] \in {"idle"} \cup DropStages
    PROVE  Using[t] = {}
<1>1. with[t] = {} /\ pc[t] \notin CtxStages
  BY DEF IInv, CallShape, DropStages, CtxStages
<1> QED BY <1>1 DEF Using

LEMMA NotInsideNext ==
    ASSUME NEW t \in Threads
    PROVE  IInv' /\ pc'[t] \in {"idle"} \cup DropStages => Using'[t] = {}
<1>1. IInv /\ pc[t] \in {"idle"} \cup DropStages => Using[t] = {}
  BY NotInside
<1>2. (IInv /\ pc[t] \in {"idle"} \cup DropStages => Using[t] = {})'
  BY <1>1, PTL
<1> QED BY <1>2

\* One object is destroyed that nothing was made in.
LEMMA OneDestroyed ==
    ASSUME IInv, IInv', NEW t \in Threads, Others(t),
           pc[t] \in {"idle"} \cup DropStages, pc'[t] \in {"idle"} \cup DropStages,
           NEW r \in Res, ptr[r], lock[r] = None,
           ptr' = [ptr EXCEPT ![r] = FALSE], frees' = [frees EXCEPT ![r] = Freed(@)],
           \A x \in Users : x # r /\ ptr[x] => parent'[x] = parent[x] /\ parent[x] # r
    PROVE  Life!DestroyAll({r})
<1>1. Using[t] = {} /\ Using'[t] = {}
  BY NotInside, NotInsideNext
<1>2. {r} \in SUBSET Live /\ Live' = Live \ {r}
  BY DEF Live, IInv, TypeOK
<1>3. Gone' = Gone \cup {r}
  BY DEF Gone, Freed, IInv, TypeOK
<1>4. \A x \in Users : x \in Live => ptr[x]
  BY DEF Live
<1>5. \A x \in Users : x \in Live /\ parent[x] \in {r} => x \in {r}
  BY <1>4
<1>6. \A x \in Users \ {r} : x \in Live => parent'[x] = parent[x]
  BY <1>4
<1> QED BY <1>1, <1>2, <1>3, <1>5, <1>6, Destroyed

\* A wrapper that can be collected is locked by nobody.
LEMMA Unlocked ==
    ASSUME IInv, NEW r \in Res, Collectable(r)
    PROVE  lock[r] = None
<1>1. lock[r] \in Threads \cup {None}
  BY DEF IInv, TypeOK
<1>2. \A t \in Threads : on[t] # r /\ r \notin with[t]
  BY DEF Collectable, InUse
<1>3. \A t \in Threads : lock[r] # t
  BY <1>2 DEF IInv, LockShape, Res
<1> QED BY <1>1, <1>3

\* A destructor destroys the object that its wrapper still has.
LEMMA Collected ==
    ASSUME IInv, IInv', NEW t \in Threads, Others(t), pc[t] = "idle",
           pc'[t] \in {"idle"} \cup DropStages, NEW r \in Res, Destroy(r),
           frees' = [frees EXCEPT ![r] = IF ptr[r] THEN Freed(@) ELSE @]
    PROVE  Life!LifeNext
<1>1. \A x \in Users : x # r => parent'[x] = parent[x]
  BY DEF Destroy, IInv, TypeOK, Users, Res
<1>2. CASE ptr[r]
  <2>1. lock[r] = None
    BY Unlocked DEF Destroy
  <2>2. \A x \in Users : ptr[x] => parent[x] # r
    BY DEF Destroy, Collectable, IInv, WrapperShape, Users, Res
  <2>3. ptr' = [ptr EXCEPT ![r] = FALSE] /\ frees' = [frees EXCEPT ![r] = Freed(@)]
    BY <1>2 DEF Destroy
  <2>4. Life!DestroyAll({r})
    BY <1>1, <1>2, <2>1, <2>2, <2>3, OneDestroyed
  <2> QED BY <1>2, <2>4 DEF Life!LifeNext, Live
<1>3. CASE ~ptr[r]
  <2>1. Live' = Live /\ Gone' = Gone
    BY <1>3 DEF Destroy, Live, Gone, IInv, TypeOK
  <2>2. \A x \in Users : x \in Live => parent'[x] = parent[x]
    BY <1>1, <1>3 DEF Live
  <2>3. Life!Touch(t)
    BY <2>1, <2>2, Touched
  <2> QED BY <2>3 DEF Life!LifeNext
<1> QED BY <1>2, <1>3

\* A model that no context and no adapter counts on has none.
LEMMA NothingIn ==
    ASSUME IInv, NEW m \in Models, Attached(m, Contexts) = {}, Attached(m, Adapters) = {}
    PROVE  Leftover(m) = {} /\ \A x \in Users : ptr[x] => parent[x] # m
<1>1. \A x \in Users : x \in Res /\ (wrapper[x] = "made" => parent[x] # m)
  BY DEF Attached, Users, Res
<1>2. \A x \in Users : parent[x] = m => wrapper[x] = "made"
  BY ResourceAssumption, <1>1 DEF IInv, WrapperShape, TypeOK, Res
<1> QED BY <1>1, <1>2 DEF Leftover, Users

\* The free of a model that nothing was made in
LEMMA ModelDestroyed ==
    ASSUME IInv, IInv', NEW t \in Threads, Others(t),
           pc[t] \in {"idle"} \cup DropStages, pc'[t] \in {"idle"} \cup DropStages,
           NEW m \in Models, ptr[m], lock[m] = None, FreeModelObject(m), UNCHANGED parent,
           Attached(m, Contexts) = {}, Attached(m, Adapters) = {}
    PROVE  Life!LifeNext
<1>1. Leftover(m) = {} /\ \A x \in Users : ptr[x] => parent[x] # m
  BY NothingIn
<1>2. m \in Res
  BY DEF Res
<1>3. ptr' = [ptr EXCEPT ![m] = FALSE] /\ frees' = [frees EXCEPT ![m] = Freed(@)]
  BY <1>1, <1>2 DEF FreeModelObject, IInv, TypeOK
<1>4. Life!DestroyAll({m})
  BY <1>1, <1>2, <1>3, OneDestroyed
<1> QED BY <1>2, <1>4 DEF Life!LifeNext, Live

\* The counters at zero: the model has no context and no adapter, also when
\* a reference that is still counted is the one just given back.
LEMMA NobodyLeft ==
    ASSUME IInv, NEW m \in Models, NEW t \in Threads,
           \/ activeCtx[m] = 0 /\ activeAdp[m] = 0
           \/ pc[t] = "drop_ctx" /\ on[t] = m /\ activeCtx[m] <= 1 /\ activeAdp[m] = 0
           \/ pc[t] = "drop_adp" /\ on[t] = m /\ activeCtx[m] = 0 /\ activeAdp[m] <= 1
    PROVE  Attached(m, Contexts) = {} /\ Attached(m, Adapters) = {}
<1> DEFINE ac == Cardinality(Attached(m, Contexts))
           aa == Cardinality(Attached(m, Adapters))
           dc == Cardinality(Dropping(m, "drop_ctx"))
           da == Cardinality(Dropping(m, "drop_adp"))
<1>1. ac \in Nat /\ aa \in Nat /\ dc \in Nat /\ da \in Nat
  BY UsersFinite
<1>2. activeCtx[m] = ac + dc /\ activeAdp[m] = aa + da
  BY DEF IInv, UsersCounted
<1>3. ASSUME pc[t] = "drop_ctx", on[t] = m PROVE dc # 0
  <2>1. t \in Dropping(m, "drop_ctx")
    BY <1>3 DEF Dropping
  <2> QED BY <2>1, UsersFinite, FS_EmptySet
<1>4. ASSUME pc[t] = "drop_adp", on[t] = m PROVE da # 0
  <2>1. t \in Dropping(m, "drop_adp")
    BY <1>4 DEF Dropping
  <2> QED BY <2>1, UsersFinite, FS_EmptySet
<1>5. ac = 0 /\ aa = 0
  <2> HIDE DEF ac, aa, dc, da
  <2>1. CASE activeCtx[m] = 0 /\ activeAdp[m] = 0
    BY <2>1, <1>1, <1>2
  <2>2. CASE pc[t] = "drop_ctx" /\ on[t] = m /\ activeCtx[m] <= 1 /\ activeAdp[m] = 0
    BY <2>2, <1>1, <1>2, <1>3
  <2>3. CASE pc[t] = "drop_adp" /\ on[t] = m /\ activeCtx[m] = 0 /\ activeAdp[m] <= 1
    BY <2>3, <1>1, <1>2, <1>4
  <2> QED BY <2>1, <2>2, <2>3
<1> QED BY <1>5, UsersFinite, FS_EmptySet

\* A step of a thread changes the place of no other thread.
LEMMA LifetimesElsewhere ==
    ASSUME IInv, NEW t \in Threads, Lifetimes(t)
    PROVE  Others(t)
<1>1. \A u \in Threads \ {t} : pc'[u] = pc[u] /\ on'[u] = on[u] /\ with'[u] = with[u]
  BY DEF Lifetimes, LoadModel, FreeModelDeferred, FreeModelNow, ModelDtor, NewContext,
         AdapterLoad, FreeContext, CtxDtor, SamplerNew, AdapterFree, AdapterDtor,
         SamplerFree, SamplerDtor, FreeLeaf, UserDtor, DropModel, Return, Goto, threads,
         IInv, TypeOK
<1>2. \A r \in Res : lock'[r] = lock[r] \/ (lock[r] = t /\ lock'[r] = None)
  BY DEF Lifetimes, LoadModel, FreeModelDeferred, FreeModelNow, ModelDtor, NewContext,
         AdapterLoad, FreeContext, CtxDtor, SamplerNew, AdapterFree, AdapterDtor,
         SamplerFree, SamplerDtor, FreeLeaf, UserDtor, DropModel, Return, threads,
         IInv, TypeOK
<1> QED BY <1>1, <1>2, ResourceAssumption DEF Others

\* Every step of the resources is one of the lifetimes, or changes none.
LEMMA LifeStep ==
    ASSUME IInv, IInv', [Next]_vars
    PROVE  [Life!LifeNext]_(Life!lifeVars)
<1>1. CASE UNCHANGED vars
  BY <1>1 DEF vars, objects, threads, Life!lifeVars, Live, Gone, Within, Using
<1>2. ASSUME NEW t \in Threads, Lifetimes(t) PROVE Life!LifeNext
  <2>1. Others(t)
    BY <1>2, LifetimesElsewhere
  <2>2. ASSUME NEW m \in Models, LoadModel(t, m) PROVE Life!LifeNext
    <3>1. m \in Res /\ m \notin Users
      BY ResourceAssumption DEF Res, Users
    <3>2. Life!Make(m)
      BY <2>2, <3>1, Made DEF LoadModel
    <3> QED BY <3>1, <3>2 DEF Life!LifeNext
  <2>3. ASSUME NEW m \in Models, FreeModelDeferred(t, m) PROVE Life!LifeNext
    <3>1. Live' = Live /\ Gone' = Gone /\ UNCHANGED parent
      BY <2>3 DEF FreeModelDeferred, Live, Gone
    <3>2. Life!Touch(t)
      BY <2>1, <3>1, Touched
    <3> QED BY <3>2 DEF Life!LifeNext
  <2>4. ASSUME NEW m \in Models, FreeModelNow(t, m) PROVE Life!LifeNext
    <3>1. Attached(m, Contexts) = {} /\ Attached(m, Adapters) = {}
      BY <2>4, NobodyLeft DEF FreeModelNow
    <3>2. pc[t] = "idle" /\ pc'[t] = "idle"
      BY <2>4 DEF FreeModelNow, Callable, threads
    <3> QED BY <2>1, <2>4, <3>1, <3>2, ModelDestroyed DEF FreeModelNow
  <2>5. ASSUME NEW m \in Models, ModelDtor(t, m) PROVE Life!LifeNext
    <3>1. m \in Res /\ Collectable(m) /\ pc[t] = "idle" /\ pc'[t] = "idle" /\ Destroy(m)
      BY <2>5 DEF ModelDtor, Destroy, threads, Res
    <3>2. Leftover(m) = {}
      BY <3>1, Unused, NoAdapters
    <3>3. frees' = [frees EXCEPT ![m] = IF ptr[m] THEN Freed(@) ELSE @]
      BY <2>5, <3>1, <3>2 DEF ModelDtor, IInv, TypeOK
    <3> QED BY <2>1, <3>1, <3>3, Collected
  <2>6. ASSUME NEW m \in Models, NEW c \in Contexts, NewContext(t, m, c) PROVE Life!LifeNext
    <3>1. c \in Res /\ m \in Res
      BY DEF Res
    <3>2. Life!Make(c)
      BY <2>6, <3>1, Made DEF NewContext
    <3> QED BY <3>1, <3>2 DEF Life!LifeNext
  <2>7. ASSUME NEW m \in Models, NEW a \in Adapters, AdapterLoad(t, m, a) PROVE Life!LifeNext
    <3>1. a \in Res /\ m \in Res
      BY DEF Res
    <3>2. Life!Make(a)
      BY <2>7, <3>1, Made DEF AdapterLoad
    <3> QED BY <3>1, <3>2 DEF Life!LifeNext
  <2>8. ASSUME NEW c \in Contexts, NEW s \in Samplers, SamplerNew(t, c, s) PROVE Life!LifeNext
    <3>1. s \in Res /\ c \in Res /\ s \notin Users
      BY ResourceAssumption DEF Res, Users
    <3>2. Life!Make(s)
      BY <2>8, <3>1, Made DEF SamplerNew
    <3> QED BY <3>1, <3>2 DEF Life!LifeNext
  <2>9. ASSUME NEW c \in Contexts, FreeContext(t, c) PROVE Life!LifeNext
    <3>1. c \in Res /\ c \notin Models
      BY ResourceAssumption DEF Res
    <3>2. /\ pc[t] = "idle" /\ pc'[t] = "drop_ctx" /\ ptr[c] /\ lock[c] = None
          /\ ptr' = [ptr EXCEPT ![c] = FALSE] /\ frees' = [frees EXCEPT ![c] = Freed(@)]
      BY <2>9 DEF FreeContext, Callable, Goto, IInv, TypeOK
    <3>3. \A x \in Users : x # c => parent'[x] = parent[x]
      BY <2>9 DEF FreeContext, IInv, TypeOK, Users, Res
    <3>4. \A x \in Users : parent[x] \in Models \cup {None}
      BY DEF IInv, WrapperShape, Users, Res
    <3>5. c # None
      BY <3>1, ResourceAssumption
    <3>6. Life!DestroyAll({c})
      BY <2>1, <3>1, <3>2, <3>3, <3>4, <3>5, OneDestroyed DEF DropStages
    <3> QED BY <3>1, <3>2, <3>6 DEF Life!LifeNext, Live
  <2>10. ASSUME NEW r \in Leaves, NEW stage \in DropStages, UserDtor(t, r, stage)
         PROVE  Life!LifeNext
    <3>1. r \in Res /\ pc[t] = "idle" /\ pc'[t] \in {"idle", stage} /\ Destroy(r)
      BY <2>10 DEF UserDtor, Goto, IInv, TypeOK, Leaves, Res
    <3>2. frees' = [frees EXCEPT ![r] = IF ptr[r] THEN Freed(@) ELSE @]
      BY <2>10 DEF UserDtor
    <3> QED BY <2>1, <3>1, <3>2, Collected
  <2>11. ASSUME NEW s \in Samplers, SamplerDtor(t, s) PROVE Life!LifeNext
    <3>1. s \in Res /\ pc[t] = "idle" /\ pc'[t] = "idle" /\ Destroy(s)
      BY <2>11 DEF SamplerDtor, threads, Res
    <3>2. frees' = [frees EXCEPT ![s] = IF ptr[s] THEN Freed(@) ELSE @]
      BY <2>11 DEF SamplerDtor
    <3> QED BY <2>1, <3>1, <3>2, Collected
  <2>12. ASSUME NEW r \in Adapters \cup Samplers, FreeLeaf(t, r) PROVE Life!LifeNext
    <3>1. r \in Res /\ r \notin Models /\ r # None
      BY ResourceAssumption DEF Res
    <3>2. /\ pc[t] = "idle" /\ pc'[t] = "idle" /\ ptr[r] /\ lock[r] = None
          /\ ptr' = [ptr EXCEPT ![r] = FALSE] /\ frees' = [frees EXCEPT ![r] = Freed(@)]
          /\ UNCHANGED parent
      BY <2>12 DEF FreeLeaf, Callable, threads
    <3>3. \A x \in Users : parent[x] \in Models \cup {None}
      BY DEF IInv, WrapperShape, Users, Res
    <3>4. Life!DestroyAll({r})
      BY <2>1, <3>1, <3>2, <3>3, OneDestroyed
    <3> QED BY <3>1, <3>2, <3>4 DEF Life!LifeNext, Live
  <2>13. ASSUME DropModel(t) PROVE Life!LifeNext
    <3> DEFINE m == on[t]
    <3>1. /\ pc[t] \in DropStages /\ m \in Models /\ lock[m] = None /\ pc'[t] = "idle"
          /\ UNCHANGED parent
      BY <2>13 DEF DropModel, Return, DropStages, IInv, CallShape, TypeOK
    <3>2. CASE UNCHANGED <<frees, ptr, pending>>
      <4>1. Live' = Live /\ Gone' = Gone
        BY <3>2 DEF Live, Gone
      <4>2. Life!Touch(t)
        BY <2>1, <3>1, <4>1, Touched
      <4> QED BY <4>2 DEF Life!LifeNext
    <3>3. CASE ~ UNCHANGED <<frees, ptr, pending>>
      <4>1. /\ ptr[m] /\ FreeModelObject(m)
            /\ (IF pc[t] = "drop_ctx" /\ activeCtx[m] > 0
                THEN activeCtx[m] - 1 ELSE activeCtx[m]) = 0
            /\ (IF pc[t] = "drop_adp" /\ activeAdp[m] > 0
                THEN activeAdp[m] - 1 ELSE activeAdp[m]) = 0
        BY <2>13, <3>3 DEF DropModel
      <4>2. activeCtx[m] \in Nat /\ activeAdp[m] \in Nat
        BY <3>1 DEF IInv, TypeOK
      <4>3. \/ activeCtx[m] = 0 /\ activeAdp[m] = 0
            \/ pc[t] = "drop_ctx" /\ activeCtx[m] <= 1 /\ activeAdp[m] = 0
            \/ pc[t] = "drop_adp" /\ activeCtx[m] = 0 /\ activeAdp[m] <= 1
        BY <3>1, <4>1, <4>2 DEF DropStages
      <4>4. Attached(m, Contexts) = {} /\ Attached(m, Adapters) = {}
        BY <3>1, <4>3, NobodyLeft
      <4> QED BY <2>1, <3>1, <4>1, <4>4, ModelDestroyed
    <3> QED BY <3>2, <3>3
  <2>14. Contexts \subseteq Leaves /\ Adapters \subseteq Leaves
    BY DEF Leaves
  <2> QED BY <1>2, <2>2, <2>3, <2>4, <2>5, <2>6, <2>7, <2>8, <2>9, <2>10, <2>11, <2>12,
             <2>13, <2>14
          DEF Lifetimes, CtxDtor, AdapterDtor, AdapterFree, SamplerFree, DropStages
<1>3. ASSUME NEW t \in Threads, Decodes(t) \/ Installs(t) PROVE Life!LifeNext
  BY <1>3, CallsTouch DEF Life!LifeNext
<1>4. ASSUME UNCHANGED <<ptr, frees, parent, pc, on, with, lock>>
      PROVE  UNCHANGED Life!lifeVars
  BY <1>4 DEF Life!lifeVars, Live, Gone, Within, Using
<1>5. ASSUME NEW r \in Res, DropTerm(r) PROVE UNCHANGED Life!lifeVars
  BY <1>4, <1>5 DEF DropTerm, threads
<1>6. ASSUME NEW c \in Contexts, RequestAbort(c) \/ DeadlinePasses(c)
      PROVE  UNCHANGED Life!lifeVars
  BY <1>4, <1>6 DEF RequestAbort, DeadlinePasses, objects, threads
<1> QED BY <1>1, <1>2, <1>3, <1>5, <1>6 DEF Next

\* The native objects have plain lifetimes, whatever the wrappers, the terms,
\* the mutexes and the deferred frees of the code do: each is made once and
\* destroyed at most once, a model never before what was made in it, and
\* nothing while a thread is inside a call on it.
THEOREM LifetimesImplemented == Spec => ImplementsLifetimes
<1>1. Init => Life!LifeInit
  BY DEF Init, Life!LifeInit, Live, Gone, Within, Using, CtxStages, Res
<1>2. IInv /\ IInv' /\ [Next]_vars => [Life!LifeNext]_(Life!lifeVars)
  BY LifeStep
<1> QED BY <1>1, <1>2, ResourceInv, PTL DEF Spec, ImplementsLifetimes, Life!LifeSpec

===========================================================================
