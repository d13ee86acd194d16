------------------------- MODULE PhotoPipeline_proofs -------------------------
(***************************************************************************)
(* For any set of photos, workers and requests, any queue capacity and any *)
(* number of faults, edits and restarts: the pool keeps its promises in    *)
(* the pipeline, a row never precedes its blobs, and the pipeline          *)
(* implements the life of a photo.                                         *)
(*                                                                         *)
(* Neither "ready rows have their variants" nor "ready is final" is        *)
(* inductive.  What makes them so is that a worker past its claim owns the *)
(* row: the row stays `processing` until that worker marks it, because no  *)
(* other worker can hold the same photo.  That last fact is the pool's,    *)
(* and comes from PoolStep through PoolSimulation.                         *)
(***************************************************************************)
EXTENDS PhotoPipeline, WorkerPool_proofs

\* A worker past its claim is in its handler, and its row is `processing`.
WorkerOwnsRow ==
    \A w \in Worker :
        step[w] # "claim" =>
            /\ job[w] # None
            /\ w \notin handled
            /\ status[job[w]] = "processing"

\* A worker that is writing variants has written those it need not write.
WrittenOrToDo ==
    \A w \in Worker :
        step[w] = "put" =>
            Variant \subseteq (variants[ShaOf[job[w]]] \cup todo[w])

\* A photo whose original is stored and whose row is still to come.
StoredFirst ==
    \A c \in Request :
        stored[c] # None =>
            /\ status[stored[c]] = "absent"
            /\ ShaOf[stored[c]] \in origs
            /\ \A d \in Request : stored[d] = stored[c] => d = c

PipelineInv ==
    /\ PoolInv
    /\ TypeOK
    /\ WorkerOwnsRow
    /\ WrittenOrToDo
    /\ StoredFirst
    /\ BlobFirst

-----------------------------------------------------------------------------
(* The pipeline drives the pool by the pool's own steps *)

\* TypeOK is what makes the photo a request or the scanner enqueues a photo.
LEMMA PoolSimulation == TypeOK /\ [Next]_vars => [PoolNext]_poolVars
<1> SUFFICES ASSUME TypeOK, [Next]_vars PROVE [PoolNext]_poolVars
  OBVIOUS
<1>1. ASSUME NEW c \in Caller, NEW p \in Photo, Call(c, p) PROVE PoolNext
  BY <1>1 DEF PoolNext
<1>2. ASSUME NEW c \in Request, StoreOriginal(c) \/ CreateFails(c)
      PROVE  UNCHANGED poolVars
  BY <1>2 DEF StoreOriginal, CreateFails
<1>3. ASSUME NEW c \in Request, CreatePhoto(c) PROVE PoolNext
  <2>1. c \in Caller /\ stored[c] \in Photo /\ Call(c, stored[c])
    BY <1>3 DEF CreatePhoto, TypeOK, Request
  <2>2. QED
    BY <1>1, <2>1
<1>4. ASSUME NEW c \in Request, NEW p \in Photo, Reprocess(c, p)
      PROVE  PoolNext
  BY <1>1, <1>4 DEF Reprocess, Request
<1>5. ASSUME NEW c \in Caller, EnqueueStep(c) PROVE PoolNext
  BY <1>5 DEF EnqueueStep, PoolNext
<1>6. ASSUME NEW p \in Photo, EditPhoto(p) \/ Age(p)
      PROVE  UNCHANGED poolVars
  BY <1>6 DEF EditPhoto, Age
<1>7. ASSUME NEW w \in Worker, WorkerStep(w) PROVE [PoolNext]_poolVars
  <2>1. CASE Receive(w)
    BY <2>1 DEF Receive, PoolNext
  <2>2. CASE Release(w)
    BY <2>2 DEF Release, PoolNext
  <2>3. ASSUME Finish(w) PROVE PoolNext
    BY <2>3 DEF Finish, PoolNext
  <2>4. CASE Claim(w)
    BY <2>3, <2>4 DEF Claim
  <2>5. CASE Develop(w) \/ PutVariant(w) \/ AttemptFaults(w)
    BY <2>5 DEF Develop, PutVariant, AttemptFaults, AttemptFails
  <2>6. CASE MarkReady(w) \/ MarkFailed(w)
    BY <2>3, <2>6 DEF MarkReady, MarkFailed
  <2>7. QED
    BY <1>7, <2>1, <2>2, <2>4, <2>5, <2>6 DEF WorkerStep
<1>8. CASE Scanning
  <2>1. CASE Rescan
    BY <2>1 DEF Rescan
  <2>2. CASE RescanNext
    <3>1. PICK p \in scan : Call(Scanner, p)
      BY <2>2 DEF RescanNext
    <3>2. Scanner \in Caller /\ p \in Photo
      BY PipelineAssumption DEF TypeOK
    <3>3. QED
      BY <1>1, <3>1, <3>2
  <2>3. QED
    BY <1>8, <2>1, <2>2 DEF Scanning
<1>9. CASE Lifetime
  BY <1>9 DEF Lifetime, Serve, OnlyPhase, ClosePool, Exit, Die, Boot, PoolNext
<1>10. CASE StopRunner \/ Crash
  BY <1>10 DEF StopRunner, OnlyPhase, Crash, Die, PoolNext
<1>11. CASE UNCHANGED vars
  BY <1>11 DEF vars, poolVars
<1>12. QED
  BY <1>2, <1>3, <1>4, <1>5, <1>6, <1>7, <1>8, <1>9, <1>10, <1>11 DEF Next

-----------------------------------------------------------------------------
(* Every action preserves the invariant, given that the pool keeps its own *)

LEMMA InitInv == Init => PipelineInv
<1> SUFFICES ASSUME Init PROVE PipelineInv
  OBVIOUS
<1>1. PoolInv
  BY PoolInitInv DEF Init
<1>2. TypeOK
  BY <1>1 DEF Init, TypeOK, PoolInv
<1>3. WorkerOwnsRow /\ WrittenOrToDo /\ StoredFirst /\ BlobFirst
  BY DEF Init, WorkerOwnsRow, WrittenOrToDo, StoredFirst, BlobFirst
<1>4. QED
  BY <1>1, <1>2, <1>3 DEF PipelineInv

\* What the three facts about rows, blobs and handlers depend on.
watched == <<status, origs, variants, stored, step, todo, job, handled>>

LEMMA QuietInv ==
    ASSUME PipelineInv, PoolInv', TypeOK', UNCHANGED watched
    PROVE  PipelineInv'
  BY DEF PipelineInv, watched, WorkerOwnsRow, WrittenOrToDo, StoredFirst,
     BlobFirst

LEMMA EditPhotoInv ==
    ASSUME PipelineInv, PoolInv', NEW p \in Photo, EditPhoto(p)
    PROVE  PipelineInv'
<1>1. TypeOK'
  BY PipelineAssumption DEF PipelineInv, TypeOK, PoolInv, EditPhoto, Edit,
     poolVars, blobVars, handlerVars, processVars
<1>2. UNCHANGED watched
  BY DEF watched, EditPhoto, poolVars, blobVars, handlerVars, processVars
<1>3. QED
  BY <1>1, <1>2, QuietInv

LEMMA AgeInv ==
    ASSUME PipelineInv, PoolInv', NEW p \in Photo, Age(p)
    PROVE  PipelineInv'
<1>1. TypeOK'
  BY PipelineAssumption DEF PipelineInv, TypeOK, PoolInv, Age, poolVars,
     blobVars, handlerVars, processVars, boundVars
<1>2. UNCHANGED watched
  BY DEF watched, Age, poolVars, blobVars, handlerVars, processVars,
     boundVars
<1>3. QED
  BY <1>1, <1>2, QuietInv

LEMMA EnqueueStepInv ==
    ASSUME PipelineInv, PoolInv', NEW c \in Caller, EnqueueStep(c)
    PROVE  PipelineInv'
<1>1. TypeOK'
  BY PipelineAssumption DEF PipelineInv, TypeOK, PoolInv, EnqueueStep,
     Reject, Reserve, Send, QueueFull, SendPanics, Rollback, Return, rowVars,
     blobVars, handlerVars, processVars, boundVars
<1>2. UNCHANGED watched
  BY DEF watched, EnqueueStep, Reject, Reserve, Send, QueueFull, SendPanics,
     Rollback, Return, rowVars, blobVars, handlerVars, processVars, boundVars
<1>3. QED
  BY <1>1, <1>2, QuietInv

LEMMA ScanningInv ==
    ASSUME PipelineInv, PoolInv', Scanning
    PROVE  PipelineInv'
<1>1. TypeOK'
  BY PipelineAssumption DEF PipelineInv, TypeOK, PoolInv, Scanning, Rescan,
     RescanNext, Call, Stuck, poolVars, rowVars, blobVars, handlerVars,
     boundVars
<1>2. UNCHANGED watched
  BY DEF watched, Scanning, Rescan, RescanNext, Call, Stuck, poolVars,
     rowVars, blobVars, handlerVars, boundVars
<1>3. QED
  BY <1>1, <1>2, QuietInv

LEMMA PhaseInv ==
    ASSUME PipelineInv, PoolInv', Serve \/ StopRunner \/ ClosePool \/ Boot
    PROVE  PipelineInv'
<1>1. TypeOK'
  BY PipelineAssumption DEF PipelineInv, TypeOK, PoolInv, Serve, StopRunner,
     OnlyPhase, ClosePool, MarkClosed, Seal, Boot, Stuck, Fault, poolVars,
     rowVars, blobVars, handlerVars, processVars, boundVars
<1>2. UNCHANGED watched
  BY DEF watched, Serve, StopRunner, OnlyPhase, ClosePool, MarkClosed, Seal,
     Boot, Stuck, Fault, poolVars, rowVars, blobVars, handlerVars, processVars,
     boundVars
<1>3. QED
  BY <1>1, <1>2, QuietInv

LEMMA StoreOriginalInv ==
    ASSUME PipelineInv, PoolInv', NEW c \in Request, StoreOriginal(c)
    PROVE  PipelineInv'
<1>1. TypeOK'
  BY PipelineAssumption DEF PipelineInv, TypeOK, PoolInv, Request,
     StoreOriginal, WithOriginal, poolVars, rowVars, handlerVars, processVars,
     boundVars
<1>2. WorkerOwnsRow'
  BY PoolAssumption DEF PipelineInv, TypeOK, PoolInv, PoolTypeOK,
     WorkerOwnsRow, StoreOriginal, WithOriginal, poolVars, rowVars,
     handlerVars, processVars, boundVars
<1>3. WrittenOrToDo'
  BY PoolAssumption, PipelineAssumption DEF PipelineInv, TypeOK, PoolInv,
     PoolTypeOK, WrittenOrToDo, WorkerOwnsRow, StoreOriginal, WithOriginal,
     poolVars, rowVars, handlerVars, processVars, boundVars
<1>4. StoredFirst'
  BY PoolAssumption, PipelineAssumption DEF PipelineInv, TypeOK, PoolInv,
     PoolTypeOK, StoredFirst, StoreOriginal, WithOriginal, poolVars, rowVars,
     handlerVars, processVars, boundVars
<1>5. BlobFirst'
  BY PoolAssumption, PipelineAssumption DEF PipelineInv, TypeOK, PoolInv,
     PoolTypeOK, BlobFirst, StoreOriginal, WithOriginal, poolVars, rowVars,
     handlerVars, processVars, boundVars
<1>6. QED
  BY <1>1, <1>2, <1>3, <1>4, <1>5 DEF PipelineInv

LEMMA CreatePhotoInv ==
    ASSUME PipelineInv, PoolInv', NEW c \in Request, CreatePhoto(c)
    PROVE  PipelineInv'
<1>1. TypeOK'
  BY PipelineAssumption DEF PipelineInv, TypeOK, PoolInv, Request,
     CreatePhoto, Call, blobVars, handlerVars, processVars, boundVars,
     Unfinished
<1>2. WorkerOwnsRow'
  BY PoolAssumption DEF PipelineInv, TypeOK, PoolInv, PoolTypeOK,
     WorkerOwnsRow, StoredFirst, CreatePhoto, Call, blobVars, handlerVars,
     processVars, boundVars
<1>3. WrittenOrToDo'
  BY PoolAssumption, PipelineAssumption DEF PipelineInv, TypeOK, PoolInv,
     PoolTypeOK, WrittenOrToDo, WorkerOwnsRow, CreatePhoto, Call, blobVars,
     handlerVars, processVars, boundVars
<1>4. StoredFirst'
  BY PoolAssumption, PipelineAssumption DEF PipelineInv, TypeOK, PoolInv,
     PoolTypeOK, StoredFirst, CreatePhoto, Call, blobVars, handlerVars,
     processVars, boundVars
<1>5. BlobFirst'
  BY PoolAssumption, PipelineAssumption DEF PipelineInv, TypeOK, PoolInv,
     PoolTypeOK, BlobFirst, StoredFirst, CreatePhoto, Call, blobVars,
     handlerVars, processVars, boundVars
<1>6. QED
  BY <1>1, <1>2, <1>3, <1>4, <1>5 DEF PipelineInv

LEMMA CreateFailsInv ==
    ASSUME PipelineInv, PoolInv', NEW c \in Request, CreateFails(c)
    PROVE  PipelineInv'
<1>1. TypeOK'
  BY PipelineAssumption DEF PipelineInv, TypeOK, PoolInv, Request,
     CreateFails, Fault, poolVars, rowVars, blobVars, handlerVars, processVars
<1>2. WorkerOwnsRow'
  BY PoolAssumption DEF PipelineInv, TypeOK, PoolInv, PoolTypeOK,
     WorkerOwnsRow, CreateFails, Fault, poolVars, rowVars, blobVars,
     handlerVars, processVars
<1>3. WrittenOrToDo'
  BY PoolAssumption, PipelineAssumption DEF PipelineInv, TypeOK, PoolInv,
     PoolTypeOK, WrittenOrToDo, WorkerOwnsRow, CreateFails, Fault, poolVars,
     rowVars, blobVars, handlerVars, processVars
<1>4. StoredFirst'
  BY PoolAssumption, PipelineAssumption DEF PipelineInv, TypeOK, PoolInv,
     PoolTypeOK, StoredFirst, CreateFails, Fault, poolVars, rowVars, blobVars,
     handlerVars, processVars
<1>5. BlobFirst'
  BY PoolAssumption, PipelineAssumption DEF PipelineInv, TypeOK, PoolInv,
     PoolTypeOK, BlobFirst, CreateFails, Fault, poolVars, rowVars, blobVars,
     handlerVars, processVars
<1>6. QED
  BY <1>1, <1>2, <1>3, <1>4, <1>5 DEF PipelineInv

LEMMA ReprocessInv ==
    ASSUME PipelineInv, PoolInv', NEW c \in Request, NEW p \in Photo,
           Reprocess(c, p)
    PROVE  PipelineInv'
<1>1. TypeOK'
  BY PipelineAssumption DEF PipelineInv, TypeOK, PoolInv, Request,
     Reprocess, Call, Edit, SetStatus, blobVars, handlerVars, processVars,
     Unfinished
<1>2. WorkerOwnsRow'
  BY PoolAssumption DEF PipelineInv, TypeOK, PoolInv, PoolTypeOK,
     WorkerOwnsRow, Reprocess, Call, SetStatus, blobVars, handlerVars,
     processVars
<1>3. WrittenOrToDo'
  BY PoolAssumption, PipelineAssumption DEF PipelineInv, TypeOK, PoolInv,
     PoolTypeOK, WrittenOrToDo, WorkerOwnsRow, Reprocess, Call, SetStatus,
     blobVars, handlerVars, processVars
<1>4. StoredFirst'
  BY PoolAssumption, PipelineAssumption DEF PipelineInv, TypeOK, PoolInv,
     PoolTypeOK, StoredFirst, Reprocess, Call, SetStatus, blobVars,
     handlerVars, processVars
<1>5. BlobFirst'
  BY PoolAssumption, PipelineAssumption DEF PipelineInv, TypeOK, PoolInv,
     PoolTypeOK, BlobFirst, Reprocess, Call, SetStatus, blobVars, handlerVars,
     processVars
<1>6. QED
  BY <1>1, <1>2, <1>3, <1>4, <1>5 DEF PipelineInv

LEMMA ReceiveInv ==
    ASSUME PipelineInv, PoolInv', NEW w \in Worker, Receive(w)
    PROVE  PipelineInv'
<1>1. TypeOK'
  BY PipelineAssumption DEF PipelineInv, TypeOK, PoolInv, Receive, Take,
     rowVars, blobVars, handlerVars, processVars, boundVars
<1>2. WorkerOwnsRow'
  BY PoolAssumption DEF PipelineInv, TypeOK, PoolInv, PoolTypeOK,
     WorkerOwnsRow, Receive, Take, rowVars, blobVars, handlerVars, processVars,
     boundVars
<1>3. WrittenOrToDo'
  BY PoolAssumption, PipelineAssumption DEF PipelineInv, TypeOK, PoolInv,
     PoolTypeOK, WrittenOrToDo, WorkerOwnsRow, Receive, Take, rowVars,
     blobVars, handlerVars, processVars, boundVars
<1>4. StoredFirst'
  BY PoolAssumption, PipelineAssumption DEF PipelineInv, TypeOK, PoolInv,
     PoolTypeOK, StoredFirst, Receive, Take, rowVars, blobVars, handlerVars,
     processVars, boundVars
<1>5. BlobFirst'
  BY PoolAssumption, PipelineAssumption DEF PipelineInv, TypeOK, PoolInv,
     PoolTypeOK, BlobFirst, Receive, Take, rowVars, blobVars, handlerVars,
     processVars, boundVars
<1>6. QED
  BY <1>1, <1>2, <1>3, <1>4, <1>5 DEF PipelineInv

LEMMA ClaimInv ==
    ASSUME PipelineInv, PoolInv', NEW w \in Worker, Claim(w)
    PROVE  PipelineInv'
<1>1. TypeOK'
  BY PipelineAssumption DEF PipelineInv, TypeOK, PoolInv, Claim, At,
     MayClaim, SetStatus, Goto, Finish, HandlerReturns, Fault, Unfinished,
     poolVars, rowVars, blobVars, processVars, boundVars
<1>2. WorkerOwnsRow'
  BY PoolAssumption DEF PipelineInv, TypeOK, PoolInv, PoolTypeOK,
     WorkerOwnsRow, Claim, At, MayClaim, SetStatus, Goto, Finish,
     HandlerReturns, Fault, Unfinished, OnePlace, poolVars, rowVars, blobVars,
     processVars, boundVars
<1>3. WrittenOrToDo'
  BY PoolAssumption, PipelineAssumption DEF PipelineInv, TypeOK, PoolInv,
     PoolTypeOK, WrittenOrToDo, WorkerOwnsRow, Claim, At, MayClaim, SetStatus,
     Goto, Finish, HandlerReturns, Fault, Unfinished, poolVars, rowVars,
     blobVars, processVars, boundVars
<1>4. StoredFirst'
  BY PoolAssumption, PipelineAssumption DEF PipelineInv, TypeOK, PoolInv,
     PoolTypeOK, StoredFirst, WorkerOwnsRow, Claim, At, MayClaim, SetStatus,
     Goto, Finish, HandlerReturns, Fault, Unfinished, poolVars, rowVars,
     blobVars, processVars, boundVars
<1>5. BlobFirst'
  BY PoolAssumption, PipelineAssumption DEF PipelineInv, TypeOK, PoolInv,
     PoolTypeOK, BlobFirst, Claim, At, MayClaim, SetStatus, Goto, Finish,
     HandlerReturns, Fault, Unfinished, poolVars, rowVars, blobVars,
     processVars, boundVars
<1>6. QED
  BY <1>1, <1>2, <1>3, <1>4, <1>5 DEF PipelineInv

LEMMA DevelopInv ==
    ASSUME PipelineInv, PoolInv', NEW w \in Worker, Develop(w)
    PROVE  PipelineInv'
<1>1. TypeOK'
  BY PipelineAssumption DEF PipelineInv, TypeOK, PoolInv, Develop, At, Goto,
     AttemptFails, poolVars, rowVars, blobVars, processVars, boundVars
<1>2. WorkerOwnsRow'
  BY PoolAssumption DEF PipelineInv, TypeOK, PoolInv, PoolTypeOK,
     WorkerOwnsRow, Develop, At, Goto, AttemptFails, poolVars, rowVars,
     blobVars, processVars, boundVars
<1>3. WrittenOrToDo'
  BY PoolAssumption, PipelineAssumption DEF PipelineInv, TypeOK, PoolInv,
     PoolTypeOK, WrittenOrToDo, WorkerOwnsRow, Develop, At, Goto, AttemptFails,
     poolVars, rowVars, blobVars, processVars, boundVars
<1>4. StoredFirst'
  BY PoolAssumption, PipelineAssumption DEF PipelineInv, TypeOK, PoolInv,
     PoolTypeOK, StoredFirst, Develop, At, Goto, AttemptFails, poolVars,
     rowVars, blobVars, processVars, boundVars
<1>5. BlobFirst'
  BY PoolAssumption, PipelineAssumption DEF PipelineInv, TypeOK, PoolInv,
     PoolTypeOK, BlobFirst, Develop, At, Goto, AttemptFails, poolVars, rowVars,
     blobVars, processVars, boundVars
<1>6. QED
  BY <1>1, <1>2, <1>3, <1>4, <1>5 DEF PipelineInv

LEMMA PutVariantInv ==
    ASSUME PipelineInv, PoolInv', NEW w \in Worker, PutVariant(w)
    PROVE  PipelineInv'
<1>1. TypeOK'
  <2>1. PICK v \in todo[w] :
          /\ variants' = [variants EXCEPT ![ShaOf[job[w]]] = @ \cup {v}]
          /\ todo' = [todo EXCEPT ![w] = @ \ {v}]
    BY DEF PutVariant
  <2>2. todo[w] \subseteq Variant
    BY DEF PipelineInv, TypeOK
  <2>3. variants' \in [Sha -> SUBSET Variant]
    BY <2>1, <2>2 DEF PipelineInv, TypeOK
  <2>4. todo' \in [Worker -> SUBSET Variant]
    BY <2>1, <2>2 DEF PipelineInv, TypeOK
  <2>5. QED
    BY <2>3, <2>4 DEF PipelineInv, TypeOK, PoolInv, PutVariant, poolVars,
       rowVars, processVars, boundVars
<1>2. WorkerOwnsRow'
  BY PoolAssumption DEF PipelineInv, TypeOK, PoolInv, PoolTypeOK,
     WorkerOwnsRow, PutVariant, At, poolVars, rowVars, processVars, boundVars
<1>3. WrittenOrToDo'
  <2>1. PICK v \in todo[w] :
          /\ variants' = [variants EXCEPT ![ShaOf[job[w]]] = @ \cup {v}]
          /\ todo' = [todo EXCEPT ![w] = @ \ {v}]
    BY DEF PutVariant
  <2>2. job' = job /\ step' = step
    BY DEF PutVariant, poolVars
  <2>3. \A s \in Sha : variants[s] \subseteq variants'[s]
    BY <2>1 DEF PipelineInv, TypeOK
  <2>4. \A u \in Worker : step[u] = "put" => ShaOf[job[u]] \in Sha
    BY PipelineAssumption
       DEF PipelineInv, PoolInv, PoolTypeOK, WorkerOwnsRow
  <2>5. step[w] = "put" => v \in variants'[ShaOf[job[w]]]
    BY <2>1, <2>4 DEF PipelineInv, TypeOK
  <2>6. /\ todo'[w] = todo[w] \ {v}
        /\ \A u \in Worker : u # w => todo'[u] = todo[u]
    BY <2>1 DEF PipelineInv, TypeOK
  <2>7. QED
    BY <2>2, <2>3, <2>4, <2>5, <2>6 DEF PipelineInv, WrittenOrToDo
<1>4. StoredFirst'
  BY PoolAssumption, PipelineAssumption DEF PipelineInv, TypeOK, PoolInv,
     PoolTypeOK, StoredFirst, PutVariant, At, poolVars, rowVars, processVars,
     boundVars
<1>5. BlobFirst'
  BY PoolAssumption, PipelineAssumption DEF PipelineInv, TypeOK, PoolInv,
     PoolTypeOK, BlobFirst, PutVariant, At, poolVars, rowVars, processVars,
     boundVars
<1>6. QED
  BY <1>1, <1>2, <1>3, <1>4, <1>5 DEF PipelineInv

LEMMA MarkReadyInv ==
    ASSUME PipelineInv, PoolInv', NEW w \in Worker, MarkReady(w)
    PROVE  PipelineInv'
<1>1. TypeOK'
  BY PipelineAssumption DEF PipelineInv, TypeOK, PoolInv, MarkReady, At,
     AllWritten, SetStatus, Finish, HandlerReturns, rowVars, blobVars,
     processVars, boundVars, Unfinished
<1>2. WorkerOwnsRow'
  BY PoolAssumption DEF PipelineInv, TypeOK, PoolInv, PoolTypeOK,
     WorkerOwnsRow, MarkReady, At, AllWritten, SetStatus, Finish,
     HandlerReturns, OnePlace, rowVars, blobVars, processVars, boundVars
<1>3. WrittenOrToDo'
  BY PoolAssumption, PipelineAssumption DEF PipelineInv, TypeOK, PoolInv,
     PoolTypeOK, WrittenOrToDo, WorkerOwnsRow, MarkReady, At, AllWritten,
     SetStatus, Finish, HandlerReturns, rowVars, blobVars, processVars,
     boundVars
<1>4. StoredFirst'
  BY PoolAssumption, PipelineAssumption DEF PipelineInv, TypeOK, PoolInv,
     PoolTypeOK, StoredFirst, WorkerOwnsRow, MarkReady, At, AllWritten,
     SetStatus, Finish, HandlerReturns, rowVars, blobVars, processVars,
     boundVars
<1>5. BlobFirst'
  <2>1. /\ job[w] \in Photo
        /\ ShaOf[job[w]] \in origs
        /\ Variant \subseteq variants[ShaOf[job[w]]]
    BY DEF PipelineInv, PoolInv, PoolTypeOK, MarkReady, At, AllWritten,
       WorkerOwnsRow, WrittenOrToDo, BlobFirst
  <2>2. variants[ShaOf[job[w]]] = Variant
    BY <2>1, PipelineAssumption DEF PipelineInv, TypeOK
  <2>3. origs' = origs /\ variants' = variants
    BY DEF MarkReady, blobVars
  <2>4. \A p \in Photo : p # job[w] => status'[p] = status[p]
    BY DEF PipelineInv, TypeOK, MarkReady, SetStatus, rowVars
  <2>5. QED
    BY <2>1, <2>2, <2>3, <2>4 DEF PipelineInv, BlobFirst
<1>6. QED
  BY <1>1, <1>2, <1>3, <1>4, <1>5 DEF PipelineInv

LEMMA AttemptFaultsInv ==
    ASSUME PipelineInv, PoolInv', NEW w \in Worker, AttemptFaults(w)
    PROVE  PipelineInv'
<1>1. TypeOK'
  BY PipelineAssumption DEF PipelineInv, TypeOK, PoolInv, AttemptFaults, At,
     Fault, AttemptFails, poolVars, rowVars, blobVars, processVars
<1>2. WorkerOwnsRow'
  BY PoolAssumption DEF PipelineInv, TypeOK, PoolInv, PoolTypeOK,
     WorkerOwnsRow, AttemptFaults, At, Fault, AttemptFails, poolVars, rowVars,
     blobVars, processVars
<1>3. WrittenOrToDo'
  BY PoolAssumption, PipelineAssumption DEF PipelineInv, TypeOK, PoolInv,
     PoolTypeOK, WrittenOrToDo, WorkerOwnsRow, AttemptFaults, At, Fault,
     AttemptFails, poolVars, rowVars, blobVars, processVars
<1>4. StoredFirst'
  BY PoolAssumption, PipelineAssumption DEF PipelineInv, TypeOK, PoolInv,
     PoolTypeOK, StoredFirst, AttemptFaults, At, Fault, AttemptFails, poolVars,
     rowVars, blobVars, processVars
<1>5. BlobFirst'
  BY PoolAssumption, PipelineAssumption DEF PipelineInv, TypeOK, PoolInv,
     PoolTypeOK, BlobFirst, AttemptFaults, At, Fault, AttemptFails, poolVars,
     rowVars, blobVars, processVars
<1>6. QED
  BY <1>1, <1>2, <1>3, <1>4, <1>5 DEF PipelineInv

LEMMA MarkFailedInv ==
    ASSUME PipelineInv, PoolInv', NEW w \in Worker, MarkFailed(w)
    PROVE  PipelineInv'
<1>1. TypeOK'
  BY PipelineAssumption DEF PipelineInv, TypeOK, PoolInv, MarkFailed, At,
     SetStatus, Finish, HandlerReturns, Fault, rowVars, blobVars, processVars,
     boundVars, Unfinished
<1>2. WorkerOwnsRow'
  BY PoolAssumption DEF PipelineInv, TypeOK, PoolInv, PoolTypeOK,
     WorkerOwnsRow, MarkFailed, At, SetStatus, Finish, HandlerReturns, Fault,
     OnePlace, rowVars, blobVars, processVars, boundVars
<1>3. WrittenOrToDo'
  BY PoolAssumption, PipelineAssumption DEF PipelineInv, TypeOK, PoolInv,
     PoolTypeOK, WrittenOrToDo, WorkerOwnsRow, MarkFailed, At, SetStatus,
     Finish, HandlerReturns, Fault, rowVars, blobVars, processVars, boundVars
<1>4. StoredFirst'
  BY PoolAssumption, PipelineAssumption DEF PipelineInv, TypeOK, PoolInv,
     PoolTypeOK, StoredFirst, WorkerOwnsRow, MarkFailed, At, SetStatus, Finish,
     HandlerReturns, Fault, rowVars, blobVars, processVars, boundVars
<1>5. BlobFirst'
  BY PoolAssumption, PipelineAssumption DEF PipelineInv, TypeOK, PoolInv,
     PoolTypeOK, BlobFirst, WorkerOwnsRow, MarkFailed, At, SetStatus, Finish,
     HandlerReturns, Fault, rowVars, blobVars, processVars, boundVars
<1>6. QED
  BY <1>1, <1>2, <1>3, <1>4, <1>5 DEF PipelineInv

LEMMA ReleaseInv ==
    ASSUME PipelineInv, PoolInv', NEW w \in Worker, Release(w)
    PROVE  PipelineInv'
<1>1. TypeOK'
  BY PipelineAssumption DEF PipelineInv, TypeOK, PoolInv, Release, Forget,
     rowVars, blobVars, handlerVars, processVars, boundVars
<1>2. WorkerOwnsRow'
  BY PoolAssumption DEF PipelineInv, TypeOK, PoolInv, PoolTypeOK,
     WorkerOwnsRow, Release, Forget, rowVars, blobVars, handlerVars,
     processVars, boundVars
<1>3. WrittenOrToDo'
  BY PoolAssumption, PipelineAssumption DEF PipelineInv, TypeOK, PoolInv,
     PoolTypeOK, WrittenOrToDo, WorkerOwnsRow, Release, Forget, rowVars,
     blobVars, handlerVars, processVars, boundVars
<1>4. StoredFirst'
  BY PoolAssumption, PipelineAssumption DEF PipelineInv, TypeOK, PoolInv,
     PoolTypeOK, StoredFirst, Release, Forget, rowVars, blobVars, handlerVars,
     processVars, boundVars
<1>5. BlobFirst'
  BY PoolAssumption, PipelineAssumption DEF PipelineInv, TypeOK, PoolInv,
     PoolTypeOK, BlobFirst, Release, Forget, rowVars, blobVars, handlerVars,
     processVars, boundVars
<1>6. QED
  BY <1>1, <1>2, <1>3, <1>4, <1>5 DEF PipelineInv

LEMMA DieInv ==
    ASSUME PipelineInv, PoolInv', Die
    PROVE  PipelineInv'
<1>1. TypeOK'
  BY PipelineAssumption DEF PipelineInv, TypeOK, PoolInv, Request, Die,
     Restart, rowVars, blobVars, boundVars
<1>2. WorkerOwnsRow'
  BY PoolAssumption DEF PipelineInv, TypeOK, PoolInv, PoolTypeOK,
     WorkerOwnsRow, Die, Restart, rowVars, blobVars, boundVars
<1>3. WrittenOrToDo'
  BY PoolAssumption, PipelineAssumption DEF PipelineInv, TypeOK, PoolInv,
     PoolTypeOK, WrittenOrToDo, WorkerOwnsRow, Die, Restart, rowVars, blobVars,
     boundVars
<1>4. StoredFirst'
  BY PoolAssumption, PipelineAssumption DEF PipelineInv, TypeOK, PoolInv,
     PoolTypeOK, StoredFirst, Die, Restart, rowVars, blobVars, boundVars
<1>5. BlobFirst'
  BY PoolAssumption, PipelineAssumption DEF PipelineInv, TypeOK, PoolInv,
     PoolTypeOK, BlobFirst, Die, Restart, rowVars, blobVars, boundVars
<1>6. QED
  BY <1>1, <1>2, <1>3, <1>4, <1>5 DEF PipelineInv

LEMMA PipelineStep == PipelineInv /\ [Next]_vars => PipelineInv'
<1> SUFFICES ASSUME PipelineInv, [Next]_vars PROVE PipelineInv'
  OBVIOUS
<1>1. PoolInv'
  BY PoolSimulation, PoolStep DEF PipelineInv
<1>2. ASSUME NEW c \in Request, StoreOriginal(c) PROVE PipelineInv'
  BY <1>1, <1>2, StoreOriginalInv
<1>3. ASSUME NEW c \in Request, CreatePhoto(c) PROVE PipelineInv'
  BY <1>1, <1>3, CreatePhotoInv
<1>4. ASSUME NEW c \in Request, CreateFails(c) PROVE PipelineInv'
  BY <1>1, <1>4, CreateFailsInv
<1>5. ASSUME NEW c \in Request, NEW p \in Photo, Reprocess(c, p)
      PROVE  PipelineInv'
  BY <1>1, <1>5, ReprocessInv
<1>6. ASSUME NEW c \in Caller, EnqueueStep(c) PROVE PipelineInv'
  BY <1>1, <1>6, EnqueueStepInv
<1>7. ASSUME NEW p \in Photo, EditPhoto(p) \/ Age(p) PROVE PipelineInv'
  BY <1>1, <1>7, EditPhotoInv, AgeInv
<1>8. ASSUME NEW w \in Worker, WorkerStep(w) PROVE PipelineInv'
  BY <1>1, <1>8, ReceiveInv, ClaimInv, DevelopInv, PutVariantInv,
     MarkReadyInv, AttemptFaultsInv, MarkFailedInv, ReleaseInv DEF WorkerStep
<1>9. CASE Scanning
  BY <1>1, <1>9, ScanningInv
<1>10. CASE Lifetime \/ StopRunner \/ Crash
  BY <1>1, <1>10, PhaseInv, DieInv DEF Lifetime, Exit, Crash
<1>11. CASE UNCHANGED vars
  <2>1. TypeOK'
    BY <1>1, <1>11 DEF PipelineInv, PoolInv, TypeOK, vars, rowVars, blobVars,
       handlerVars, processVars, boundVars
  <2>2. UNCHANGED watched
    BY <1>11 DEF watched, vars, poolVars, rowVars, blobVars, handlerVars
  <2>3. QED
    BY <1>1, <2>1, <2>2, QuietInv
<1>12. QED
  BY <1>2, <1>3, <1>4, <1>5, <1>6, <1>7, <1>8, <1>9, <1>10, <1>11 DEF Next

\* The strengthened invariant holds throughout.
THEOREM PipelineInvariant == Spec => []PipelineInv
<1>1. QED
  BY InitInv, PipelineStep, PTL DEF Spec

\* Every variable keeps its type, for any instance.
THEOREM PipelineTypeCorrect == Spec => []TypeOK
<1>1. PipelineInv => TypeOK
  BY DEF PipelineInv
<1>2. QED
  BY <1>1, PipelineInvariant, PTL

\* Among the requests, scans, shutdowns and crashes of the whole pipeline,
\* `inflight` stays exact: no photo is lost to the queue, none is in it twice.
THEOREM PipelineInflightExact == Spec => []InflightExact
<1>1. PipelineInv => InflightExact
  BY DEF PipelineInv, PoolInv
<1>2. QED
  BY <1>1, PipelineInvariant, PTL

\* worker.go:21 in the whole pipeline: no photo is handled twice at a time.
THEOREM PipelineHandlesOnce == Spec => []OneHandlerPerPhoto
<1>1. PipelineInv => OneHandlerPerPhoto
  BY DEF PipelineInv, PoolInv, OnePlace, OneHandlerPerPhoto
<1>2. QED
  BY <1>1, PipelineInvariant, PTL

\* Seen from the pool, the pipeline is a user like any other.
LEMMA PipelineRunsPool == Spec => PoolSpec
<1>1. Init => PoolInit
  BY DEF Init
<1>2. TypeOK /\ [Next]_vars => [PoolNext]_poolVars
  BY PoolSimulation
<1>3. QED
  BY <1>1, <1>2, PipelineTypeCorrect, PTL DEF Spec, PoolSpec

\* The pool in the pipeline implements the abstract pool that direct uploads
\* are specified with: nothing but an Enqueue makes a photo wait, no worker
\* gets one that another has, and a photo waits until it is taken or the
\* process ends.
THEOREM PipelineImplementsPool == Spec => PoolRefined
<1>1. QED
  BY PipelineRunsPool, PoolImplementsView, PTL

\* Design document, line 168: blobs first, database last, at every moment.
THEOREM PipelineBlobFirst == Spec => []BlobFirst
<1>1. PipelineInv => BlobFirst
  BY DEF PipelineInv
<1>2. QED
  BY <1>1, PipelineInvariant, PTL

-----------------------------------------------------------------------------
(* The pipeline implements the life of a photo *)

LEMMA LifeInit == Init => Lifecycle!LifeInit
  BY DEF Init, Lifecycle!LifeInit, Seen, Unfinished

\* A write of one row's status, as the owner sees it.
LEMMA SeenAfter ==
    ASSUME TypeOK, NEW p \in Photo, NEW s, status' = [status EXCEPT ![p] = s]
    PROVE  [q \in Photo |-> Seen(q)]' =
             [[q \in Photo |-> Seen(q)] EXCEPT
                ![p] = IF s \in Unfinished THEN "developing" ELSE s]
  BY DEF TypeOK, Seen

LEMMA LifeStep ==
    PipelineInv /\ [Next]_vars => [Lifecycle!LifeNext]_(Lifecycle!lifeVars)
<1> SUFFICES ASSUME PipelineInv, [Next]_vars
             PROVE  [Lifecycle!LifeNext]_(Lifecycle!lifeVars)
  OBVIOUS
<1>1. ASSUME UNCHANGED <<status, live>> PROVE UNCHANGED Lifecycle!lifeVars
  BY <1>1 DEF Lifecycle!lifeVars, Seen
<1>2. ASSUME NEW p \in Photo, Lifecycle!Accept(p) \/ Lifecycle!Settle(p) \/
               Lifecycle!Retry(p) \/ Lifecycle!Hide(p) \/ Lifecycle!Show(p)
      PROVE  Lifecycle!LifeNext
  BY <1>2 DEF Lifecycle!LifeNext
<1>3. ASSUME NEW c \in Request, CreatePhoto(c) PROVE Lifecycle!LifeNext
  <2> DEFINE p == stored[c]
  <2>1. p \in Photo /\ status[p] = "absent"
    BY <1>3 DEF CreatePhoto, PipelineInv, TypeOK, StoredFirst
  <2>2. [q \in Photo |-> Seen(q)]' =
          [[q \in Photo |-> Seen(q)] EXCEPT ![p] = "developing"]
    BY <1>3, <2>1, SeenAfter DEF CreatePhoto, PipelineInv, Unfinished
  <2>3. Lifecycle!Accept(p)
    BY <1>3, <2>1, <2>2 DEF Lifecycle!Accept, CreatePhoto, Seen, Unfinished
  <2>4. QED
    BY <1>2, <2>1, <2>3
<1>4. ASSUME NEW c \in Request, NEW p \in Photo, Reprocess(c, p)
      PROVE  Lifecycle!LifeNext
  <2>1. [q \in Photo |-> Seen(q)]' =
          [[q \in Photo |-> Seen(q)] EXCEPT ![p] = "developing"]
    BY <1>4, SeenAfter DEF Reprocess, SetStatus, PipelineInv, Unfinished
  <2>2. Lifecycle!Retry(p)
    BY <1>4, <2>1
       DEF Lifecycle!Retry, Reprocess, SetStatus, Seen, Unfinished
  <2>3. QED
    BY <1>2, <2>2
<1>5. ASSUME NEW p \in Photo, EditPhoto(p)
      PROVE  [Lifecycle!LifeNext]_(Lifecycle!lifeVars)
  <2>1. status' = status /\ status[p] # "absent"
    BY <1>5 DEF EditPhoto
  <2>2. [q \in Photo |-> Seen(q)]' = [q \in Photo |-> Seen(q)]
    BY <2>1 DEF Seen
  <2>3. [q \in Photo |-> Seen(q)][p] # "absent"
    BY <2>1 DEF Seen, Unfinished
  <2>4. CASE p \in live /\ live' = live \ {p}
    BY <1>2, <2>2, <2>4 DEF Lifecycle!Hide
  <2>5. CASE p \notin live /\ live' = live \cup {p}
    BY <1>2, <2>2, <2>3, <2>5 DEF Lifecycle!Show
  <2>6. CASE UNCHANGED live
    BY <1>1, <2>1, <2>6
  <2>7. QED
    BY <1>5, <2>4, <2>5, <2>6 DEF EditPhoto
<1>6. ASSUME NEW w \in Worker, NEW s \in {"ready", "failed"},
             At(w, "put") \/ At(w, "fail"), SetStatus(job[w], s)
      PROVE  Lifecycle!LifeNext
  <2>1. job[w] \in Photo /\ status[job[w]] = "processing"
    BY <1>6 DEF At, PipelineInv, PoolInv, PoolTypeOK, WorkerOwnsRow
  <2>2. [q \in Photo |-> Seen(q)]' =
          [[q \in Photo |-> Seen(q)] EXCEPT ![job[w]] = s]
    BY <1>6, <2>1, SeenAfter DEF SetStatus, PipelineInv, Unfinished
  <2>3. Lifecycle!Settle(job[w])
    BY <1>6, <2>1, <2>2 DEF Lifecycle!Settle, SetStatus, Seen, Unfinished
  <2>4. QED
    BY <1>2, <2>1, <2>3
<1>7. ASSUME NEW w \in Worker, Claim(w)
      PROVE  UNCHANGED Lifecycle!lifeVars
  <2>1. CASE UNCHANGED rowVars
    BY <1>1, <2>1 DEF rowVars
  <2>2. CASE MayClaim(job[w]) /\ SetStatus(job[w], "processing")
    <3>1. job[w] \in Photo /\ Seen(job[w]) = "developing"
      BY <1>7, <2>2 DEF Claim, At, MayClaim, Seen, PipelineInv, PoolInv,
         PoolTypeOK
    <3>2. [q \in Photo |-> Seen(q)]' =
            [[q \in Photo |-> Seen(q)] EXCEPT ![job[w]] = "developing"]
      BY <2>2, <3>1, SeenAfter DEF SetStatus, PipelineInv, Unfinished
    <3>3. QED
      BY <2>2, <3>1, <3>2 DEF Lifecycle!lifeVars, SetStatus
  <2>3. QED
    BY <1>7, <2>1, <2>2 DEF Claim
<1>8. ASSUME NEW w \in Worker, WorkerStep(w)
      PROVE  [Lifecycle!LifeNext]_(Lifecycle!lifeVars)
  <2>1. CASE Claim(w)
    BY <1>7, <2>1
  <2>2. CASE MarkReady(w)
    BY <1>1, <1>6, <2>2 DEF MarkReady, rowVars
  <2>3. CASE MarkFailed(w)
    BY <1>1, <1>6, <2>3 DEF MarkFailed, rowVars
  <2>4. CASE Receive(w) \/ Develop(w) \/ PutVariant(w) \/ AttemptFaults(w) \/
               Release(w)
    BY <1>1, <2>4 DEF Receive, Develop, PutVariant, AttemptFaults, Release,
       rowVars
  <2>5. QED
    BY <1>8, <2>1, <2>2, <2>3, <2>4 DEF WorkerStep
<1>9. ASSUME \/ \E c \in Request : StoreOriginal(c) \/ CreateFails(c)
             \/ \E c \in Caller : EnqueueStep(c)
             \/ \E p \in Photo : Age(p)
             \/ Scanning \/ Lifetime \/ StopRunner \/ Crash \/ UNCHANGED vars
      PROVE  UNCHANGED <<status, live>>
  BY <1>9 DEF StoreOriginal, CreateFails, EnqueueStep, Age, Scanning, Rescan,
     RescanNext, Lifetime, Serve, OnlyPhase, ClosePool, Exit, Die, Boot,
     StopRunner, Crash, vars, rowVars
<1>10. QED
  BY <1>1, <1>3, <1>4, <1>5, <1>8, <1>9 DEF Next

\* The pipeline implements the abstract life of a photo: no interleaving of
\* workers, retries, scans, deletes, shutdowns and crashes takes `ready` back,
\* settles a photo twice or revives a failed one unasked.
THEOREM PipelineImplementsLifecycle == Spec => LifecycleRefined
<1>1. QED
  BY LifeInit, LifeStep, PipelineInvariant, PTL
     DEF Spec, LifecycleRefined, Lifecycle!LifeSpec
-----------------------------------------------------------------------------
(* A sound photo fails for a cause only *)

\* As long as no error has struck and no user has edited: every row is out of
\* the trash, every attempt is a first one, and what is given up is broken.
SoundSoFar ==
    (faults = 0 /\ edits = 0) =>
        /\ \A p \in Photo :
             /\ status[p] # "absent" => p \in live
             /\ status[p] = "failed" => ShaOf[p] \in Broken
        /\ \A w \in Worker :
             /\ tries[w] = 0
             /\ step[w] = "fail" => ShaOf[job[w]] \in Broken

SoundInv == PipelineInv /\ SoundSoFar

LEMMA SoundInit == Init => SoundSoFar
  BY DEF Init, SoundSoFar

\* Causes do not go away.
LEMMA CausesStay ==
    ASSUME TypeOK, [Next]_vars, faults' = 0, edits' = 0
    PROVE  UNCHANGED boundVars
<1>1. faults \in Nat /\ edits \in Nat
  BY DEF TypeOK
<1>2. ~Fault /\ ~Edit
  BY <1>1 DEF Fault, Edit
<1>3. ASSUME NEW c \in Request, NEW p \in Photo,
             StoreOriginal(c) \/ CreatePhoto(c) \/ CreateFails(c) \/
               Reprocess(c, p)
      PROVE  UNCHANGED boundVars
  BY <1>2, <1>3 DEF StoreOriginal, CreatePhoto, CreateFails, Reprocess
<1>4. ASSUME NEW c \in Request,
             StoreOriginal(c) \/ CreatePhoto(c) \/ CreateFails(c)
      PROVE  UNCHANGED boundVars
  BY <1>2, <1>4 DEF StoreOriginal, CreatePhoto, CreateFails
<1>5. ASSUME NEW c \in Caller, EnqueueStep(c) PROVE UNCHANGED boundVars
  BY <1>5 DEF EnqueueStep
<1>6. ASSUME NEW p \in Photo, EditPhoto(p) \/ Age(p)
      PROVE  UNCHANGED boundVars
  BY <1>2, <1>6 DEF EditPhoto, Age
<1>7. ASSUME NEW w \in Worker, WorkerStep(w) PROVE UNCHANGED boundVars
  BY <1>2, <1>7 DEF WorkerStep, Receive, Claim, Develop, PutVariant,
     MarkReady, AttemptFaults, MarkFailed, Release, boundVars
<1>8. CASE Scanning \/ Lifetime \/ StopRunner \/ Crash
  BY <1>2, <1>8 DEF Scanning, Rescan, RescanNext, Lifetime, Serve, OnlyPhase,
     ClosePool, Exit, Die, Boot, StopRunner, Crash
<1>9. CASE UNCHANGED vars
  BY <1>9 DEF vars
<1>10. QED
  BY <1>3, <1>4, <1>5, <1>6, <1>7, <1>8, <1>9 DEF Next

LEMMA SoundStep == SoundInv /\ [Next]_vars => SoundSoFar'
<1> SUFFICES ASSUME PipelineInv, SoundSoFar, [Next]_vars,
                    faults' = 0, edits' = 0
             PROVE  SoundSoFar'
  BY DEF SoundInv, SoundSoFar
<1>1. UNCHANGED boundVars /\ faults = 0 /\ edits = 0 /\ ~Fault /\ ~Edit
  <2>1. UNCHANGED boundVars
    BY CausesStay DEF PipelineInv
  <2>2. faults = 0 /\ edits = 0
    BY <2>1 DEF boundVars
  <2>3. QED
    BY <2>1, <2>2 DEF boundVars, Fault, Edit
<1>2. /\ \A p \in Photo :
           /\ status[p] # "absent" => p \in live
           /\ status[p] = "failed" => ShaOf[p] \in Broken
      /\ \A w \in Worker :
           /\ tries[w] = 0
           /\ step[w] = "fail" => ShaOf[job[w]] \in Broken
  BY <1>1 DEF SoundSoFar
<1>3. ASSUME UNCHANGED <<status, live, step, tries, job>>
      PROVE  SoundSoFar'
  BY <1>2, <1>3 DEF SoundSoFar
<1>4. ASSUME NEW w \in Worker, job[w] = None \/ w \in handled,
             UNCHANGED <<status, live, step, tries>>,
             \A v \in Worker : v # w => job'[v] = job[v]
      PROVE  SoundSoFar'
  <2>1. step[w] = "claim"
    BY <1>4 DEF PipelineInv, WorkerOwnsRow
  <2>2. QED
    BY <1>2, <1>4, <2>1 DEF SoundSoFar
<1>5. ASSUME NEW c \in Request, CreatePhoto(c) PROVE SoundSoFar'
  BY <1>2, <1>5 DEF CreatePhoto, Call, PipelineInv, TypeOK, SoundSoFar,
     handlerVars
<1>6. ASSUME NEW w \in Worker, WorkerStep(w) PROVE SoundSoFar'
  <2>1. ASSUME NEW s \in {"claim", "load", "put", "fail"},
               job[w] # None, UNCHANGED <<live, tries, job>>,
               step' = [step EXCEPT ![w] = s],
               s = "fail" => ShaOf[job[w]] \in Broken,
               \A p \in Photo : status'[p] = status[p] \/
                                (p \in live /\ status'[p] # "failed")
        PROVE  SoundSoFar'
    BY <1>2, <2>1 DEF PipelineInv, TypeOK, SoundSoFar
  <2>2. ASSUME Finish(w), UNCHANGED live,
               \A p \in Photo : status'[p] = status[p] \/
                                /\ p \in live
                                /\ status'[p] = "failed" => ShaOf[p] \in Broken
        PROVE  SoundSoFar'
    BY <1>2, <2>2 DEF Finish, HandlerReturns, PipelineInv, TypeOK, SoundSoFar
  <2>3. ASSUME job[w] # None
        PROVE  job[w] \in Photo
    BY <2>3 DEF PipelineInv, PoolInv, PoolTypeOK
  <2>4. CASE Receive(w)
    <3>1. /\ job[w] = None
          /\ \A v \in Worker : v # w => job'[v] = job[v]
      BY <2>4 DEF Receive, Take, PipelineInv, PoolInv, PoolTypeOK
    <3>2. QED
      BY <1>4, <2>4, <3>1 DEF Receive, rowVars, handlerVars
  <2>5. CASE Release(w)
    <3>1. /\ w \in handled
          /\ \A v \in Worker : v # w => job'[v] = job[v]
      BY <2>5 DEF Release, Forget, PipelineInv, PoolInv, PoolTypeOK
    <3>2. QED
      BY <1>4, <2>5, <3>1 DEF Release, rowVars, handlerVars
  <2>6. CASE Claim(w)
    <3>1. CASE MayClaim(job[w]) /\ SetStatus(job[w], "processing") /\
               Goto(w, "load") /\ UNCHANGED poolVars
      BY <2>1, <2>6, <3>1 DEF Claim, At, MayClaim, SetStatus, Goto, poolVars,
         PipelineInv, TypeOK
    <3>2. CASE Finish(w) /\ UNCHANGED rowVars
      BY <2>2, <3>2 DEF rowVars
    <3>3. QED
      BY <1>1, <2>6, <3>1, <3>2 DEF Claim
  <2>7. CASE Develop(w)
    <3>1. /\ job[w] # None /\ job[w] \in Photo
          /\ job[w] \in live /\ ShaOf[job[w]] \in origs
      BY <1>2, <2>3, <2>7 DEF Develop, At, PipelineInv, WorkerOwnsRow,
         BlobFirst
    <3>2. CASE ShaOf[job[w]] \in Broken /\ Goto(w, "fail") /\
               UNCHANGED poolVars
      BY <2>1, <2>7, <3>1, <3>2 DEF Develop, Goto, rowVars, poolVars
    <3>3. CASE step' = [step EXCEPT ![w] = "put"] /\
               UNCHANGED <<poolVars, tries>>
      BY <2>1, <2>7, <3>1, <3>3 DEF Develop, rowVars, poolVars
    <3>4. QED
      BY <2>7, <3>1, <3>2, <3>3 DEF Develop
  <2>8. CASE PutVariant(w)
    BY <1>3, <2>8 DEF PutVariant, rowVars, poolVars
  <2>9. CASE MarkReady(w)
    <3>1. CASE job[w] \in live /\ SetStatus(job[w], "ready")
      BY <2>2, <2>9, <3>1 DEF MarkReady, SetStatus, PipelineInv, TypeOK
    <3>2. CASE UNCHANGED rowVars
      BY <2>2, <2>9, <3>2 DEF MarkReady, rowVars
    <3>3. QED
      BY <2>9, <3>1, <3>2 DEF MarkReady
  <2>10. CASE MarkFailed(w)
    <3>1. /\ job[w] \in Photo /\ job[w] \in live
          /\ ShaOf[job[w]] \in Broken
      BY <1>2, <2>3, <2>10 DEF MarkFailed, At, PipelineInv, WorkerOwnsRow
    <3>2. SetStatus(job[w], "failed") /\ Finish(w)
      BY <1>1, <2>10 DEF MarkFailed
    <3>3. QED
      BY <2>2, <3>1, <3>2 DEF SetStatus, PipelineInv, TypeOK
  <2>11. CASE AttemptFaults(w)
    BY <1>1, <2>11 DEF AttemptFaults
  <2>12. QED
    BY <1>6, <2>4, <2>5, <2>6, <2>7, <2>8, <2>9, <2>10, <2>11 DEF WorkerStep
<1>7. ASSUME NEW c \in Caller, EnqueueStep(c) PROVE SoundSoFar'
  BY <1>3, <1>7 DEF EnqueueStep, Reject, Reserve, Send, QueueFull, SendPanics,
     Rollback, Return, rowVars, handlerVars
<1>8. CASE Exit \/ Crash
  BY <1>2, <1>8 DEF Exit, Crash, Die, rowVars, SoundSoFar
<1>9. ASSUME NEW c \in Request, StoreOriginal(c) PROVE SoundSoFar'
  BY <1>3, <1>9 DEF StoreOriginal, poolVars, rowVars, handlerVars
<1>10. ASSUME NEW p \in Photo, Age(p) PROVE SoundSoFar'
  BY <1>3, <1>10 DEF Age, poolVars, handlerVars
<1>11. CASE Scanning \/ Serve \/ ClosePool \/ Boot \/ StopRunner
  BY <1>3, <1>11 DEF Scanning, Rescan, RescanNext, Call, Serve, OnlyPhase,
     ClosePool, MarkClosed, Seal, Boot, StopRunner, poolVars, rowVars,
     handlerVars
<1>12. CASE UNCHANGED vars
  BY <1>3, <1>12 DEF vars, poolVars, rowVars, handlerVars
<1>13. ASSUME NEW c \in Request, NEW p \in Photo,
              CreateFails(c) \/ Reprocess(c, p) \/ EditPhoto(p)
       PROVE  FALSE
  BY <1>1, <1>13 DEF CreateFails, Reprocess, EditPhoto
<1>14. ASSUME NEW c \in Request, CreateFails(c) PROVE FALSE
  BY <1>1, <1>14 DEF CreateFails
<1>15. ASSUME NEW p \in Photo, EditPhoto(p) PROVE FALSE
  BY <1>1, <1>15 DEF EditPhoto
<1>16. QED
  BY <1>5, <1>6, <1>7, <1>8, <1>9, <1>10, <1>11, <1>12, <1>13, <1>14, <1>15
     DEF Next, Lifetime

\* upload.go:383, for any numbers: a photo whose image is good fails only after
\* a storage or database error or an edit by a user, whatever the queue, the
\* workers, the scans, the shutdowns and the crashes do.
THEOREM PipelineSoundFails == Spec => []SoundPhotoFailsForCause
<1>1. Init => SoundInv
  BY InitInv, SoundInit DEF SoundInv
<1>2. SoundInv /\ [Next]_vars => SoundInv'
  BY PipelineStep, SoundStep DEF SoundInv
<1>3. SoundInv => SoundPhotoFailsForCause
  BY DEF SoundInv, SoundSoFar, PipelineInv, TypeOK, SoundPhotoFailsForCause
<1>4. QED
  BY <1>1, <1>2, <1>3, PTL DEF Spec
=============================================================================
