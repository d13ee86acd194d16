---------------------------- MODULE PhotoPipeline ----------------------------
(***************************************************************************)
(* The development pipeline of a photo, from the moment its original is    *)
(* stored to `ready` or `failed`: the tail of UploadLocal, Reprocess, the  *)
(* worker's handler ProcessPhoto/processOnce, the startup and periodic     *)
(* recovery scans, the soft deletes and edits a user makes meanwhile, the  *)
(* graceful shutdown of cmd/server and a crash at any point.               *)
(*                                                                         *)
(* Database rows and blobs survive a restart; the pool, the requests and   *)
(* the scanner do not.  Every database statement is one action, because    *)
(* the writer is a single connection; every blob operation is one action,  *)
(* because Put is atomic in both drivers.  All rows of this module have a  *)
(* sha: the way an s3 upload obtains its sha is module DirectUpload.       *)
(***************************************************************************)
EXTENDS WorkerPool, FiniteSets

CONSTANTS
    Scanner,        \* the Caller that runs RecoverStuck
    Sha,            \* contents of originals
    ShaOf,          \* the content each photo is uploaded with
    Broken,         \* contents that imgproc.Process refuses every time
    Variant,        \* variant names (thumb, md, lg)
    MaxFaults,      \* bound: storage and database errors in a behaviour
    MaxEdits,       \* bound: deletes, restores, edits and retries by users
    MaxRestarts     \* bound: shutdowns and crashes

ASSUME PipelineAssumption ==
    /\ Scanner \in Caller
    /\ ShaOf \in [Photo -> Sha]
    /\ Broken \subseteq Sha
    /\ {MaxFaults, MaxEdits, MaxRestarts} \subseteq Nat

VARIABLES
    status,     \* photos.status, "absent" when there is no row
    live,       \* rows whose deleted_at is NULL
    fresh,      \* `processing` rows whose updated_at is under 10 minutes old
    origs,      \* originals in the blob store
    variants,   \* variants in the blob store, by sha
    stored,     \* the photo whose original a request has stored, no row yet
    step,       \* where each worker stands in its handler
    tries,      \* the handler's attempt counter
    todo,       \* variants the current attempt has still to write
    scan,       \* photos the running recovery scan has still to enqueue
    phase,      \* life of the process: starting, up, stopped or down
    faults,     \* errors injected so far
    edits,      \* user edits so far
    restarts    \* process exits so far

rowVars     == <<status, live, fresh>>
blobVars    == <<origs, variants>>
handlerVars == <<step, tries, todo>>
processVars == <<scan, phase, restarts>>
boundVars   == <<faults, edits>>

vars == <<poolVars, rowVars, blobVars, stored, handlerVars, processVars,
          boundVars>>

Request == Caller \ {Scanner}

Unfinished == {"pending", "processing"}

TypeOK ==
    /\ PoolTypeOK
    /\ status \in [Photo -> {"absent", "ready", "failed"} \cup Unfinished]
    /\ live \subseteq Photo
    /\ fresh \subseteq Photo
    /\ origs \subseteq Sha
    /\ variants \in [Sha -> SUBSET Variant]
    /\ stored \in [Request -> Photo \cup {None}]
    /\ step \in [Worker -> {"claim", "load", "put", "fail"}]
    /\ tries \in [Worker -> {0, 1}]
    /\ todo \in [Worker -> SUBSET Variant]
    /\ scan \subseteq Photo
    /\ phase \in {"starting", "up", "stopped", "down"}
    /\ faults \in Nat
    /\ edits \in Nat
    /\ restarts \in Nat

Init ==
    /\ PoolInit
    /\ status = [p \in Photo |-> "absent"]
    /\ live = {}
    /\ fresh = {}
    /\ origs = {}
    /\ variants = [s \in Sha |-> {}]
    /\ stored = [c \in Request |-> None]
    /\ step = [w \in Worker |-> "claim"]
    /\ tries = [w \in Worker |-> 0]
    /\ todo = [w \in Worker |-> {}]
    /\ scan = {}
    /\ phase = "starting"
    /\ faults = 0
    /\ edits = 0
    /\ restarts = 0

\* An UPDATE that sets the status, and with it updated_at; the age of a row
\* matters, and is kept, in `processing` only.
SetStatus(p, s) ==
    /\ status' = [status EXCEPT ![p] = s]
    /\ fresh' = IF s = "processing" THEN fresh \cup {p} ELSE fresh \ {p}
    /\ UNCHANGED live

\* One more storage or database error.
Fault == faults < MaxFaults /\ faults' = faults + 1 /\ UNCHANGED edits

\* One more action of a user on an existing photo.
Edit == edits < MaxEdits /\ edits' = edits + 1 /\ UNCHANGED faults

-----------------------------------------------------------------------------
(* Requests.  Shutdown stops new connections and gives those under way 30   *)
(* seconds, after which main goes on without them: a request may still run *)
(* when the scanner has stopped and the pool is closed.                    *)

Serving == phase \in {"up", "stopped"}

\* Mutated form of WithOriginal: the Put is skipped, as after a Stat whose
\* error is taken for "already there".
WithoutOriginal(s) == origs

\* The originals after content s has been stored.
WithOriginal(s) == origs \cup {s}

\* UploadLocal stores the original unless the store already has it ...
StoreOriginal(c) ==
    /\ Serving
    /\ stage[c] = "idle"
    /\ stored[c] = None
    /\ \E p \in Photo :
         /\ status[p] = "absent"
         /\ \A d \in Request : stored[d] # p
         /\ origs' = WithOriginal(ShaOf[p])
         /\ stored' = [stored EXCEPT ![c] = p]
    /\ UNCHANGED <<poolVars, rowVars, variants, handlerVars, processVars,
                   boundVars>>

\* ... then inserts the row, already `processing`, and calls Enqueue.
CreatePhoto(c) ==
    /\ stored[c] # None
    /\ status' = [status EXCEPT ![stored[c]] = "processing"]
    /\ live' = live \cup {stored[c]}
    /\ fresh' = fresh \cup {stored[c]}
    /\ Call(c, stored[c])
    /\ stored' = [stored EXCEPT ![c] = None]
    /\ UNCHANGED <<blobVars, handlerVars, processVars, boundVars>>

\* The INSERT fails: the original stays behind without a row.
CreateFails(c) ==
    /\ stored[c] # None
    /\ Fault
    /\ stored' = [stored EXCEPT ![c] = None]
    /\ UNCHANGED <<poolVars, rowVars, blobVars, handlerVars, processVars>>

\* Reprocess: RequeuePhoto's guarded UPDATE, then Enqueue.  The reads before
\* it only decide which error to report, the UPDATE checks status again.
\* Retries count among the edits: a user does not retry forever.
Reprocess(c, p) ==
    /\ Serving
    /\ Edit
    /\ stored[c] = None
    /\ status[p] = "failed"
    /\ p \in live
    /\ ShaOf[p] \in origs
    /\ SetStatus(p, "pending")
    /\ Call(c, p)
    /\ UNCHANGED <<blobVars, stored, handlerVars, processVars>>

\* A user moves a photo to the trash, takes it out or edits its caption;
\* each of them refreshes updated_at.
EditPhoto(p) ==
    /\ Serving
    /\ Edit
    /\ status[p] # "absent"
    /\ \/ p \in live /\ live' = live \ {p}
       \/ p \notin live /\ live' = live \cup {p}
       \/ p \in live /\ UNCHANGED live
    /\ fresh' = IF status[p] = "processing" THEN fresh \cup {p} ELSE fresh
    /\ UNCHANGED <<poolVars, status, blobVars, stored, handlerVars,
                   processVars>>

\* Ten minutes pass without a write to the row.
Age(p) ==
    /\ p \in fresh
    /\ fresh' = fresh \ {p}
    /\ UNCHANGED <<poolVars, status, live, blobVars, stored,
                   handlerVars, processVars, boundVars>>

\* Some step of Enqueue, for a request or for the scanner.
EnqueueStep(c) ==
    /\ Reject(c) \/ Reserve(c) \/ Send(c) \/ QueueFull(c) \/ SendPanics(c)
          \/ Rollback(c)
    /\ UNCHANGED <<rowVars, blobVars, stored, handlerVars, processVars,
                   boundVars>>

-----------------------------------------------------------------------------
(* The handler *)

\* Worker w is inside the handler, at step s.
At(w, s) == job[w] # None /\ w \notin handled /\ step[w] = s

\* The next step of the handler, nothing else of it changing.
Goto(w, s) ==
    /\ step' = [step EXCEPT ![w] = s]
    /\ UNCHANGED <<tries, todo>>

\* A worker receives a photo and starts the handler on it, at "claim".
Receive(w) ==
    /\ Take(w)
    /\ UNCHANGED <<rowVars, blobVars, stored, handlerVars, processVars,
                   boundVars>>

\* The handler returns, whatever it has achieved; its locals are gone.
Finish(w) ==
    /\ HandlerReturns(w)
    /\ step' = [step EXCEPT ![w] = "claim"]
    /\ tries' = [tries EXCEPT ![w] = 0]
    /\ todo' = [todo EXCEPT ![w] = {}]

\* processOnce returned an error that is worth another attempt: the handler
\* makes two of them in all.
AttemptFails(w) ==
    /\ \/ /\ tries[w] = 0
          /\ step' = [step EXCEPT ![w] = "load"]
       \/ /\ tries[w] = 1
          /\ step' = [step EXCEPT ![w] = "fail"]
    /\ tries' = [tries EXCEPT ![w] = 1]
    /\ UNCHANGED <<poolVars, todo>>

\* An injected error in an attempt.
AttemptFaults(w) ==
    /\ \E s \in {"load", "put"} : At(w, s)
    /\ Fault
    /\ AttemptFails(w)
    /\ UNCHANGED <<rowVars, blobVars, stored, processVars>>

\* Mutated form of MayClaim: any live row is claimed, whatever its status.
MayClaimAny(p) == p \in live /\ status[p] # "absent"

\* The WHERE clause of ClaimPhoto.
MayClaim(p) == p \in live /\ status[p] \in Unfinished

\* ClaimPhoto: one guarded UPDATE decides whether there is work to do.
Claim(w) ==
    /\ At(w, "claim")
    /\ \/ /\ MayClaim(job[w])
          /\ SetStatus(job[w], "processing")
          /\ Goto(w, "load")
          /\ UNCHANGED <<poolVars, boundVars>>
       \/ /\ ~MayClaim(job[w])
          /\ Finish(w)
          /\ UNCHANGED <<rowVars, boundVars>>
       \/ /\ Fault
          /\ Finish(w)
          /\ UNCHANGED rowVars
    /\ UNCHANGED <<blobVars, stored, processVars>>

\* processOnce reads the row, then the original, and develops it in memory.  A
\* row in the trash is an error like another; what the decoder refuses once it
\* refuses always, so it is not tried again.  The reads are one action because
\* nothing here ever removes an original (module Trash does).
Develop(w) ==
    /\ At(w, "load")
    /\ LET s == ShaOf[job[w]]
           readable == job[w] \in live /\ s \in origs
       IN  \/ ~readable /\ AttemptFails(w)
           \/ readable /\ s \in Broken /\ Goto(w, "fail") /\ UNCHANGED poolVars
           \/ /\ readable
              /\ s \notin Broken
              /\ step' = [step EXCEPT ![w] = "put"]
              /\ todo' = [todo EXCEPT ![w] = Variant]
              /\ UNCHANGED <<poolVars, tries>>
    /\ UNCHANGED <<rowVars, blobVars, stored, processVars, boundVars>>

\* processOnce writes one variant after another.
PutVariant(w) ==
    /\ At(w, "put")
    /\ \E v \in todo[w] :
         /\ variants' = [variants EXCEPT ![ShaOf[job[w]]] = @ \cup {v}]
         /\ todo' = [todo EXCEPT ![w] = @ \ {v}]
    /\ UNCHANGED <<poolVars, rowVars, origs, stored, step, tries, processVars,
                   boundVars>>

\* Mutated form of AllWritten: the row is marked before the last variant.
SomeWritten(w) == todo[w] # Variant

\* The loop over VariantNames is over.
AllWritten(w) == todo[w] = {}

MarkReady(w) ==
    /\ At(w, "put")
    /\ AllWritten(w)
    /\ \/ job[w] \in live /\ SetStatus(job[w], "ready")
       \/ job[w] \notin live /\ UNCHANGED rowVars
    /\ Finish(w)
    /\ UNCHANGED <<blobVars, stored, processVars, boundVars>>

\* MarkPhotoFailed has no condition but the id: a row in the trash fails too.
MarkFailed(w) ==
    /\ At(w, "fail")
    /\ \/ SetStatus(job[w], "failed") /\ UNCHANGED boundVars
       \/ Fault /\ UNCHANGED rowVars
    /\ Finish(w)
    /\ UNCHANGED <<blobVars, stored, processVars>>

\* The reservation is dropped once the handler has returned.
Release(w) ==
    /\ Forget(w)
    /\ UNCHANGED <<rowVars, blobVars, stored, handlerVars, processVars,
                   boundVars>>

WorkerStep(w) ==
    \/ Receive(w)
    \/ Claim(w)
    \/ Develop(w)
    \/ PutVariant(w)
    \/ MarkReady(w)
    \/ AttemptFaults(w)
    \/ MarkFailed(w)
    \/ Release(w)

-----------------------------------------------------------------------------
(* Recovery scans *)

\* Mutated form of Stuck: rows left pending by a refused Enqueue are missed.
StuckProcessing(young) ==
    {p \in live : status[p] = "processing" /\ p \notin young}

\* StuckPhotos: rows in `processing` not written recently, and pending rows.
Stuck(young) ==
    {p \in live : \/ status[p] = "pending"
                  \/ status[p] = "processing" /\ p \notin young}

ScannerIdle == scan = {} /\ stage[Scanner] = "idle"

\* The five-minute tick reads the stuck photos ...
Rescan ==
    /\ phase = "up"
    /\ ScannerIdle
    /\ scan' = Stuck(fresh)
    /\ UNCHANGED <<poolVars, rowVars, blobVars, stored, handlerVars, phase,
                   restarts, boundVars>>

\* ... and enqueues them one by one, from that snapshot.
RescanNext ==
    /\ \E p \in scan :
         /\ Call(Scanner, p)
         /\ scan' = scan \ {p}
    /\ UNCHANGED <<rowVars, blobVars, stored, handlerVars, phase, restarts,
                   boundVars>>

-----------------------------------------------------------------------------
(* The process *)

OnlyPhase(s) ==
    /\ phase' = s
    /\ UNCHANGED <<poolVars, rowVars, blobVars, stored, handlerVars, scan,
                   restarts, boundVars>>

\* The startup scan has enqueued everything: main starts the HTTP server.
Serve == phase = "starting" /\ ScannerIdle /\ OnlyPhase("up")

\* SIGTERM: Shutdown returns, drained or timed out, and Runner.Stop waits for
\* the scan under way.
StopRunner ==
    /\ phase = "up"
    /\ restarts < MaxRestarts
    /\ ScannerIdle
    /\ OnlyPhase("stopped")

\* Pool.Close in its two steps, then its wait and the end of main.
ClosePool ==
    /\ phase = "stopped"
    /\ MarkClosed \/ Seal
    /\ UNCHANGED <<rowVars, blobVars, stored, handlerVars, processVars,
                   boundVars>>

\* Everything the process held in memory is gone.
Die ==
    /\ Restart
    /\ stored' = [c \in Request |-> None]
    /\ step' = [w \in Worker |-> "claim"]
    /\ tries' = [w \in Worker |-> 0]
    /\ todo' = [w \in Worker |-> {}]
    /\ scan' = {}
    /\ phase' = "down"
    /\ restarts' = restarts + 1
    /\ UNCHANGED <<rowVars, blobVars, boundVars>>

Exit == phase = "stopped" /\ Drained /\ Die

Crash == phase # "down" /\ restarts < MaxRestarts /\ Die

\* A new process begins with RecoverStuck(0), for which no row is recent.
\* When its query fails the process starts without it.
Boot ==
    /\ phase = "down"
    /\ phase' = "starting"
    /\ \/ scan' = Stuck({}) /\ UNCHANGED boundVars
       \/ scan' = {} /\ Fault
    /\ UNCHANGED <<poolVars, rowVars, blobVars, stored, handlerVars, restarts>>

\* What the scanner and the process itself do unprompted.
Scanning == Rescan \/ RescanNext
Lifetime == Serve \/ ClosePool \/ Exit \/ Boot

Next ==
    \/ \E c \in Request :
         \/ StoreOriginal(c)
         \/ CreatePhoto(c)
         \/ CreateFails(c)
         \/ \E p \in Photo : Reprocess(c, p)
    \/ \E c \in Caller : EnqueueStep(c)
    \/ \E p \in Photo : EditPhoto(p) \/ Age(p)
    \/ \E w \in Worker : WorkerStep(w)
    \/ Scanning
    \/ Lifetime
    \/ StopRunner
    \/ Crash

\* Goroutines run, time passes and the tick keeps coming; what users do,
\* errors and crashes are never owed.
Fairness ==
    /\ \A c \in Caller : WF_vars(EnqueueStep(c))
    /\ \A w \in Worker : WF_vars(WorkerStep(w))
    /\ WF_vars(\E p \in Photo : Age(p))
    /\ WF_vars(Scanning)
    /\ WF_vars(Lifetime)

Spec == Init /\ [][Next]_vars /\ Fairness

-----------------------------------------------------------------------------
(* Properties *)

\* "Blob first, database last" (design document, line 168): at every moment, and
\* so after a crash at any moment, a row has its original, and a row that is
\* `ready` has every variant the timeline will ask for.
BlobFirst ==
    \A p \in Photo :
        /\ status[p] # "absent" => ShaOf[p] \in origs
        /\ status[p] = "ready" => variants[ShaOf[p]] = Variant

\* A good image never fails through concurrency, queue pressure, shutdowns or
\* crashes alone: it takes a storage error, or a user's delete while it is
\* being developed, to make processOnce fail twice (upload.go:383).
SoundPhotoFailsForCause ==
    \A p \in Photo :
        (status[p] = "failed" /\ ShaOf[p] \notin Broken)
            => (faults > 0 \/ edits > 0)

\* A reservation is always given up: no photo is barred from the queue for
\* the rest of the process's life (worker.go:54).
ReservationsEnd ==
    \A p \in Photo : (p \in inflight) ~> (p \notin inflight)

\* What the owner sees of each row.
Seen(p) == IF status[p] \in Unfinished THEN "developing" ELSE status[p]

Lifecycle == INSTANCE PhotoLifecycle
    WITH state <- [p \in Photo |-> Seen(p)], shown <- live

\* The pipeline implements the life of a photo: in particular no late worker,
\* retry or scan ever takes `ready` back.
LifecycleRefined == Lifecycle!LifeSpec

\* Every photo that was taken in and is not in the trash ends up ready or
\* failed: a refused Enqueue, a full queue, a panic during shutdown, a failed
\* claim or a crash leaves it to a recovery scan (README, note 8).
EveryPhotoSettles == Lifecycle!LifeProgress
=============================================================================
