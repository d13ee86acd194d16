----------------------------- MODULE WorkerPool -----------------------------
(***************************************************************************)
(* The in-process worker pool of internal/imgproc/worker.go: a buffered    *)
(* channel of photo ids, a fixed number of worker goroutines, and a map    *)
(* `inflight` that keeps one photo from being handled twice at a time.     *)
(*                                                                         *)
(* Enqueue is not atomic.  It checks `closed` and `inflight` and reserves  *)
(* the photo under the mutex, RELEASES the mutex, and only then tries to   *)
(* send; when the channel is full it takes the mutex again to withdraw the *)
(* reservation.  A worker holds the reservation while its handler runs and *)
(* drops it in a later critical section.  Close marks the pool closed in   *)
(* one critical section and closes the channel after it.  Each critical    *)
(* section and each channel operation is one action here.                  *)
(***************************************************************************)
EXTENDS Naturals, Sequences

CONSTANTS
    Photo,      \* photo ids
    Worker,     \* worker goroutines (SG_WORKERS)
    Caller,     \* goroutines that call Enqueue: requests and the scanner
    QueueCap,   \* capacity of the channel (512 in the code)
    None        \* no photo

ASSUME PoolAssumption ==
    /\ QueueCap \in Nat \ {0}
    /\ None \notin Photo

VARIABLES
    queue,      \* contents of the channel
    inflight,   \* the map that deduplicates
    closed,     \* Pool.closed
    sealed,     \* the channel itself has been closed
    stage,      \* where each caller stands in Enqueue
    arg,        \* the photo that caller is enqueueing
    job,        \* the photo each worker received from the channel
    handled     \* workers whose handler has returned for their job

poolVars == <<queue, inflight, closed, sealed, stage, arg, job, handled>>

Stage == {"idle", "calling", "sending", "rollback", "panicked"}

\* A caller in one of these stages owns the reservation of its photo.
Reserving == {"sending", "rollback", "panicked"}

PoolTypeOK ==
    /\ queue \in Seq(Photo)
    /\ Len(queue) <= QueueCap
    /\ inflight \subseteq Photo
    /\ closed \in BOOLEAN
    /\ sealed \in BOOLEAN
    /\ stage \in [Caller -> Stage]
    /\ arg \in [Caller -> Photo \cup {None}]
    /\ \A c \in Caller : stage[c] = "idle" <=> arg[c] = None
    /\ job \in [Worker -> Photo \cup {None}]
    /\ handled \subseteq Worker

PoolInit ==
    /\ queue = <<>>
    /\ inflight = {}
    /\ closed = FALSE
    /\ sealed = FALSE
    /\ stage = [c \in Caller |-> "idle"]
    /\ arg = [c \in Caller |-> None]
    /\ job = [w \in Worker |-> None]
    /\ handled = {}

-----------------------------------------------------------------------------
(* Enqueue *)

\* Caller c is about to run Enqueue(p).
Call(c, p) ==
    /\ stage[c] = "idle"
    /\ stage' = [stage EXCEPT ![c] = "calling"]
    /\ arg' = [arg EXCEPT ![c] = p]
    /\ UNCHANGED <<queue, inflight, closed, sealed, job, handled>>

\* Enqueue is over for c, whatever it returned.
Return(c) ==
    /\ stage' = [stage EXCEPT ![c] = "idle"]
    /\ arg' = [arg EXCEPT ![c] = None]

\* Mutated form of MayReserve: the in-process deduplication is dropped.
MayReserveTwice(p) == ~closed

\* The condition under which Enqueue goes on to reserve.
MayReserve(p) == ~closed /\ p \notin inflight

\* First critical section, refused: Enqueue returns false.
Reject(c) ==
    /\ stage[c] = "calling"
    /\ ~MayReserve(arg[c])
    /\ Return(c)
    /\ UNCHANGED <<queue, inflight, closed, sealed, job, handled>>

\* First critical section: the photo is reserved.
Reserve(c) ==
    /\ stage[c] = "calling"
    /\ MayReserve(arg[c])
    /\ inflight' = inflight \cup {arg[c]}
    /\ stage' = [stage EXCEPT ![c] = "sending"]
    /\ UNCHANGED <<queue, closed, sealed, arg, job, handled>>

\* Mutated form of HasRoom: off by one.
HasRoomForOneMore == Len(queue) <= QueueCap

\* The channel can take another photo.
HasRoom == Len(queue) < QueueCap

\* The select's send case: Enqueue returns true.
Send(c) ==
    /\ stage[c] = "sending"
    /\ ~sealed
    /\ HasRoom
    /\ queue' = Append(queue, arg[c])
    /\ Return(c)
    /\ UNCHANGED <<inflight, closed, sealed, job, handled>>

\* The select's default case: the channel is full.
QueueFull(c) ==
    /\ stage[c] = "sending"
    /\ ~sealed
    /\ ~HasRoom
    /\ stage' = [stage EXCEPT ![c] = "rollback"]
    /\ UNCHANGED <<queue, inflight, closed, sealed, arg, job, handled>>

\* Close got between the reservation and the send: sending on a closed
\* channel panics in the calling goroutine, default case or not.
SendPanics(c) ==
    /\ stage[c] = "sending"
    /\ sealed
    /\ stage' = [stage EXCEPT ![c] = "panicked"]
    /\ UNCHANGED <<queue, inflight, closed, sealed, arg, job, handled>>

\* Mutated form of Withdraw: a full queue leaves the reservation behind.
WithdrawNothing(c) == inflight

\* What the last critical section of a full-queue Enqueue leaves reserved.
Withdraw(c) == inflight \ {arg[c]}

\* Last critical section of a full-queue Enqueue: returns false.
Rollback(c) ==
    /\ stage[c] = "rollback"
    /\ inflight' = Withdraw(c)
    /\ Return(c)
    /\ UNCHANGED <<queue, closed, sealed, job, handled>>

-----------------------------------------------------------------------------
(* Workers *)

\* A worker receives from the channel, closed or not, until it is empty.
Take(w) ==
    /\ job[w] = None
    /\ queue # <<>>
    /\ job' = [job EXCEPT ![w] = Head(queue)]
    /\ queue' = Tail(queue)
    /\ UNCHANGED <<inflight, closed, sealed, stage, arg, handled>>

\* The handler returns; the reservation is still there.
HandlerReturns(w) ==
    /\ job[w] # None
    /\ w \notin handled
    /\ handled' = handled \cup {w}
    /\ UNCHANGED <<queue, inflight, closed, sealed, stage, arg, job>>

\* Mutated form of Dropped: the handled photo stays in the map.
DroppedNothing(w) == inflight

\* What stays reserved once worker w is done with its photo.
Dropped(w) == inflight \ {job[w]}

\* The worker's critical section after the handler.
Forget(w) ==
    /\ job[w] # None
    /\ w \in handled
    /\ inflight' = Dropped(w)
    /\ job' = [job EXCEPT ![w] = None]
    /\ handled' = handled \ {w}
    /\ UNCHANGED <<queue, closed, sealed, stage, arg>>

-----------------------------------------------------------------------------
(* Close, and the end of the process *)

MarkClosed ==
    /\ ~closed
    /\ closed' = TRUE
    /\ UNCHANGED <<queue, inflight, sealed, stage, arg, job, handled>>

Seal ==
    /\ closed
    /\ ~sealed
    /\ sealed' = TRUE
    /\ UNCHANGED <<queue, inflight, closed, stage, arg, job, handled>>

\* What Close's wg.Wait waits for: every worker has left its range loop.
Drained ==
    /\ sealed
    /\ queue = <<>>
    /\ \A w \in Worker : job[w] = None

\* The process is gone and a new one starts with an empty pool.
Restart ==
    /\ queue' = <<>>
    /\ inflight' = {}
    /\ closed' = FALSE
    /\ sealed' = FALSE
    /\ stage' = [c \in Caller |-> "idle"]
    /\ arg' = [c \in Caller |-> None]
    /\ job' = [w \in Worker |-> None]
    /\ handled' = {}

PoolNext ==
    \/ \E c \in Caller :
         \/ \E p \in Photo : Call(c, p)
         \/ Reject(c)
         \/ Reserve(c)
         \/ Send(c)
         \/ QueueFull(c)
         \/ SendPanics(c)
         \/ Rollback(c)
    \/ \E w \in Worker : Take(w) \/ HandlerReturns(w) \/ Forget(w)
    \/ MarkClosed
    \/ Seal
    \/ Restart

PoolSpec == PoolInit /\ [][PoolNext]_poolVars

-----------------------------------------------------------------------------
(* What the pool promises *)

\* The three places a reserved photo can be.
Queued(p) == \E i \in 1..Len(queue) : queue[i] = p
Offered(c, p) == stage[c] \in Reserving /\ arg[c] = p
Held(w, p) == job[w] = p

\* `inflight` is exact: it holds the photos that wait in the channel, that a
\* caller is about to send or withdraw, or that a worker holds, and no other.
\* A photo left in it by mistake could never be enqueued again before a
\* restart, and one missing from it could be handled twice (worker.go:54).
InflightExact ==
    \A p \in Photo :
        p \in inflight <=>
            \/ Queued(p)
            \/ \E c \in Caller : Offered(c, p)
            \/ \E w \in Worker : Held(w, p)

\* No reserved photo is in two places at once.
OnePlace ==
    /\ \A i, j \in 1..Len(queue) : queue[i] = queue[j] => i = j
    /\ \A c, d \in Caller :
         (stage[c] \in Reserving /\ stage[d] \in Reserving /\ arg[c] = arg[d])
            => c = d
    /\ \A v, w \in Worker : (job[v] = job[w] /\ job[w] # None) => v = w
    /\ \A i \in 1..Len(queue) :
         /\ \A c \in Caller : ~Offered(c, queue[i])
         /\ \A w \in Worker : ~Held(w, queue[i])
    /\ \A c \in Caller, w \in Worker :
         stage[c] \in Reserving => ~Held(w, arg[c])

\* The pool as the rest of the server sees it: what waits in the channel and
\* what workers have.
View == INSTANCE PhotoPool
            WITH queued  <- {p \in Photo : Queued(p)},
                 working <- {p \in Photo : \E w \in Worker : Held(w, p)}

\* Through all its critical sections, the shutdown and panics, the pool does
\* what PhotoPool says: in particular a photo that a worker has is not queued
\* again, and one that waits is not queued twice (worker.go:54).
PoolRefined == View!PoolSpec

\* The comment on `inflight` (worker.go:21): two workers never run the
\* handler for the same photo at the same time.
OneHandlerPerPhoto ==
    \A v, w \in Worker :
        (job[v] # None /\ job[v] = job[w]) => v = w
=============================================================================
