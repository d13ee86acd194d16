------------------------------ MODULE PhotoPool ------------------------------
(***************************************************************************)
(* Abstract: what the rest of the server may rely on of the worker pool.   *)
(* Photos wait or are worked on, never both; offering one may be in vain,  *)
(* and all is lost with the process.  WorkerPool implements this, channel, *)
(* map and mutex included, and DirectUpload is built on it.                *)
(***************************************************************************)

CONSTANT Photo      \* photo ids

VARIABLES
    queued,     \* photos waiting in the pool
    working     \* photos in the hands of a worker

poolVars == <<queued, working>>

PoolInit ==
    /\ queued = {}
    /\ working = {}

-----------------------------------------------------------------------------

\* Mutated form of Pooled: a photo is queued while a worker has it.
PooledTwice(p) == queued \cup {p}

\* What waits after an Enqueue(p) that found room.
Pooled(p) == IF p \in working THEN queued ELSE queued \cup {p}

\* Enqueue, which says no when the queue is full, the pool closed or the photo
\* not quite released by its last worker.
Enqueue(p) ==
    /\ queued' \in {queued, Pooled(p)}
    /\ UNCHANGED working

\* A worker takes a photo and works on it,
Take(p) ==
    /\ p \in queued
    /\ queued' = queued \ {p}
    /\ working' = working \cup {p}

\* or finds nothing to do.
Skip(p) ==
    /\ p \in queued
    /\ queued' = queued \ {p}
    /\ UNCHANGED working

Finish(p) ==
    /\ p \in working
    /\ working' = working \ {p}
    /\ UNCHANGED queued

\* The process ends.
Lose ==
    /\ queued' = {}
    /\ working' = {}

PoolNext ==
    \/ \E p \in Photo : Enqueue(p) \/ Take(p) \/ Skip(p) \/ Finish(p)
    \/ Lose

PoolSpec == PoolInit /\ [][PoolNext]_poolVars
=============================================================================
