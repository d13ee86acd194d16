-------------------------- MODULE WorkerPool_proofs --------------------------
(***************************************************************************)
(* The worker pool keeps its promises for any number of photos, workers    *)
(* and callers and any capacity of the channel.                            *)
(*                                                                         *)
(* "No two workers handle one photo" is not inductive: a worker gets its   *)
(* photo from the channel, and the channel gets it from a caller.  The     *)
(* invariant that is follows a reservation through all the places it can   *)
(* be in, and says that it is in exactly one of them.                      *)
(***************************************************************************)
EXTENDS WorkerPool, TLAPS

PoolInv == PoolTypeOK /\ OnePlace /\ InflightExact

-----------------------------------------------------------------------------

\* What Append and Tail do to the entries of a queue of photos.
LEMMA AppendFacts ==
    ASSUME NEW q \in Seq(Photo), NEW p \in Photo
    PROVE  /\ Append(q, p) \in Seq(Photo)
           /\ Len(Append(q, p)) = Len(q) + 1
           /\ \A i \in 1..Len(q) : Append(q, p)[i] = q[i]
           /\ Append(q, p)[Len(q) + 1] = p
  OBVIOUS

LEMMA TailFacts ==
    ASSUME NEW q \in Seq(Photo), q # <<>>
    PROVE  /\ Head(q) = q[1]
           /\ Head(q) \in Photo
           /\ Len(q) \in Nat \ {0}
           /\ Tail(q) \in Seq(Photo)
           /\ Len(Tail(q)) = Len(q) - 1
           /\ \A i \in 1..Len(Tail(q)) : Tail(q)[i] = q[i + 1]
  OBVIOUS

LEMMA PoolInitInv == PoolInit => PoolInv
<1> SUFFICES ASSUME PoolInit PROVE PoolInv
  OBVIOUS
<1>1. /\ queue \in Seq(Photo)
      /\ Len(queue) = 0
  BY DEF PoolInit
<1>2. PoolTypeOK
  <2>1. closed \in BOOLEAN /\ sealed \in BOOLEAN
    BY Zenon DEF PoolInit
  <2>2. /\ stage \in [Caller -> Stage]
        /\ arg \in [Caller -> Photo \cup {None}]
        /\ job \in [Worker -> Photo \cup {None}]
        /\ inflight \subseteq Photo /\ handled \subseteq Worker
    BY DEF PoolInit, Stage
  <2>3. \A c \in Caller : stage[c] = "idle" /\ arg[c] = None
    BY DEF PoolInit
  <2>4. Len(queue) <= QueueCap
    BY <1>1, PoolAssumption
  <2>5. QED
    BY <1>1, <2>1, <2>2, <2>3, <2>4 DEF PoolTypeOK
<1>3. OnePlace
  BY <1>1 DEF PoolInit, OnePlace, Reserving, Offered, Held
<1>4. InflightExact
  BY <1>1, PoolAssumption DEF PoolInit, InflightExact, Reserving, Queued,
     Offered, Held
<1>5. QED
  BY <1>2, <1>3, <1>4 DEF PoolInv

-----------------------------------------------------------------------------
(* The steps of Enqueue *)

LEMMA CallInv ==
    ASSUME PoolInv, NEW c \in Caller, NEW p \in Photo, Call(c, p)
    PROVE  PoolInv'
  BY PoolAssumption DEF PoolInv, PoolTypeOK, OnePlace, InflightExact, Call,
     Stage, Reserving, Queued, Offered, Held

LEMMA RejectInv ==
    ASSUME PoolInv, NEW c \in Caller, Reject(c)
    PROVE  PoolInv'
  BY PoolAssumption DEF PoolInv, PoolTypeOK, OnePlace, InflightExact, Reject,
     Return, Stage, Reserving, Queued, Offered, Held

LEMMA ReserveInv ==
    ASSUME PoolInv, NEW c \in Caller, Reserve(c)
    PROVE  PoolInv'
  BY PoolAssumption DEF PoolInv, PoolTypeOK, OnePlace, InflightExact, Reserve,
     MayReserve, Stage, Reserving, Queued, Offered, Held

\* The photo leaves its caller and becomes the last entry of the queue.
LEMMA SendInv ==
    ASSUME PoolInv, NEW c \in Caller, Send(c)
    PROVE  PoolInv'
<1> DEFINE p == arg[c]
<1>1. /\ p \in Photo
      /\ queue \in Seq(Photo)
      /\ Len(queue) \in Nat
      /\ Len(queue) < QueueCap
      /\ QueueCap \in Nat
  BY PoolAssumption DEF PoolInv, PoolTypeOK, Send, HasRoom
<1>2. /\ queue' \in Seq(Photo)
      /\ Len(queue') = Len(queue) + 1
      /\ \A i \in 1..Len(queue) : queue'[i] = queue[i]
      /\ queue'[Len(queue) + 1] = p
  BY <1>1, AppendFacts DEF Send
<1>3. /\ stage' = [stage EXCEPT ![c] = "idle"]
      /\ arg' = [arg EXCEPT ![c] = None]
      /\ stage[c] = "sending"
  BY DEF Send, Return
<1>4. PoolTypeOK'
  BY <1>1, <1>2, <1>3, PoolAssumption DEF PoolInv, PoolTypeOK, Send, Stage
<1>5. \A q \in Photo : Queued(q)' <=> (Queued(q) \/ q = p)
  BY <1>1, <1>2 DEF Queued
<1>6. \A d \in Caller : d # c => stage'[d] = stage[d] /\ arg'[d] = arg[d]
  BY <1>3 DEF PoolInv, PoolTypeOK
<1>7. stage'[c] = "idle"
  BY <1>3 DEF PoolInv, PoolTypeOK
<1>8. OnePlace'
  <2>1. \A i \in 1..Len(queue) : queue[i] # p
    BY <1>3 DEF PoolInv, OnePlace, Offered, Reserving
  <2>2. \A w \in Worker : job[w] # p
    BY <1>3 DEF PoolInv, OnePlace, Held, Reserving
  <2>3. \A d \in Caller : d # c /\ stage[d] \in Reserving => arg[d] # p
    BY <1>3 DEF PoolInv, OnePlace, Reserving
  <2>4. \A i, j \in 1..Len(queue') : queue'[i] = queue'[j] => i = j
    BY <1>1, <1>2, <2>1 DEF PoolInv, OnePlace
  <2>5. \A i \in 1..Len(queue') :
           i \in 1..Len(queue) \/ i = Len(queue) + 1
    BY <1>1, <1>2
  <2>6. \A i \in 1..Len(queue'), w \in Worker : ~(job[w] = queue'[i])
    BY <1>2, <2>2, <2>5 DEF PoolInv, OnePlace, Held
  <2>7. \A i \in 1..Len(queue'), d \in Caller :
           ~(stage'[d] \in Reserving /\ arg'[d] = queue'[i])
    BY <1>2, <1>6, <1>7, <2>3, <2>5 DEF PoolInv, OnePlace, Offered, Reserving
  <2>8. job' = job
    BY DEF Send
  <2>9. QED
    BY <1>6, <1>7, <2>4, <2>6, <2>7, <2>8
       DEF PoolInv, OnePlace, Offered, Held, Reserving
<1>9. InflightExact'
  BY <1>1, <1>3, <1>5, <1>6, <1>7
     DEF PoolInv, InflightExact, Send, Offered, Held, Reserving
<1>10. QED
  BY <1>4, <1>8, <1>9 DEF PoolInv

LEMMA QueueFullInv ==
    ASSUME PoolInv, NEW c \in Caller, QueueFull(c)
    PROVE  PoolInv'
  BY PoolAssumption DEF PoolInv, PoolTypeOK, OnePlace, InflightExact, QueueFull,
     Stage, Reserving, Queued, Offered, Held

LEMMA SendPanicsInv ==
    ASSUME PoolInv, NEW c \in Caller, SendPanics(c)
    PROVE  PoolInv'
  BY PoolAssumption DEF PoolInv, PoolTypeOK, OnePlace, InflightExact,
     SendPanics, Stage, Reserving, Queued, Offered, Held

LEMMA RollbackInv ==
    ASSUME PoolInv, NEW c \in Caller, Rollback(c)
    PROVE  PoolInv'
  BY PoolAssumption DEF PoolInv, PoolTypeOK, OnePlace, InflightExact, Rollback,
     Withdraw, Return, Stage, Reserving, Queued, Offered, Held

-----------------------------------------------------------------------------
(* The steps of a worker *)

\* The first entry of the queue becomes the worker's job.
LEMMA TakeInv ==
    ASSUME PoolInv, NEW w \in Worker, Take(w)
    PROVE  PoolInv'
<1> DEFINE p == Head(queue)
<1>1. /\ queue \in Seq(Photo)
      /\ queue # <<>>
      /\ job[w] = None
      /\ job' = [job EXCEPT ![w] = p]
      /\ UNCHANGED <<inflight, stage, arg, handled, closed, sealed>>
  BY DEF PoolInv, PoolTypeOK, Take
<1>2. /\ p = queue[1]
      /\ p \in Photo
      /\ Len(queue) \in Nat \ {0}
      /\ queue' \in Seq(Photo)
      /\ Len(queue') = Len(queue) - 1
      /\ \A i \in 1..Len(queue') : queue'[i] = queue[i + 1]
  BY <1>1, TailFacts DEF Take
<1>3. \A i \in 1..Len(queue') : i + 1 \in 1..Len(queue) /\ i + 1 # 1
  BY <1>2
<1>4. 1 \in 1..Len(queue)
  BY <1>2
<1>5. \A i \in 1..Len(queue) : i = 1 \/ i - 1 \in 1..Len(queue')
  BY <1>2
<1>6. job'[w] = p /\ \A v \in Worker : v # w => job'[v] = job[v]
  BY <1>1 DEF PoolInv, PoolTypeOK
<1>7. PoolTypeOK'
  BY <1>1, <1>2, PoolAssumption DEF PoolInv, PoolTypeOK
<1>8. \A q \in Photo : Queued(q) <=> (Queued(q)' \/ q = p)
  <2> SUFFICES ASSUME NEW q \in Photo PROVE Queued(q) <=> (Queued(q)' \/ q = p)
    OBVIOUS
  <2>1. ASSUME NEW i \in 1..Len(queue), queue[i] = q, i # 1
        PROVE  Queued(q)'
    <3>1. i - 1 \in 1..Len(queue') /\ (i - 1) + 1 = i
      BY <1>2, <1>5, <2>1
    <3>2. queue'[i - 1] = q
      BY <1>2, <3>1, <2>1
    <3>3. QED
      BY <3>1, <3>2 DEF Queued
  <2>2. Queued(q)' => Queued(q)
    BY <1>2, <1>3 DEF Queued
  <2>3. QED
    BY <1>2, <1>4, <2>1, <2>2 DEF Queued
<1>9. OnePlace'
  <2>1. \A i, j \in 1..Len(queue') : queue'[i] = queue'[j] => i = j
    <3> SUFFICES ASSUME NEW i \in 1..Len(queue'), NEW j \in 1..Len(queue'),
                        queue'[i] = queue'[j]
                 PROVE  i = j
      OBVIOUS
    <3>1. queue[i + 1] = queue[j + 1]
      BY <1>2
    <3>2. i + 1 = j + 1
      BY <1>3, <3>1 DEF PoolInv, OnePlace
    <3>3. QED
      BY <3>2
  <2>2. \A i \in 1..Len(queue') : queue'[i] # p
    BY <1>2, <1>3, <1>4 DEF PoolInv, OnePlace
  <2>3. \A c \in Caller : ~(stage[c] \in Reserving /\ arg[c] = p)
    BY <1>2, <1>4 DEF PoolInv, OnePlace, Offered
  <2>4. \A v \in Worker : job[v] # p
    BY <1>2, <1>4 DEF PoolInv, OnePlace, Held
  <2>5. \A i \in 1..Len(queue') :
           /\ \A c \in Caller : ~(stage[c] \in Reserving /\ arg[c] = queue'[i])
           /\ \A v \in Worker : job[v] # queue'[i]
    BY <1>2, <1>3 DEF PoolInv, OnePlace, Offered, Held
  <2>6. QED
    BY <1>1, <1>6, <2>1, <2>2, <2>3, <2>4, <2>5
       DEF PoolInv, OnePlace, Offered, Held
<1>10. InflightExact'
  BY <1>1, <1>2, <1>6, <1>8, PoolAssumption
     DEF PoolInv, InflightExact, Offered, Held
<1>11. QED
  BY <1>7, <1>9, <1>10 DEF PoolInv

LEMMA HandlerReturnsInv ==
    ASSUME PoolInv, NEW w \in Worker, HandlerReturns(w)
    PROVE  PoolInv'
  BY PoolAssumption DEF PoolInv, PoolTypeOK, OnePlace, InflightExact,
     HandlerReturns, Stage, Reserving, Queued, Offered, Held

LEMMA ForgetInv ==
    ASSUME PoolInv, NEW w \in Worker, Forget(w)
    PROVE  PoolInv'
  BY PoolAssumption DEF PoolInv, PoolTypeOK, OnePlace, InflightExact, Forget,
     Dropped, Stage, Reserving, Queued, Offered, Held

-----------------------------------------------------------------------------
(* Closing, the end of the process, and all together *)

LEMMA CloseInv ==
    ASSUME PoolInv, MarkClosed \/ Seal
    PROVE  PoolInv'
<1>1. UNCHANGED <<queue, inflight, stage, arg, job, handled>>
  BY DEF MarkClosed, Seal
<1>2. closed' \in BOOLEAN /\ sealed' \in BOOLEAN
  BY Zenon DEF MarkClosed, Seal, PoolInv, PoolTypeOK
<1>3. PoolTypeOK'
  BY <1>1, <1>2 DEF PoolInv, PoolTypeOK
<1>4. OnePlace' /\ InflightExact'
  BY <1>1 DEF PoolInv, OnePlace, InflightExact, Queued, Offered, Held
<1>5. QED
  BY <1>3, <1>4 DEF PoolInv

LEMMA RestartInv == Restart => PoolInv'
<1> SUFFICES ASSUME Restart PROVE PoolInv'
  OBVIOUS
<1>1. /\ queue' \in Seq(Photo)
      /\ Len(queue') = 0
  BY DEF Restart
<1>2. PoolTypeOK'
  <2>1. closed' \in BOOLEAN /\ sealed' \in BOOLEAN
    BY Zenon DEF Restart
  <2>2. /\ stage' \in [Caller -> Stage]
        /\ arg' \in [Caller -> Photo \cup {None}]
        /\ job' \in [Worker -> Photo \cup {None}]
        /\ inflight' \subseteq Photo /\ handled' \subseteq Worker
    BY DEF Restart, Stage
  <2>3. \A c \in Caller : stage'[c] = "idle" /\ arg'[c] = None
    BY DEF Restart
  <2>4. Len(queue') <= QueueCap
    BY <1>1, PoolAssumption
  <2>5. QED
    BY <1>1, <2>1, <2>2, <2>3, <2>4 DEF PoolTypeOK
<1>3. OnePlace'
  BY <1>1 DEF Restart, OnePlace, Reserving, Offered, Held
<1>4. InflightExact'
  BY <1>1, PoolAssumption DEF Restart, InflightExact, Reserving, Queued,
     Offered, Held
<1>5. QED
  BY <1>2, <1>3, <1>4 DEF PoolInv

\* Every step of the pool, and every step that leaves it alone, preserves the
\* invariant.
THEOREM PoolStep == PoolInv /\ [PoolNext]_poolVars => PoolInv'
<1> SUFFICES ASSUME PoolInv, [PoolNext]_poolVars PROVE PoolInv'
  OBVIOUS
<1>1. ASSUME NEW c \in Caller, NEW p \in Photo, Call(c, p) PROVE PoolInv'
  BY <1>1, CallInv
<1>2. ASSUME NEW c \in Caller, Reject(c) PROVE PoolInv'
  BY <1>2, RejectInv
<1>3. ASSUME NEW c \in Caller, Reserve(c) PROVE PoolInv'
  BY <1>3, ReserveInv
<1>4. ASSUME NEW c \in Caller, Send(c) PROVE PoolInv'
  BY <1>4, SendInv
<1>5. ASSUME NEW c \in Caller, QueueFull(c) PROVE PoolInv'
  BY <1>5, QueueFullInv
<1>6. ASSUME NEW c \in Caller, SendPanics(c) PROVE PoolInv'
  BY <1>6, SendPanicsInv
<1>7. ASSUME NEW c \in Caller, Rollback(c) PROVE PoolInv'
  BY <1>7, RollbackInv
<1>8. ASSUME NEW w \in Worker, Take(w) PROVE PoolInv'
  BY <1>8, TakeInv
<1>9. ASSUME NEW w \in Worker, HandlerReturns(w) PROVE PoolInv'
  BY <1>9, HandlerReturnsInv
<1>10. ASSUME NEW w \in Worker, Forget(w) PROVE PoolInv'
  BY <1>10, ForgetInv
<1>11. CASE MarkClosed \/ Seal
  BY <1>11, CloseInv
<1>12. CASE Restart
  BY <1>12, RestartInv
<1>13. CASE UNCHANGED poolVars
  BY <1>13 DEF poolVars, PoolInv, PoolTypeOK, OnePlace, InflightExact, Queued,
     Offered, Held
<1>14. QED
  BY <1>1, <1>2, <1>3, <1>4, <1>5, <1>6, <1>7, <1>8, <1>9, <1>10, <1>11,
     <1>12, <1>13 DEF PoolNext

\* The pool's types, the exactness of `inflight` and the uniqueness of a
\* reservation's place hold in every state of the pool on its own.
THEOREM PoolInvariant == PoolSpec => []PoolInv
<1>1. PoolInit => PoolInv
  BY PoolInitInv
<1>2. PoolInv /\ [PoolNext]_poolVars => PoolInv'
  BY PoolStep
<1>3. QED
  BY <1>1, <1>2, PTL DEF PoolSpec

\* The comment on `inflight`, worker.go:21: no photo is handled twice at a time.
THEOREM PoolHandlesOnce == PoolSpec => []OneHandlerPerPhoto
<1>1. PoolInv => OneHandlerPerPhoto
  BY DEF PoolInv, OnePlace, OneHandlerPerPhoto
<1>2. QED
  BY <1>1, PoolInvariant, PTL

-----------------------------------------------------------------------------
(* What the rest of the server sees *)

Waiting == {p \in Photo : Queued(p)}

Busy == {p \in Photo : \E w \in Worker : Held(w, p)}

\* A step that moves neither channel nor workers is not seen.
LEMMA UnseenStep ==
    ASSUME UNCHANGED <<queue, job>>
    PROVE  UNCHANGED <<Waiting, Busy>>
  BY DEF Waiting, Busy, Queued, Held

\* A photo that is sent waits from then on, and no worker has it.
LEMMA SentWaits ==
    ASSUME PoolInv, NEW c \in Caller, Send(c)
    PROVE  View!Enqueue(arg[c])
<1> DEFINE p == arg[c]
<1>1. /\ p \in Photo /\ queue \in Seq(Photo) /\ Len(queue) \in Nat
      /\ stage[c] \in Reserving /\ job' = job /\ queue' = Append(queue, p)
  BY PoolAssumption DEF PoolInv, PoolTypeOK, Send, Reserving
<1>2. /\ Len(queue') = Len(queue) + 1
      /\ \A i \in 1..Len(queue) : queue'[i] = queue[i]
      /\ queue'[Len(queue) + 1] = p
  BY <1>1, AppendFacts
<1>3. \A q \in Photo : Queued(q)' <=> (Queued(q) \/ q = p)
  BY <1>1, <1>2 DEF Queued
<1>4. Waiting' = Waiting \cup {p}
  BY <1>1, <1>3 DEF Waiting
<1>5. p \notin Busy
  BY <1>1 DEF PoolInv, OnePlace, Busy, Held
<1>6. Busy' = Busy
  BY <1>1 DEF Busy, Held
<1> QED
  BY <1>4, <1>5, <1>6 DEF View!Enqueue, View!Pooled, Waiting, Busy

\* A photo that is taken no longer waits, as it waited in one place only.
LEMMA TakenIsBusy ==
    ASSUME PoolInv, NEW w \in Worker, Take(w)
    PROVE  Head(queue) \in Photo /\ View!Take(Head(queue))
<1> DEFINE p == Head(queue)
<1>1. /\ queue \in Seq(Photo) /\ queue # <<>> /\ queue' = Tail(queue)
      /\ job \in [Worker -> Photo \cup {None}]
      /\ job[w] = None /\ job' = [job EXCEPT ![w] = p]
  BY DEF PoolInv, PoolTypeOK, Take
<1>2. /\ p = queue[1] /\ p \in Photo
      /\ Len(queue) \in Nat \ {0} /\ Len(queue') = Len(queue) - 1
      /\ \A i \in 1..Len(queue') : queue'[i] = queue[i + 1]
  BY <1>1, TailFacts
<1>3. \A i, j \in 1..Len(queue) : queue[i] = queue[j] => i = j
  BY DEF PoolInv, OnePlace
<1>4. \A q \in Photo : Queued(q)' <=> (Queued(q) /\ q # p)
  <2> SUFFICES ASSUME NEW q \in Photo
               PROVE  Queued(q)' <=> (Queued(q) /\ q # p)
    OBVIOUS
  <2>1. ASSUME NEW i \in 1..Len(queue'), queue'[i] = q
        PROVE  Queued(q) /\ q # p
    <3>1. i + 1 \in 1..Len(queue) /\ 1 \in 1..Len(queue) /\ i + 1 # 1
      BY <1>2
    <3>2. queue[i + 1] = q
      BY <1>2, <2>1
    <3> QED
      BY <1>2, <1>3, <3>1, <3>2 DEF Queued
  <2>2. ASSUME NEW i \in 1..Len(queue), queue[i] = q, q # p
        PROVE  Queued(q)'
    <3>1. i - 1 \in 1..Len(queue') /\ (i - 1) + 1 = i
      BY <1>2, <2>2
    <3>2. queue'[i - 1] = q
      BY <1>2, <2>2, <3>1
    <3> QED
      BY <3>1, <3>2 DEF Queued
  <2> QED
    BY <2>1, <2>2 DEF Queued
<1>5. Queued(p)
  BY <1>2 DEF Queued
<1>6. Waiting' = Waiting \ {p} /\ p \in Waiting
  BY <1>2, <1>4, <1>5 DEF Waiting
<1>7. Busy' = Busy \cup {p}
  BY <1>1, <1>2, PoolAssumption DEF Busy, Held
<1> QED
  BY <1>2, <1>6, <1>7 DEF View!Take, Waiting, Busy

\* A photo that is forgotten is no worker's, as no two had it.
LEMMA ForgottenIsFree ==
    ASSUME PoolInv, NEW w \in Worker, Forget(w)
    PROVE  job[w] \in Photo /\ View!Finish(job[w])
<1> DEFINE p == job[w]
<1>1. /\ job \in [Worker -> Photo \cup {None}]
      /\ p \in Photo /\ queue' = queue
      /\ job' = [job EXCEPT ![w] = None]
  BY DEF PoolInv, PoolTypeOK, Forget
<1>2. \A v \in Worker : job[v] = p => v = w
  BY <1>1, PoolAssumption DEF PoolInv, OnePlace
<1>3. Busy' = Busy \ {p} /\ p \in Busy
  BY <1>1, <1>2, PoolAssumption DEF Busy, Held
<1>4. Waiting' = Waiting
  BY <1>1 DEF Waiting, Queued
<1> QED
  BY <1>1, <1>3, <1>4 DEF View!Finish, Waiting, Busy

\* Each step of the pool is a step of its view, or is not seen.
LEMMA ViewStep ==
    ASSUME PoolInv, [PoolNext]_poolVars
    PROVE  [View!PoolNext]_<<Waiting, Busy>>
<1>1. ASSUME NEW c \in Caller, Send(c)
      PROVE  View!PoolNext
  <2>1. arg[c] \in Photo
    BY <1>1 DEF PoolInv, PoolTypeOK, Send
  <2> QED
    BY <1>1, <2>1, SentWaits DEF View!PoolNext
<1>2. ASSUME NEW w \in Worker, Take(w)
      PROVE  View!PoolNext
  BY <1>2, TakenIsBusy DEF View!PoolNext
<1>3. ASSUME NEW w \in Worker, Forget(w)
      PROVE  View!PoolNext
  BY <1>3, ForgottenIsFree DEF View!PoolNext
<1>4. CASE Restart
  <2>1. Waiting' = {} /\ Busy' = {}
    BY <1>4, PoolAssumption DEF Restart, Waiting, Busy, Queued, Held
  <2> QED
    BY <2>1 DEF View!PoolNext, View!Lose, Waiting, Busy
<1>5. CASE \/ \E c \in Caller :
                \/ \E p \in Photo : Call(c, p)
                \/ Reject(c) \/ Reserve(c) \/ QueueFull(c) \/ SendPanics(c)
                \/ Rollback(c)
           \/ \E w \in Worker : HandlerReturns(w)
           \/ MarkClosed \/ Seal \/ UNCHANGED poolVars
  <2>1. UNCHANGED <<queue, job>>
    BY <1>5 DEF Call, Reject, Reserve, QueueFull, SendPanics, Rollback,
       HandlerReturns, MarkClosed, Seal, poolVars
  <2> QED
    BY <2>1, UnseenStep
<1> QED
  BY <1>1, <1>2, <1>3, <1>4, <1>5 DEF PoolNext

\* ... beginning with nothing.
LEMMA ViewInit == PoolInit => View!PoolInit
  BY PoolAssumption DEF PoolInit, View!PoolInit, Queued, Held

\* The pool implements PhotoPool, for any number of photos, workers and
\* callers and any capacity: what DirectUpload takes for granted is so.
THEOREM PoolImplementsView == PoolSpec => PoolRefined
<1>1. PoolInv /\ [PoolNext]_poolVars
         => [View!PoolNext]_View!poolVars
  BY ViewStep DEF View!poolVars, Waiting, Busy
<1> QED
  BY <1>1, ViewInit, PoolInvariant, PTL
     DEF PoolSpec, PoolRefined, View!PoolSpec

=============================================================================
