--------------------------- MODULE Import_proofs ---------------------------
(***************************************************************************)
(* Proofs about the command line tool and the limit on its requests: the   *)
(* token bucket, for any burst, rate and unit of time, the runs of an      *)
(* import, its planning and the export; and of all four together.          *)
(*                                                                         *)
(* Both promises of the bucket are about what it holds now, Level, and not *)
(* about the tokens it held when it was last looked at.  Pass and Refuse   *)
(* bring the tokens up to date and change Level by what they take; a tick  *)
(* adds at most one refill to it.                                          *)
(***************************************************************************)
EXTENDS MCImport, FiniteSetTheorems, TLAPS

-----------------------------------------------------------------------------
(* Bucket: arithmetic *)

\* The number of whole y in x, and one more, is enough to cover x.
LEMMA RoundedUpCovers ==
    ASSUME NEW x \in Nat, NEW y \in Nat \ {0}
    PROVE  /\ x \div y \in Nat
           /\ x < (x \div y + 1) * y
<1>1. x = y * (x \div y) + (x % y) /\ x % y \in 0..y - 1
  OBVIOUS
<1>2. x \div y \in Nat
  OBVIOUS
<1> QED
  BY <1>1, <1>2

\* One more of anything.
LEMMA OneMore ==
    ASSUME NEW i \in Int, NEW y \in Int
    PROVE  (i + 1) * y = i * y + y
OBVIOUS

\* Two stretches of time.
LEMMA Stretches ==
    ASSUME NEW i \in Int, NEW j \in Int, NEW k \in Int, NEW y \in Int
    PROVE  (i - j) * y + (j - k) * y = (i - k) * y
OBVIOUS

-----------------------------------------------------------------------------
(* Bucket: types and the level *)

\* The level lies between nothing and the burst.
LEMMA LevelType ==
    ASSUME RateTypeOK
    PROVE  Level \in 0..Full
<1>1. (clock - filled) * Refill \in Nat
  BY RateLimitAssumption DEF RateTypeOK
<1> QED
  BY <1>1, RateLimitAssumption DEF RateTypeOK, Level

\* The advised wait is a number of seconds.
LEMMA WaitType ==
    ASSUME RateTypeOK, Level < Cost
    PROVE  /\ Wait \in Nat
           /\ Cost <= Level + Wait * Second * Refill
<1> DEFINE unit == Refill * Second
           gap == Cost - Level
<1>1. Level \in 0..Full
  BY LevelType
<1>2. unit \in Nat \ {0} /\ gap \in Nat
  BY <1>1, RateLimitAssumption
<1>3. Wait = gap \div unit + 1
  BY DEF Wait
<1> HIDE DEF unit, gap
<1>4. gap \div unit \in Nat /\ gap < (gap \div unit + 1) * unit
  BY <1>2, RoundedUpCovers
<1>5. Wait \in Nat /\ gap < Wait * unit
  BY <1>3, <1>4
<1>6. Wait * unit = Wait * Second * Refill
  BY <1>5, RateLimitAssumption DEF unit
<1>7. Wait * Second * Refill \in Nat
  BY <1>5, RateLimitAssumption
<1> QED
  BY <1>1, <1>5, <1>6, <1>7, RateLimitAssumption DEF gap

THEOREM BucketTypeCorrect == RateSpec => []RateTypeOK
<1>1. RateInit => RateTypeOK
  BY RateLimitAssumption DEF RateInit, RateTypeOK
<1>2. RateTypeOK /\ [RateNext]_rateVars => RateTypeOK'
  <2> SUFFICES ASSUME RateTypeOK, [RateNext]_rateVars
               PROVE  RateTypeOK'
    OBVIOUS
  <2> USE RateLimitAssumption
  <2>1. Level \in 0..Full
    BY LevelType
  <2>2. ASSUME NEW c \in Caller, Pass(c)
        PROVE  RateTypeOK'
    BY <2>1, <2>2 DEF Pass, RateTypeOK
  <2>3. ASSUME NEW c \in Caller, Refuse(c)
        PROVE  RateTypeOK'
    <3>1. Wait \in Nat
      BY <2>3, WaitType DEF Refuse
    <3>2. clock + Wait * Second \in Nat
      BY <3>1 DEF RateTypeOK
    <3>3. advice' \in [Caller -> Nat \cup {None}]
      BY <2>3, <3>2 DEF Refuse, RateTypeOK
    <3> QED
      BY <2>1, <2>3, <3>3 DEF Refuse, RateTypeOK
  <2>4. CASE RateTick
    BY <2>4 DEF RateTick, RateTypeOK
  <2>5. CASE WatchFromNow
    BY <2>5 DEF WatchFromNow, RateTypeOK
  <2>6. CASE UNCHANGED rateVars
    BY <2>6 DEF rateVars, RateTypeOK
  <2> QED
    BY <2>2, <2>3, <2>4, <2>5, <2>6 DEF RateNext
<1> QED
  BY <1>1, <1>2, PTL DEF RateSpec

-----------------------------------------------------------------------------
(* Bucket: the inductive invariant *)

\* What has passed in the interval and what may still pass at once is covered
\* by the burst and by what was refilled in the interval.
Budget ==
    window.passed * Cost + Level <= Full + (clock - window.since) * Refill

\* At the time a caller was told, what is in the bucket and what is refilled
\* until then makes a token.
AdviceCovered ==
    \A c \in Caller : advice[c] # None =>
        Cost <= tokens + (advice[c] - filled) * Refill

RateInv == RateTypeOK /\ Budget /\ AdviceCovered

\* Longer waits refill more.
LEMMA MoreTime ==
    ASSUME NEW i \in Int, NEW j \in Int, i <= j, NEW y \in Nat
    PROVE  i * y <= j * y
<1>1. (j - i) * y \in Nat /\ j * y = i * y + (j - i) * y
  OBVIOUS
<1> QED
  BY <1>1

\* Right after the bucket was brought up to date it holds its tokens.
LEMMA LevelUpToDate ==
    ASSUME RateTypeOK, filled = clock
    PROVE  Level = tokens
<1>1. (clock - filled) * Refill = 0
  BY RateLimitAssumption DEF RateTypeOK
<1> QED
  BY <1>1, RateLimitAssumption DEF RateTypeOK, Level

\* A tick adds one refill at most.
LEMMA LevelOfTick ==
    ASSUME RateTypeOK, RateTick
    PROVE  Level' <= Level + Refill
<1>1. (clock' - filled') * Refill = (clock - filled) * Refill + Refill
  BY RateLimitAssumption, OneMore DEF RateTypeOK, RateTick
<1>2. (clock - filled) * Refill \in Nat
  BY RateLimitAssumption DEF RateTypeOK
<1>3. tokens' = tokens
  BY DEF RateTick
<1> QED
  BY <1>1, <1>2, <1>3, RateLimitAssumption DEF RateTypeOK, Level

LEMMA BudgetKept ==
    ASSUME RateTypeOK, RateTypeOK', Budget, [RateNext]_rateVars
    PROVE  Budget'
<1> DEFINE spent == window.passed * Cost
           earned == (clock - window.since) * Refill
<1>0. spent \in Nat /\ earned \in Nat /\ Level \in 0..Full
  BY RateLimitAssumption, LevelType DEF RateTypeOK
<1>1. ASSUME NEW c \in Caller, Pass(c)
      PROVE  Budget'
  <2>0. /\ clock' = clock /\ filled' = clock
        /\ tokens' = Level - Cost /\ Level - Cost \in 0..Full
    BY <1>0, <1>1, RateLimitAssumption DEF Pass
  <2>1. Level' = Level - Cost
    <3>1. (clock' - filled') * Refill = 0
      BY <2>0, RateLimitAssumption DEF RateTypeOK
    <3> QED
      BY <2>0, <3>1, RateLimitAssumption DEF Level
  <2>2. spent' = spent + Cost
    BY <1>1, OneMore, RateLimitAssumption DEF Pass, RateTypeOK
  <2>3. earned' = earned
    BY <1>1 DEF Pass, RateTypeOK
  <2> HIDE DEF spent, earned
  <2> QED
    BY <1>0, <2>1, <2>2, <2>3, RateLimitAssumption DEF Budget, spent, earned
<1>2. ASSUME NEW c \in Caller, Refuse(c)
      PROVE  Budget'
  <2>0. clock' = clock /\ filled' = clock /\ tokens' = Level
    BY <1>2 DEF Refuse
  <2>1. Level' = Level
    <3>1. (clock' - filled') * Refill = 0
      BY <2>0, RateLimitAssumption DEF RateTypeOK
    <3> QED
      BY <1>0, <2>0, <3>1, RateLimitAssumption DEF Level
  <2> QED
    BY <1>2, <2>1 DEF Refuse, Budget
<1>3. CASE RateTick
  <2>1. Level' <= Level + Refill
    BY <1>3, LevelOfTick
  <2>2. Level' \in 0..Full
    BY RateLimitAssumption, <1>3, LevelType, <1>0
       DEF RateTick, Level, RateTypeOK
  <2>3. spent' = spent
    BY <1>3 DEF RateTick
  <2>4. earned' = earned + Refill
    BY <1>3, OneMore, RateLimitAssumption DEF RateTick, RateTypeOK
  <2> QED
    BY <1>0, <2>1, <2>2, <2>3, <2>4, RateLimitAssumption DEF Budget
<1>4. CASE WatchFromNow
  <2>1. Level' = Level
    BY <1>4 DEF WatchFromNow, Level
  <2>2. spent' = 0 /\ earned' = 0
    BY <1>4, RateLimitAssumption DEF WatchFromNow, RateTypeOK
  <2> QED
    BY <1>0, <2>1, <2>2, RateLimitAssumption DEF Budget
<1>5. CASE UNCHANGED rateVars
  BY <1>5 DEF rateVars, Budget, Level
<1> QED
  BY <1>1, <1>2, <1>3, <1>4, <1>5 DEF RateNext

LEMMA AdviceKept ==
    ASSUME RateTypeOK, AdviceCovered, [RateNext]_rateVars
    PROVE  AdviceCovered'
<1>1. ASSUME NEW c \in Caller, Pass(c)
      PROVE  AdviceCovered'
  BY <1>1 DEF Pass, AdviceCovered
<1>2. ASSUME NEW c \in Caller, Refuse(c)
      PROVE  AdviceCovered'
  <2> SUFFICES ASSUME NEW d \in Caller, advice'[d] # None
               PROVE  Cost <= Level + (advice'[d] - clock) * Refill
    BY <1>2 DEF Refuse, AdviceCovered
  <2>1. CASE d = c
    <3>1. advice'[d] = clock + Wait * Second
      BY <1>2, <2>1 DEF Refuse, RateTypeOK
    <3>2. Wait \in Nat /\ Cost <= Level + Wait * Second * Refill
      BY <1>2, WaitType DEF Refuse
    <3>3. advice'[d] - clock = Wait * Second
      BY <3>1, <3>2, RateLimitAssumption DEF RateTypeOK
    <3> QED
      BY <3>2, <3>3
  <2>2. CASE d # c
    <3>1. advice'[d] = advice[d]
      BY <1>2, <2>2 DEF Refuse, RateTypeOK
    <3>2. advice[d] \in Nat
      BY <3>1 DEF RateTypeOK
    <3>3. Cost <= tokens + (advice[d] - filled) * Refill
      BY <3>1 DEF AdviceCovered
    <3>4. Level = tokens + (clock - filled) * Refill
      BY <1>2, RateLimitAssumption DEF Refuse, Level, RateTypeOK
    <3>5. (clock - filled) * Refill + (advice[d] - clock) * Refill
            = (advice[d] - filled) * Refill
      BY <3>2, RateLimitAssumption DEF RateTypeOK
    <3>6. /\ (clock - filled) * Refill \in Int
          /\ (advice[d] - clock) * Refill \in Int
          /\ (advice[d] - filled) * Refill \in Int
      BY <3>2, RateLimitAssumption DEF RateTypeOK
    <3> QED
      BY <3>1, <3>3, <3>4, <3>5, <3>6, RateLimitAssumption DEF RateTypeOK
  <2> QED
    BY <2>1, <2>2
<1>3. CASE RateTick
  BY <1>3 DEF RateTick, AdviceCovered
<1>4. CASE WatchFromNow
  BY <1>4 DEF WatchFromNow, AdviceCovered
<1>5. CASE UNCHANGED rateVars
  BY <1>5 DEF rateVars, AdviceCovered
<1> QED
  BY <1>1, <1>2, <1>3, <1>4, <1>5 DEF RateNext

\* The inductive invariant of the bucket.
THEOREM BucketInvariant == RateSpec => []RateInv
<1>1. RateInit /\ RateTypeOK => Budget /\ AdviceCovered
  <2> SUFFICES ASSUME RateInit, RateTypeOK
               PROVE  Budget /\ AdviceCovered
    OBVIOUS
  <2>1. Level = Full
    BY LevelUpToDate DEF RateInit
  <2>2. window.passed * Cost = 0 /\ (clock - window.since) * Refill = 0
    BY RateLimitAssumption DEF RateInit
  <2> QED
    BY <2>1, <2>2, RateLimitAssumption DEF RateInit, Budget, AdviceCovered
<1>2. /\ RateTypeOK /\ RateTypeOK' /\ Budget /\ AdviceCovered
      /\ [RateNext]_rateVars
      => Budget' /\ AdviceCovered'
  BY BudgetKept, AdviceKept
<1>3. RateInit => RateTypeOK
  BY RateLimitAssumption DEF RateInit, RateTypeOK
<1>4. RateSpec => []RateTypeOK
  BY BucketTypeCorrect
<1> QED
  BY <1>1, <1>2, <1>3, <1>4, PTL DEF RateSpec, RateInv

-----------------------------------------------------------------------------
(* Bucket: what follows *)

\* No interval sees more requests than the burst and its refill
\* (middleware.go:90-96), for any burst, rate, number of callers and time.
THEOREM BucketWindowBound == RateSpec => []WindowBound
<1>1. RateInv => WindowBound
  <2> SUFFICES ASSUME RateInv
               PROVE  WindowBound
    OBVIOUS
  <2>1. /\ Level \in 0..Full
        /\ window.passed * Cost \in Nat
        /\ (clock - window.since) * Refill \in Nat
    BY LevelType, RateLimitAssumption DEF RateInv, RateTypeOK
  <2> QED
    BY <2>1, RateLimitAssumption DEF RateInv, Budget, WindowBound
<1> QED
  BY <1>1, BucketInvariant, PTL

\* Who waits as told finds a token unless another caller took one since
\* (middleware.go:98).
THEOREM BucketAdviceSuffices == RateSpec => []AdviceSuffices
<1>1. RateInv => AdviceSuffices
  <2> SUFFICES ASSUME RateInv, NEW c \in Caller,
                      advice[c] # None, advice[c] <= clock
               PROVE  Level >= Cost
    BY DEF AdviceSuffices
  <2>1. advice[c] \in Nat
    BY DEF RateInv, RateTypeOK
  <2>2. Cost <= tokens + (advice[c] - filled) * Refill
    BY DEF RateInv, AdviceCovered
  <2>3. (advice[c] - filled) * Refill <= (clock - filled) * Refill
    BY <2>1, MoreTime, RateLimitAssumption DEF RateInv, RateTypeOK
  <2>4. (advice[c] - filled) * Refill \in Int
        /\ (clock - filled) * Refill \in Int
    BY <2>1, RateLimitAssumption DEF RateInv, RateTypeOK
  <2> QED
    BY <2>2, <2>3, <2>4, RateLimitAssumption
       DEF Level, RateInv, RateTypeOK
<1> QED
  BY <1>1, BucketInvariant, PTL
-----------------------------------------------------------------------------
(* Importer: types and the shape of a run *)

\* A nonempty set of small numbers has a lowest member.
LEMMA LowestIsIn ==
    ASSUME NEW n \in Nat, NEW S, S \subseteq 1..n, S # {}
    PROVE  Lowest(S) \in S
<1> DEFINE below(i) == {j \in S : j < i}
<1> DEFINE T == {below(i) : i \in S}
<1>1. IsFiniteSet(S)
  <2>1. IsFiniteSet(1..n)
    BY FS_Interval
  <2>2. S \in SUBSET (1..n)
    OBVIOUS
  <2> QED
    BY <2>1, <2>2, FS_Subset
<1>2. T \subseteq FiniteSubsetsOf(S) /\ T # {}
  <2> SUFFICES ASSUME NEW i \in S
               PROVE  below(i) \in FiniteSubsetsOf(S)
    OBVIOUS
  <2>1. below(i) \in SUBSET S
    OBVIOUS
  <2> HIDE DEF below
  <2> QED
    BY <1>1, <2>1, FS_Subset DEF FiniteSubsetsOf
<1>3. PICK u \in T : \A v \in T : <<v, u>> \notin StrictSubsetOrdering(S)
  <2> HIDE DEF T
  <2> QED
    BY <1>2, FS_StrictSubsetOrderingWellFounded, WFMin
<1>4. PICK i \in S : u = below(i)
  BY <1>3
<1>5. \A j \in S : i <= j
  <2> SUFFICES ASSUME NEW j \in S, j < i
               PROVE  FALSE
    OBVIOUS
  <2>1. below(j) \subseteq below(i) /\ below(j) # below(i)
    <3>1. \A k \in S : k \in Nat
      OBVIOUS
    <3>2. \A k \in S : k < j => k < i
      BY <3>1
    <3>3. j \in below(i) /\ j \notin below(j)
      BY <3>1
    <3> QED
      BY <3>2, <3>3
  <2>2. <<below(j), below(i)>> \in StrictSubsetOrdering(S)
    BY <2>1 DEF StrictSubsetOrdering
  <2> HIDE DEF below
  <2> QED
    BY <1>3, <1>4, <2>2
<1> QED
  BY <1>4, <1>5 DEF Lowest

\* What is assumed of the groups, in the form the proofs use.
LEMMA GroupsAre ==
    \A i \in 1..Len(Groups) :
        /\ Groups[i] \in Seq(File) /\ Len(Groups[i]) \in Nat
        /\ \A a \in 1..Len(Groups[i]) : Groups[i][a] \in File
<1>1. Groups \in Seq(Seq(File))
  BY ImporterAssumption DEF ImporterAssumption
<1>2. \A i \in 1..Len(Groups) : Groups[i] \in Seq(File)
  BY <1>1
<1> QED
  BY <1>2

\* Workers run only while a group is uploaded, each on a file of that group
\* that has no verdict; a file that waits for a worker is there to be taken.
RunShape ==
    /\ run.at = "uploading" =>
          run.group \in 1..Len(Groups) /\ run.node \in NodeId
    /\ \A f \in File : worker[f] # None =>
          run.at = "uploading" /\ f \in InGroup /\ stat[f] = "todo"
    /\ run.queued => run.at = "uploading" /\ Waiting # {}

\* A worker in the last calls of a direct upload has its photo stored.
RowStored ==
    \A f \in File :
        worker[f] # None /\ worker[f].row \in {"kept", "dropped"}
          => Photo(f) \in stored

RealErrors ==
    \A f \in File : worker[f] # None => worker[f].real = worker[f].errors

ShapeInv == ImporterTypeOK /\ RunShape /\ RowStored /\ RealErrors

\* What every step of a worker comes to: it gives a verdict that the stored
\* photos back, or goes on knowing no more than they do.
FileEnds(f) ==
    \E v \in {"uploaded", "skipped", "failed"} :
        /\ Ended(f, v)
        /\ v # "failed" => Photo(f) \in stored'
        /\ v = "uploaded" => Photo(f) \notin stored
                               \/ worker[f].row = "kept"

FileGoesOn(f) ==
    \E w \in Upload :
        /\ worker' = [worker EXCEPT ![f] = w]
        /\ w.real = w.errors
        /\ w.row \in {"kept", "dropped"} => Photo(f) \in stored'
        /\ w.row = "kept" => worker[f].row = "kept" \/ Photo(f) \notin stored
        /\ UNCHANGED <<stat, credited>>

FileStep(f) ==
    /\ worker[f] # None
    /\ FileEnds(f) \/ FileGoesOn(f)
    /\ stored \subseteq stored'
    /\ stored' \subseteq stored \cup {Photo(f)}
    /\ UNCHANGED <<mode, keyOf, late, lost, run, byKey, complete>>

FileAction(f) ==
    \/ PresignOrPutDone(f)
    \/ Answered(f)
    \/ AnsweredAgain(f)
    \/ Refused(f)
    \/ \E d \in Advised : Throttled(f, d)
    \/ \E carried \in BOOLEAN : Errs(f, carried)
    \/ Wake(f)
    \/ CutShort(f)

LEMMA FileActionIsStep ==
    ASSUME ShapeInv, NEW f \in File, FileAction(f)
    PROVE  FileStep(f)
<1> USE DEF ShapeInv
<1>1. worker[f] # None
  BY DEF FileAction, PresignOrPutDone, Answered, AnsweredAgain, Refused,
         Throttled, Errs, Wake, CutShort, Calling
<1>2. worker[f] \in Upload
  BY <1>1 DEF ImporterTypeOK
<1>3. /\ worker[f].real = worker[f].errors
      /\ worker[f].row \in {"kept", "dropped"} => Photo(f) \in stored
  BY <1>1 DEF RealErrors, RowStored
<1>4. {"upload", "presign", "put", "confirm"} = Call
  BY ImporterAssumption DEF Call, ImporterAssumption
<1>5. MaxWait \in Nat /\ Advised \subseteq Nat \ {0}
  BY ImporterAssumption DEF ImporterAssumption
<1>6. CASE PresignOrPutDone(f)
  <2>1. PICK c \in {"put", "confirm"}, r \in {"pending", worker[f].row} :
          Proceed(f, c, r)
    BY <1>6 DEF PresignOrPutDone
  <2> DEFINE w == [call |-> c, step |-> "calling", errors |-> 0,
                   waited |-> 0, real |-> 0, row |-> r]
  <2>2. w \in Upload
    BY <1>2, <1>4, <1>5 DEF Upload
  <2>3. worker' = [worker EXCEPT ![f] = w] /\ UNCHANGED <<stat, credited>>
    BY <2>1 DEF Proceed
  <2>4. UNCHANGED <<mode, keyOf, stored, late, lost, run, byKey, complete>>
    BY <1>6 DEF PresignOrPutDone, server
  <2>5. FileGoesOn(f)
    BY <1>3, <2>2, <2>3, <2>4 DEF FileGoesOn
  <2> QED
    BY <1>1, <2>4, <2>5 DEF FileStep
<1>7. CASE Answered(f)
  <2>1. UNCHANGED <<mode, keyOf, late, lost, run, byKey, complete>>
        /\ stored' = stored \cup {Photo(f)}
    BY <1>7 DEF Answered
  <2>2. CASE Photo(f) \in stored
    <3>1. Ended(f, "skipped")
      BY <1>7, <2>2 DEF Answered, Verdict
    <3>2. FileEnds(f)
      BY <2>1, <3>1 DEF FileEnds
    <3> QED
      BY <1>1, <2>1, <3>2 DEF FileStep
  <2>3. CASE Photo(f) \notin stored
    <3>1. Ended(f, "uploaded")
      BY <1>7, <2>3 DEF Answered, Verdict
    <3>2. FileEnds(f)
      BY <2>1, <2>3, <3>1 DEF FileEnds
    <3> QED
      BY <1>1, <2>1, <3>2 DEF FileStep
  <2> QED
    BY <2>2, <2>3
<1>8. CASE AnsweredAgain(f)
  <2>1. /\ Ended(f, "uploaded") /\ worker[f].row = "kept"
        /\ UNCHANGED <<mode, keyOf, stored, late, lost, run, byKey,
                       complete>>
    BY <1>8 DEF AnsweredAgain, server
  <2>2. FileEnds(f)
    BY <1>3, <2>1 DEF FileEnds
  <2> QED
    BY <1>1, <2>1, <2>2 DEF FileStep
<1>9. ASSUME Ended(f, "failed"),
             UNCHANGED <<mode, keyOf, stored, late, lost, run, byKey,
                         complete>>
      PROVE  FileStep(f)
  <2>1. FileEnds(f)
    BY <1>9 DEF FileEnds
  <2> QED
    BY <1>1, <1>9, <2>1 DEF FileStep
<1>10. CASE Refused(f)
  BY <1>9, <1>10 DEF Refused, Verdict, server
<1>11. ASSUME NEW d \in Advised, Throttled(f, d)
       PROVE  FileStep(f)
  <2>1. UNCHANGED <<mode, keyOf, stored, late, lost, run, byKey, complete>>
    BY <1>11 DEF Throttled, server
  <2>2. CASE worker[f].waited + d > MaxWait
    BY <1>9, <1>11, <2>1, <2>2 DEF Throttled
  <2>3. CASE ~(worker[f].waited + d > MaxWait)
    <3> DEFINE w == AfterPressure(worker[f], d)
    <3>1. worker' = [worker EXCEPT ![f] = w] /\ UNCHANGED <<stat, credited>>
      BY <1>11, <2>3 DEF Throttled
    <3>2. w \in Upload /\ w.real = worker[f].real
          /\ w.errors = worker[f].errors /\ w.row = worker[f].row
      <4>1. worker[f].waited + d \in 0..MaxWait
        BY <1>2, <1>5, <2>3 DEF Upload
      <4>2. w = [worker[f] EXCEPT !.step = "waiting",
                                  !.waited = worker[f].waited + d]
        BY DEF AfterPressure
      <4> HIDE DEF w
      <4> QED
        BY <1>2, <4>1, <4>2 DEF Upload
    <3>3. FileGoesOn(f)
      BY <1>3, <2>1, <3>1, <3>2 DEF FileGoesOn
    <3> QED
      BY <1>1, <2>1, <3>3 DEF FileStep
  <2> QED
    BY <2>2, <2>3
<1>12. ASSUME NEW carried \in BOOLEAN, Errs(f, carried)
       PROVE  FileStep(f)
  <2> DEFINE gone == worker[f].errors + 1 >= Attempts[worker[f].call]
  <2> DEFINE w == [worker[f] EXCEPT !.step = "waiting",
                      !.errors = @ + 1, !.real = @ + 1,
                      !.row = IF carried THEN RowAfter(f) ELSE @]
  <2>1. /\ UNCHANGED <<mode, keyOf, late, lost, run, byKey, complete>>
        /\ stored' = IF carried THEN stored \cup {Photo(f)} ELSE stored
        /\ carried => Commits(f)
        /\ IF gone THEN Ended(f, "failed")
           ELSE /\ worker' = [worker EXCEPT ![f] = w]
                /\ UNCHANGED <<stat, credited>>
    BY <1>12 DEF Errs
  <2>2. stored \subseteq stored' /\ stored' \subseteq stored \cup {Photo(f)}
    BY <2>1
  <2>3. CASE gone
    <3>1. FileEnds(f)
      BY <2>1, <2>3 DEF FileEnds
    <3> QED
      BY <1>1, <2>1, <2>2, <3>1 DEF FileStep
  <2>4. CASE ~gone
    <3>1. /\ w \in Upload /\ w.real = w.errors
          /\ w.row = IF carried THEN RowAfter(f) ELSE worker[f].row
      <4> DEFINE r == IF carried THEN RowAfter(f) ELSE worker[f].row
      <4>1. r \in {"none", "pending", "kept", "dropped"}
        BY <1>2 DEF Upload, RowAfter
      <4>2. w = [worker[f] EXCEPT !.step = "waiting",
                    !.errors = worker[f].errors + 1,
                    !.real = worker[f].real + 1, !.row = r]
        OBVIOUS
      <4> DEFINE e == worker[f].errors + 1
      <4>3. e \in Nat /\ worker[f].real + 1 = e
        BY <1>2, <1>3 DEF Upload
      <4> DEFINE x == [worker[f] EXCEPT !.errors = e, !.real = e]
      <4>4. x \in Upload /\ x.real = x.errors
        <5> HIDE DEF e
        <5> QED
          BY <1>2, <4>3 DEF Upload
      <4>5. w = [x EXCEPT !.step = "waiting", !.row = r]
        <5> HIDE DEF r
        <5> QED
          BY <1>2, <4>2, <4>3 DEF Upload
      <4> HIDE DEF w, r, e, x
      <4>6. w \in Upload /\ w.real = w.errors /\ w.row = r
        BY <4>1, <4>4, <4>5 DEF Upload
      <4> QED
        BY <4>6 DEF r
    <3>2. w.row \in {"kept", "dropped"} => Photo(f) \in stored'
      BY <1>3, <2>1, <3>1
    <3>3. w.row = "kept" => worker[f].row = "kept" \/ Photo(f) \notin stored
      BY <3>1 DEF RowAfter
    <3>4. FileGoesOn(f)
      <4> HIDE DEF w
      <4> QED
        BY <2>1, <2>4, <3>1, <3>2, <3>3 DEF FileGoesOn
    <3> QED
      BY <1>1, <2>1, <2>2, <3>4 DEF FileStep
  <2> QED
    BY <2>3, <2>4
<1>13. CASE Wake(f)
  <2> DEFINE w == [worker[f] EXCEPT !.step = "calling"]
  <2>1. /\ worker' = [worker EXCEPT ![f] = w]
        /\ UNCHANGED <<mode, keyOf, stored, late, lost, run, byKey, stat,
                       credited, complete>>
    BY <1>13 DEF Wake, server
  <2>2. w \in Upload /\ w.real = worker[f].real
        /\ w.errors = worker[f].errors /\ w.row = worker[f].row
    BY <1>2 DEF Upload
  <2>3. FileGoesOn(f)
    BY <1>3, <2>1, <2>2 DEF FileGoesOn
  <2> QED
    BY <1>1, <2>1, <2>3 DEF FileStep
<1>14. CASE CutShort(f)
  BY <1>9, <1>14 DEF CutShort, server
<1> QED
  BY <1>6, <1>7, <1>8, <1>10, <1>11, <1>12, <1>13, <1>14 DEF FileAction

LEMMA FileStepKeepsShape ==
    ASSUME ShapeInv, NEW f \in File, FileStep(f)
    PROVE  ShapeInv'
<1>0. ImporterTypeOK /\ RunShape /\ RowStored /\ RealErrors
  BY DEF ShapeInv
<1>1. /\ worker[f] # None
      /\ stored \subseteq stored' /\ stored' \subseteq stored \cup {Photo(f)}
      /\ UNCHANGED <<mode, keyOf, late, lost, run, byKey, complete>>
  BY DEF FileStep
<1>2. run.at = "uploading" /\ f \in InGroup /\ stat[f] = "todo"
      /\ run.node \in NodeId
  BY <1>0, <1>1 DEF RunShape
<1>3. stored' \subseteq NodeId \X {ContentOf[g] : g \in File}
  BY <1>0, <1>1, <1>2 DEF ImporterTypeOK, Photo
<1>4. \A g \in File : Photo(g)' = Photo(g)
  BY <1>1 DEF Photo
<1>5. /\ worker' \in [File -> Upload \cup {None}]
      /\ \A g \in File \ {f} : worker'[g] = worker[g] /\ stat'[g] = stat[g]
      /\ stat' \in [File -> {"todo", "uploaded", "skipped", "failed"}]
      /\ credited' \subseteq NodeId \X File
      /\ \/ worker'[f] = None
         \/ /\ worker'[f].real = worker'[f].errors
            /\ worker'[f].row \in {"kept", "dropped"} => Photo(f) \in stored'
            /\ stat'[f] = stat[f]
  <2>1. CASE FileEnds(f)
    <3>1. PICK v \in {"uploaded", "skipped", "failed"} : Ended(f, v)
      BY <2>1 DEF FileEnds
    <3>2. /\ worker' = [worker EXCEPT ![f] = None]
          /\ stat' = [stat EXCEPT ![f] = v]
          /\ credited' \subseteq credited \cup {<<run.node, f>>}
      BY <3>1 DEF Ended
    <3> QED
      BY <1>0, <1>2, <3>2 DEF ImporterTypeOK
  <2>2. CASE FileGoesOn(f)
    <3>1. PICK w \in Upload :
            /\ worker' = [worker EXCEPT ![f] = w]
            /\ w.real = w.errors
            /\ w.row \in {"kept", "dropped"} => Photo(f) \in stored'
            /\ UNCHANGED <<stat, credited>>
      BY <2>2 DEF FileGoesOn
    <3> QED
      BY <1>0, <3>1 DEF ImporterTypeOK
  <2> QED
    BY <2>1, <2>2 DEF FileStep
<1>6. ImporterTypeOK'
  BY <1>0, <1>1, <1>3, <1>5 DEF ImporterTypeOK
<1>7. RowStored' /\ RealErrors'
  BY <1>0, <1>1, <1>4, <1>5 DEF RowStored, RealErrors
<1>8. RunShape'
  <2>1. InGroup' = InGroup
    BY <1>1 DEF InGroup
  <2>2. \A g \in File : worker'[g] # None =>
          worker[g] # None /\ stat'[g] = stat[g]
    BY <1>1, <1>5
  <2>3. Waiting \subseteq Waiting'
    <3> SUFFICES ASSUME NEW a \in Waiting
                 PROVE  a \in Waiting'
      OBVIOUS
    <3> DEFINE g == Groups[run.group][a]
    <3>1. /\ a \in 1..Len(Groups[run.group])
          /\ stat[g] = "todo" /\ g \notin Active
      BY DEF Waiting
    <3>2. g \in File
      BY <1>0, <1>2, <3>1, GroupsAre DEF RunShape
    <3>3. g # f
      BY <1>1, <3>1 DEF Active
    <3>4. stat'[g] = "todo" /\ worker'[g] = None
      BY <1>5, <3>1, <3>2, <3>3 DEF Active
    <3> QED
      BY <1>1, <3>1, <3>4 DEF Waiting, Active
  <2> QED
    BY <1>0, <1>1, <2>1, <2>2, <2>3 DEF RunShape
<1> QED
  BY <1>6, <1>7, <1>8 DEF ShapeInv

\* While no group is uploaded, no file has a worker.
LEMMA IdleNoWorker ==
    ASSUME ShapeInv, run.at # "uploading"
    PROVE  worker = [f \in File |-> None] /\ ~run.queued
<1>1. \A f \in File : worker[f] = None
  BY DEF ShapeInv, RunShape
<1>2. worker \in [File -> Upload \cup {None}]
  BY DEF ShapeInv, ImporterTypeOK
<1>3. ~run.queued
  BY DEF ShapeInv, RunShape
<1> QED
  BY <1>1, <1>2, <1>3

\* ... and so nothing but its own shape asks anything of the run.
LEMMA NoWorkerKeepsShape ==
    ASSUME ImporterTypeOK', worker' = [f \in File |-> None],
           ~(run').queued,
           (run').at = "uploading" =>
              (run').group \in 1..Len(Groups) /\ (run').node \in NodeId
    PROVE  ShapeInv'
<1>1. RunShape'
  BY DEF RunShape
<1>2. RowStored' /\ RealErrors'
  BY DEF RowStored, RealErrors
<1> QED
  BY <1>1, <1>2 DEF ShapeInv

\* The file that is taken next is one of the group that waits.
LEMMA NextFileWaits ==
    ASSUME ShapeInv, run.queued
    PROVE  /\ NextFile \in File /\ NextFile \in InGroup
           /\ stat[NextFile] = "todo" /\ worker[NextFile] = None
<1>1. /\ run.group \in 1..Len(Groups) /\ Waiting # {}
  BY DEF ShapeInv, RunShape
<1>2. Groups[run.group] \in Seq(File)
  BY <1>1, GroupsAre
<1>3. Len(Groups[run.group]) \in Nat
      /\ Waiting \subseteq 1..Len(Groups[run.group])
  BY <1>2 DEF Waiting
<1>4. Lowest(Waiting) \in Waiting
  BY <1>1, <1>3, LowestIsIn
<1>5. Lowest(Waiting) \in 1..Len(Groups[run.group])
  BY <1>3, <1>4
<1>6. NextFile \in File /\ NextFile \in InGroup
  BY <1>2, <1>5 DEF NextFile, InGroup
<1>7. stat[NextFile] = "todo" /\ NextFile \notin Active
  BY <1>4 DEF NextFile, Waiting
<1> QED
  BY <1>6, <1>7 DEF Active

\* The next file of the group is given to a worker that knows nothing yet.
LEMMA StartUploadGives ==
    ASSUME ShapeInv, StartUpload
    PROVE  \E w \in Upload :
             /\ worker' = [worker EXCEPT ![NextFile] = w]
             /\ w.row = "none" /\ w.real = w.errors
<1> DEFINE e == IF run.cancelled THEN 1 ELSE 0
<1> DEFINE p == IF run.cancelled THEN "waiting" ELSE "calling"
<1> DEFINE w == [call |-> FirstCall, waited |-> 0, row |-> "none",
                 step |-> p, errors |-> e, real |-> e]
<1>1. FirstCall \in Call
  <2>1. {"upload", "presign", "put", "confirm"} = Call
    BY ImporterAssumption DEF Call, ImporterAssumption
  <2> QED
    BY <2>1 DEF FirstCall
<1>2. e \in Nat /\ p \in {"calling", "waiting"} /\ 0 \in 0..MaxWait
  <2>1. MaxWait \in Nat
    BY ImporterAssumption DEF ImporterAssumption
  <2> QED
    BY <2>1
<1>3. w \in Upload /\ w.row = "none" /\ w.real = w.errors
  <2> HIDE DEF e, p
  <2> QED
    BY <1>1, <1>2 DEF Upload
<1>4. worker' = [worker EXCEPT ![NextFile] = w]
  BY DEF StartUpload
<1> HIDE DEF w
<1> QED
  BY <1>3, <1>4

\* The workers do not notice what leaves them, their group and node alone.
LEMMA AsidesKeepShape ==
    ASSUME ShapeInv, ImporterTypeOK', UNCHANGED <<worker, stat, stored>>,
           (run').at = run.at, (run').group = run.group,
           (run').node = run.node,
           (run').queued => run.at = "uploading" /\ Waiting # {}
    PROVE  ShapeInv'
<1>1. InGroup' = InGroup /\ Waiting' = Waiting
      /\ \A f \in File : Photo(f)' = Photo(f)
  BY DEF InGroup, Waiting, Active, Photo
<1>2. RunShape'
  BY <1>1 DEF ShapeInv, RunShape
<1>3. RowStored' /\ RealErrors'
  BY <1>1 DEF ShapeInv, RowStored, RealErrors
<1> QED
  BY <1>2, <1>3 DEF ShapeInv

\* The keys of the groups, and the lowest node of a set.
LEMMA KeysAndNodes ==
    ASSUME ImporterTypeOK
    PROVE  /\ MoreGroups => GroupsKey \in ImportKey
                              /\ run.group \in 1..Len(Groups)
           /\ \A k \in ImportKey :
                \/ Listed(k) \in NodesWith(k)
                \/ Listed(k) = None /\ NodesWith(k) = {}
           /\ FreeNodes # {} => Lowest(FreeNodes) \in FreeNodes
<1>1. /\ MaxNode \in Nat /\ DOMAIN KeyAt = 1..Len(Groups)
      /\ Groups \in Seq(Seq(File))
  BY ImporterAssumption DEF ImporterAssumption
<1>2. MoreGroups => GroupsKey \in ImportKey
                      /\ run.group \in 1..Len(Groups)
  BY <1>1 DEF ImporterTypeOK, MoreGroups, GroupsKey, ImportKey
<1>3. \A S : S \subseteq NodeId /\ S # {} => Lowest(S) \in S
  BY <1>1, LowestIsIn DEF NodeId
<1>4. \A k : NodesWith(k) \subseteq NodeId
  BY DEF NodesWith
<1>5. FreeNodes \subseteq NodeId
  BY DEF FreeNodes
<1>6. \A k \in ImportKey :
        \/ Listed(k) \in NodesWith(k)
        \/ Listed(k) = None /\ NodesWith(k) = {}
  <2> SUFFICES ASSUME NEW k \in ImportKey
               PROVE  \/ Listed(k) \in NodesWith(k)
                      \/ Listed(k) = None /\ NodesWith(k) = {}
    OBVIOUS
  <2>1. NodesWith(k) \subseteq 1..MaxNode
    BY <1>4 DEF NodeId
  <2>2. CASE NodesWith(k) = {}
    BY <2>2 DEF Listed
  <2>3. CASE NodesWith(k) # {}
    <3>1. Lowest(NodesWith(k)) \in NodesWith(k)
      BY <1>1, <2>1, <2>3, LowestIsIn
    <3>2. Listed(k) = Lowest(NodesWith(k))
      BY <2>3 DEF Listed
    <3> QED
      BY <3>1, <3>2
  <2> QED
    BY <2>2, <2>3
<1> QED
  BY <1>2, <1>3, <1>5, <1>6

THEOREM ImporterShape == ImporterSpec => []ShapeInv
<1>1. ImporterInit => ShapeInv
  <2> SUFFICES ASSUME ImporterInit
               PROVE  ShapeInv
    OBVIOUS
  <2>1. Groups \in Seq(Seq(File))
    BY ImporterAssumption DEF ImporterAssumption
  <2>2. 1 \in 1..(Len(Groups) + 1)
    BY <2>1
  <2>3. ImporterTypeOK
    BY <2>2 DEF ImporterInit, ImporterTypeOK
  <2> QED
    BY <2>3 DEF ImporterInit, ShapeInv, RunShape, RowStored, RealErrors
<1>2. ShapeInv /\ [ImporterNext]_importVars => ShapeInv'
  <2> SUFFICES ASSUME ShapeInv, [ImporterNext]_importVars
               PROVE  ShapeInv'
    OBVIOUS
  <2>0. ImporterTypeOK
    BY DEF ShapeInv
  <2>100. Groups \in Seq(Seq(File)) /\ Len(Groups) \in Nat
    BY ImporterAssumption DEF ImporterAssumption
  <2>1. CASE StartRun
    <3>1. run.at # "uploading"
      BY <2>1 DEF StartRun
    <3>2. ImporterTypeOK'
      BY <2>0, <2>1, <2>100 DEF StartRun, ImporterTypeOK, server
    <3> QED
      BY <2>1, <3>1, <3>2, IdleNoWorker, NoWorkerKeepsShape DEF StartRun
  <2>2. CASE ListNodes
    <3>1. run.at # "uploading"
      BY <2>2 DEF ListNodes
    <3>2. byKey' \in [ImportKey -> NodeId \cup {None}]
      BY <2>0, <2>2, KeysAndNodes DEF ListNodes, NodesWith
    <3>3. ImporterTypeOK'
      BY <2>0, <2>2, <3>2 DEF ListNodes, ImporterTypeOK, server
    <3>4. worker' = worker /\ (run').at = "group"
          /\ (run').queued = run.queued
      BY <2>0, <2>2 DEF ListNodes, ImporterTypeOK
    <3> QED
      BY <3>1, <3>3, <3>4, IdleNoWorker, NoWorkerKeepsShape
  <2>3. CASE ListNodesFails
    <3>1. run.at # "uploading"
      BY <2>3 DEF ListNodesFails
    <3>2. ImporterTypeOK'
      BY <2>0, <2>3 DEF ListNodesFails, ImporterTypeOK, server
    <3>3. worker' = worker /\ (run').at = "idle"
          /\ (run').queued = run.queued
      BY <2>0, <2>3 DEF ListNodesFails, ImporterTypeOK
    <3> QED
      BY <3>1, <3>2, <3>3, IdleNoWorker, NoWorkerKeepsShape
  <2>4. CASE ReuseNode
    <3>1. run.at # "uploading"
      BY <2>4 DEF ReuseNode
    <3>2. byKey[GroupsKey] \in NodeId /\ run.group \in 1..Len(Groups)
      BY <2>0, <2>4, KeysAndNodes DEF ReuseNode, ImporterTypeOK
    <3>3. ImporterTypeOK'
      BY <2>0, <2>4, <3>2 DEF ReuseNode, ImporterTypeOK, server
    <3>4. worker' = worker /\ (run').queued = run.queued
          /\ (run').group = run.group /\ (run').node = byKey[GroupsKey]
      BY <2>0, <2>4 DEF ReuseNode, ImporterTypeOK
    <3> QED
      BY <3>1, <3>2, <3>3, <3>4, IdleNoWorker, NoWorkerKeepsShape
  <2>5. CASE CreateNodeAnswered
    <3> DEFINE n == Lowest(FreeNodes)
    <3>1. run.at # "uploading"
      BY <2>5 DEF CreateNodeAnswered
    <3>2. /\ n \in NodeId /\ run.group \in 1..Len(Groups)
          /\ GroupsKey \in ImportKey /\ Trimmed[GroupsKey] \in StoredKey
      BY <2>0, <2>5, KeysAndNodes
         DEF CreateNodeAnswered, FreeNodes, StoredKey
    <3>3. /\ keyOf' = [keyOf EXCEPT ![n] = Trimmed[GroupsKey]]
          /\ byKey' = [byKey EXCEPT ![GroupsKey] = n]
          /\ run' = [run EXCEPT !.at = "uploading", !.node = n]
          /\ UNCHANGED <<mode, stored, late, lost, worker, stat,
                         credited, complete>>
      BY <2>5 DEF CreateNodeAnswered, Remembered
    <3> HIDE DEF n
    <3>4. ImporterTypeOK'
      BY <2>0, <3>2, <3>3 DEF ImporterTypeOK
    <3>5. worker' = worker /\ (run').queued = run.queued
          /\ (run').group = run.group /\ (run').node = n
      BY <2>0, <3>3 DEF ImporterTypeOK
    <3> QED
      BY <3>1, <3>2, <3>4, <3>5, IdleNoWorker, NoWorkerKeepsShape
  <2>6. CASE CreateNodeRefused \/ CreateNodeLost
    <3>1. run.at = "group"
      BY <2>6 DEF CreateNodeRefused, CreateNodeLost
    <3>2. GroupsKey \in ImportKey /\ run.group \in 1..Len(Groups)
      BY <2>0, <2>6, KeysAndNodes DEF CreateNodeRefused, CreateNodeLost
    <3>3. /\ run' = [run EXCEPT !.group = @ + 1]
          /\ stat' = [f \in File |-> IF f \in InGroup THEN "failed"
                                     ELSE stat[f]]
          /\ UNCHANGED <<mode, stored, byKey, worker, credited,
                         complete, keyOf>>
          /\ \/ UNCHANGED <<late, lost>>
             \/ /\ late' = [late EXCEPT ![GroupsKey] = @ + 1]
                /\ lost' = [lost EXCEPT ![GroupsKey] = @ + 1]
      BY <2>6 DEF CreateNodeRefused, CreateNodeLost, GroupFails
    <3>4. run.group + 1 \in 1..(Len(Groups) + 1)
      BY <2>100, <3>2
    <3>5. ImporterTypeOK'
      <4>1. late' \in [ImportKey -> Nat] /\ lost' \in [ImportKey -> Nat]
        BY <2>0, <3>2, <3>3 DEF ImporterTypeOK
      <4>2. /\ stat' \in [File -> {"todo", "uploaded", "skipped", "failed"}]
            /\ run' = [run EXCEPT !.group = run.group + 1]
        BY <2>0, <3>3 DEF ImporterTypeOK
      <4> QED
        BY <2>0, <3>3, <3>4, <4>1, <4>2 DEF ImporterTypeOK
    <3>6. worker' = worker /\ (run').at = "group"
          /\ (run').queued = run.queued
      BY <2>0, <3>1, <3>3 DEF ImporterTypeOK
    <3> QED
      BY <3>1, <3>5, <3>6, IdleNoWorker, NoWorkerKeepsShape
  <2>7. ASSUME NEW k \in ImportKey, LateNode(k)
        PROVE  ShapeInv'
    <3>1. Lowest(FreeNodes) \in NodeId /\ Trimmed[k] \in StoredKey
      BY <2>0, <2>7, KeysAndNodes DEF LateNode, FreeNodes, StoredKey
    <3>2. late[k] - 1 \in Nat
      BY <2>0, <2>7 DEF LateNode, ImporterTypeOK
    <3>3. /\ late' = [late EXCEPT ![k] = late[k] - 1]
          /\ keyOf' = [keyOf EXCEPT ![Lowest(FreeNodes)] = Trimmed[k]]
          /\ UNCHANGED <<mode, stored, run, byKey, worker, stat, lost,
                         credited, complete>>
      BY <2>7 DEF LateNode
    <3>4. ImporterTypeOK'
      BY <2>0, <3>1, <3>2, <3>3 DEF ImporterTypeOK
    <3> QED
      BY <3>3, <3>4, AsidesKeepShape DEF ShapeInv, RunShape
  <2>8. CASE ReturnResult
    <3>1. run.at # "uploading"
      BY <2>8 DEF ReturnResult
    <3>2. ImporterTypeOK'
      BY <2>0, <2>8 DEF ReturnResult, ImporterTypeOK, server
    <3>3. worker' = worker /\ (run').at = "idle"
          /\ (run').queued = run.queued
      BY <2>0, <2>8 DEF ReturnResult, ImporterTypeOK
    <3> QED
      BY <3>1, <3>2, <3>3, IdleNoWorker, NoWorkerKeepsShape
  <2>9. CASE QueueFile
    <3>1. ImporterTypeOK'
      BY <2>0, <2>9 DEF QueueFile, ImporterTypeOK, server
    <3>2. /\ run.at = "uploading" /\ Waiting # {}
          /\ run' = [run EXCEPT !.queued = TRUE]
          /\ UNCHANGED <<worker, stat, stored>>
      BY <2>9 DEF QueueFile, server
    <3>3. (run').at = run.at /\ (run').group = run.group
          /\ (run').node = run.node
      BY <2>0, <3>2 DEF ImporterTypeOK
    <3> QED
      BY <3>1, <3>2, <3>3, AsidesKeepShape
  <2>10. CASE StartUpload
    <3>1. PICK w \in Upload :
            /\ worker' = [worker EXCEPT ![NextFile] = w]
            /\ w.row = "none" /\ w.real = w.errors
      BY <2>10, StartUploadGives
    <3>2. /\ NextFile \in File /\ NextFile \in InGroup
          /\ stat[NextFile] = "todo"
      BY <2>10, NextFileWaits DEF StartUpload
    <3>3. /\ run' = [run EXCEPT !.queued = FALSE]
          /\ run.at = "uploading"
          /\ UNCHANGED <<mode, keyOf, stored, late, lost, byKey, stat,
                         credited, complete>>
      BY <2>10 DEF StartUpload, server
    <3>4. ImporterTypeOK'
      BY <2>0, <3>1, <3>3 DEF ImporterTypeOK
    <3>5. /\ (run').at = run.at /\ (run').group = run.group
          /\ (run').node = run.node /\ ~(run').queued
      BY <2>0, <3>3 DEF ImporterTypeOK
    <3>6. InGroup' = InGroup /\ \A f \in File : Photo(f)' = Photo(f)
      BY <3>5 DEF InGroup, Photo
    <3>7. /\ \A f \in File \ {NextFile} : worker'[f] = worker[f]
          /\ worker'[NextFile] = w
      BY <2>0, <3>1, <3>2 DEF ImporterTypeOK
    <3>8. RunShape'
      BY <3>2, <3>3, <3>5, <3>6, <3>7 DEF ShapeInv, RunShape
    <3>9. RowStored' /\ RealErrors'
      BY <3>1, <3>3, <3>6, <3>7 DEF ShapeInv, RowStored, RealErrors
    <3> QED
      BY <3>4, <3>8, <3>9 DEF ShapeInv
  <2>11. CASE GroupDone
    <3>1. /\ run.at = "uploading" /\ ~run.queued /\ Active = {}
          /\ UNCHANGED <<mode, keyOf, stored, late, lost, byKey, worker,
                         stat, credited, complete>>
          /\ \/ run' = [run EXCEPT !.at = "idle"]
             \/ run' = [run EXCEPT !.at = "group", !.group = @ + 1]
      BY <2>11 DEF GroupDone, server
    <3>2. run.group + 1 \in 1..(Len(Groups) + 1)
      BY <2>100, <3>1 DEF ShapeInv, RunShape
    <3>3. ImporterTypeOK'
      BY <2>0, <3>1, <3>2 DEF ImporterTypeOK
    <3>4. worker' = [f \in File |-> None]
      BY <2>0, <3>1 DEF Active, ImporterTypeOK
    <3>5. (run').at # "uploading" /\ ~(run').queued
      BY <2>0, <3>1 DEF ImporterTypeOK
    <3> QED
      BY <3>3, <3>4, <3>5, NoWorkerKeepsShape
  <2>12. ASSUME NEW f \in File, FileAction(f)
         PROVE  ShapeInv'
    BY <2>12, FileActionIsStep, FileStepKeepsShape
  <2>13. CASE Cancel
    <3>1. ImporterTypeOK'
      BY <2>0, <2>13 DEF Cancel, ImporterTypeOK, server
    <3>2. /\ run' = [run EXCEPT !.cancelled = TRUE]
          /\ UNCHANGED <<worker, stat, stored>>
      BY <2>13 DEF Cancel, server
    <3>3. (run').at = run.at /\ (run').group = run.group
          /\ (run').node = run.node /\ (run').queued = run.queued
      BY <2>0, <3>2 DEF ImporterTypeOK
    <3> QED
      BY <3>1, <3>2, <3>3, AsidesKeepShape DEF ShapeInv, RunShape
  <2>14. CASE Killed
    <3>1. ImporterTypeOK'
      BY <2>0, <2>14 DEF Killed, ImporterTypeOK, server
    <3>2. /\ worker' = [f \in File |-> None]
          /\ (run').at = "idle" /\ ~(run').queued
      BY <2>0, <2>14 DEF Killed, ImporterTypeOK
    <3> QED
      BY <3>1, <3>2, NoWorkerKeepsShape
  <2>15. CASE UNCHANGED importVars
    <3>1. UNCHANGED <<mode, keyOf, stored, late, run, byKey, worker, stat,
                      lost, credited, complete>>
      BY <2>15 DEF importVars
    <3>2. ImporterTypeOK'
      BY <2>0, <3>1 DEF ImporterTypeOK
    <3> QED
      BY <3>1, <3>2, AsidesKeepShape DEF ShapeInv, RunShape
  <2> QED
    BY <2>1, <2>2, <2>3, <2>4, <2>5, <2>6, <2>7, <2>8, <2>9, <2>10, <2>11,
       <2>12, <2>13, <2>14, <2>15
       DEF ImporterNext, FileAction
<1> QED
  BY <1>1, <1>2, PTL DEF ImporterSpec

\* Type correctness of the importer.
THEOREM ImporterTypeCorrect == ImporterSpec => []ImporterTypeOK
<1>1. ShapeInv => ImporterTypeOK
  BY DEF ShapeInv
<1> QED
  BY <1>1, ImporterShape, PTL

-----------------------------------------------------------------------------
(* Importer: what is counted, and why a file fails *)

\* Only workers store photos and only they count files.
LEMMA OthersStoreNothing ==
    ASSUME [ImporterNext]_importVars
    PROVE  \/ \E f \in File : FileAction(f)
           \/ UNCHANGED <<stored, credited>>
BY DEF ImporterNext, FileAction, importVars, server, StartRun, ListNodes,
       ListNodesFails, ReuseNode, CreateNodeAnswered, CreateNodeRefused,
       CreateNodeLost, GroupFails, LateNode, ReturnResult, QueueFile,
       StartUpload, GroupDone, Cancel, Killed

\* For any files, groups, budgets, lost answers and restarts: what any run
\* has counted as uploaded or as already there is stored.
THEOREM ImporterCountedIsStored == ImporterSpec => []CountedIsStored
<1>1. ImporterInit => CountedIsStored
  BY DEF ImporterInit, CountedIsStored
<1>2. ShapeInv /\ CountedIsStored /\ [ImporterNext]_importVars
        => CountedIsStored'
  <2> SUFFICES ASSUME ShapeInv, CountedIsStored, [ImporterNext]_importVars
               PROVE  CountedIsStored'
    OBVIOUS
  <2>1. CASE UNCHANGED <<stored, credited>>
    BY <2>1 DEF CountedIsStored
  <2>2. ASSUME NEW f \in File, FileAction(f)
        PROVE  CountedIsStored'
    <3>1. FileStep(f)
      BY <2>2, FileActionIsStep
    <3>2. stored \subseteq stored'
      BY <3>1 DEF FileStep
    <3>3. CASE FileEnds(f)
      <4>1. PICK v \in {"uploaded", "skipped", "failed"} :
              Ended(f, v) /\ (v # "failed" => Photo(f) \in stored')
        BY <3>3 DEF FileEnds
      <4>2. CASE v = "failed"
        BY <3>2, <4>1, <4>2 DEF Ended, CountedIsStored
      <4>3. CASE v # "failed"
        <5>1. credited' = credited \cup {<<run.node, f>>}
          BY <4>1, <4>3 DEF Ended
        <5>2. <<run.node, ContentOf[f]>> \in stored'
          BY <4>1, <4>3 DEF Photo
        <5> QED
          BY <3>2, <5>1, <5>2 DEF CountedIsStored
      <4> QED
        BY <4>2, <4>3
    <3>4. CASE FileGoesOn(f)
      BY <3>2, <3>4 DEF FileGoesOn, CountedIsStored
    <3> QED
      BY <3>1, <3>3, <3>4 DEF FileStep
  <2> QED
    BY <2>1, <2>2, OthersStoreNothing
<1> QED
  BY <1>1, <1>2, ImporterShape, PTL DEF ImporterSpec

\* For any budgets and limits: a file fails only for cause, and pressure from
\* the server alone never uses up the budget of errors.
THEOREM ImporterFailsForCause == ImporterSpec => FailsForCause
<1>1. ShapeInv /\ [ImporterNext]_importVars =>
        [\A f \in File :
           (worker[f] # None /\ worker'[f] = None /\ stat'[f] = "failed")
             => \/ Refused(f)
                \/ run.cancelled
                \/ worker[f].real + 1 >= Attempts[worker[f].call]
                \/ \E d \in Advised :
                      worker[f].waited + d > MaxWait /\ Throttled(f, d)
        ]_importVars
  <2> SUFFICES ASSUME ShapeInv, ImporterNext, NEW f \in File,
                      worker[f] # None, worker'[f] = None,
                      stat'[f] = "failed", ~run.cancelled
               PROVE  \/ Refused(f)
                      \/ worker[f].real + 1 >= Attempts[worker[f].call]
                      \/ \E d \in Advised :
                            worker[f].waited + d > MaxWait
                              /\ Throttled(f, d)
    OBVIOUS
  <2>1. /\ run.at = "uploading" /\ stat[f] = "todo"
        /\ worker[f].real = worker[f].errors
    BY DEF ShapeInv, RunShape, RealErrors
  <2>2. stat' # stat
    BY <2>1
  <2>3. PICK g \in File : FileAction(g)
    BY <2>1, <2>2
       DEF ImporterNext, FileAction, StartRun, ListNodes, ListNodesFails,
           ReuseNode, CreateNodeAnswered, CreateNodeRefused, CreateNodeLost,
           LateNode, ReturnResult, QueueFile, StartUpload, GroupDone,
           Cancel, Killed
  <2>4. g = f
    <3> SUFFICES ASSUME g # f
                 PROVE  FALSE
      OBVIOUS
    <3>1. FileStep(g)
      BY <2>3, FileActionIsStep
    <3>2. stat'[f] = stat[f]
      BY <3>1 DEF FileStep, FileEnds, FileGoesOn, Ended, ShapeInv,
                  ImporterTypeOK
    <3> QED
      BY <2>1, <3>2
  <2>5. \A v \in {"uploaded", "skipped"} : ~Ended(f, v)
    BY DEF Ended, ShapeInv, ImporterTypeOK
  <2>6. ~Answered(f) /\ ~AnsweredAgain(f)
    BY <2>5 DEF Answered, AnsweredAgain, Verdict
  <2>7. ~PresignOrPutDone(f) /\ ~Wake(f) /\ ~CutShort(f)
    BY <2>2 DEF PresignOrPutDone, Proceed, Wake, CutShort
  <2>8. CASE Refused(f)
    BY <2>8
  <2>9. ASSUME NEW d \in Advised, Throttled(f, d)
        PROVE  worker[f].waited + d > MaxWait
    BY <2>2, <2>9 DEF Throttled
  <2>10. ASSUME NEW carried \in BOOLEAN, Errs(f, carried)
         PROVE  worker[f].real + 1 >= Attempts[worker[f].call]
    BY <2>1, <2>2, <2>10 DEF Errs
  <2> QED
    BY <2>3, <2>4, <2>6, <2>7, <2>8, <2>9, <2>10 DEF FileAction
<1> QED
  BY <1>1, ImporterShape, PTL DEF ImporterSpec, FailsForCause

-----------------------------------------------------------------------------
(* Importer: how many nodes a key gets *)

\* A key that is kept as planned has the nodes whose answers were lost and
\* that were made all the same, and one whose answer came; a run that has none
\* for the key in hand knows that no answer ever came.
Counted(k) ==
    /\ late[k] <= lost[k]
    /\ Cardinality(NodesWith(k)) + late[k] \in {lost[k], lost[k] + 1}
    /\ run.at \in {"group", "uploading"} /\ byKey[k] = None
         => Cardinality(NodesWith(k)) + late[k] = lost[k]

NodeCount == \A k \in ImportKey : Kept(k) => Counted(k)

LEMMA NodesAreFinite ==
    \A k : /\ NodesWith(k) \in SUBSET NodeId /\ IsFiniteSet(NodesWith(k))
           /\ Cardinality(NodesWith(k)) \in Nat
<1> TAKE k
<1>1. NodesWith(k) \in SUBSET NodeId
  BY DEF NodesWith
<1>2. IsFiniteSet(NodeId)
  <2>1. MaxNode \in Nat
    BY ImporterAssumption DEF ImporterAssumption
  <2> QED
    BY <2>1, FS_Interval DEF NodeId
<1> QED
  BY <1>1, <1>2, FS_Subset, FS_CardinalityType

\* A new node is one more for the kept key that it is made for, and none for
\* any other kept key: the server makes those of nothing else.
LEMMA OneMoreNode ==
    ASSUME ImporterTypeOK, NEW j \in ImportKey, FreeNodes # {},
           Trimmed[j] # None,
           keyOf' = [keyOf EXCEPT ![Lowest(FreeNodes)] = Trimmed[j]]
    PROVE  \A k \in ImportKey : Kept(k) =>
              IF k = j
              THEN Cardinality(NodesWith(k)') = Cardinality(NodesWith(k)) + 1
              ELSE NodesWith(k)' = NodesWith(k)
<1> DEFINE n == Lowest(FreeNodes)
<1>1. n \in NodeId /\ keyOf[n] = None
  BY KeysAndNodes DEF FreeNodes
<1>2. None \notin ImportKey
  BY ImporterAssumption DEF ImporterAssumption, ImportKey
<1>3. keyOf \in [NodeId -> StoredKey \cup {None}]
  BY DEF ImporterTypeOK
<1> HIDE DEF n
<1>4. keyOf' = [keyOf EXCEPT ![n] = Trimmed[j]]
  BY DEF n
<1> TAKE k \in ImportKey
<1> HAVE Kept(k)
<1>5. k # None /\ (Trimmed[j] = k <=> j = k)
  BY <1>2 DEF Kept
<1>6. CASE k = j
  <2>1. NodesWith(k)' = NodesWith(k) \cup {n} /\ n \notin NodesWith(k)
    BY <1>1, <1>3, <1>4, <1>5, <1>6 DEF NodesWith
  <2>2. Cardinality(NodesWith(k) \cup {n}) = Cardinality(NodesWith(k)) + 1
    BY <2>1, NodesAreFinite, FS_AddElement
  <2> QED
    BY <1>6, <2>1, <2>2
<1>7. CASE k # j
  BY <1>1, <1>3, <1>4, <1>5, <1>7 DEF NodesWith
<1> QED
  BY <1>6, <1>7

\* For any groups, runs, kills and losses, and whatever the server trims: a
\* key that it keeps as planned has one node, and one more at most for each
\* lost answer.
THEOREM ImporterNodes == ImporterSpec => [](NodeCount /\ NoNeedlessNode)
<1>1. ImporterInit => NodeCount
  <2> SUFFICES ASSUME ImporterInit, NEW k \in ImportKey
               PROVE  /\ late[k] = 0 /\ lost[k] = 0
                      /\ Cardinality(NodesWith(k)) = 0
    BY DEF NodeCount, Counted
  <2>1. None \notin ImportKey
    BY ImporterAssumption DEF ImporterAssumption, ImportKey
  <2>2. NodesWith(k) = {}
    BY <2>1 DEF ImporterInit, NodesWith
  <2> QED
    BY <2>2, FS_EmptySet DEF ImporterInit
<1>2. ImporterTypeOK /\ NodeCount /\ [ImporterNext]_importVars => NodeCount'
  <2> SUFFICES ASSUME ImporterTypeOK, NodeCount, [ImporterNext]_importVars
               PROVE  NodeCount'
    OBVIOUS
  <2>0. \A k \in ImportKey : late[k] \in Nat /\ lost[k] \in Nat
    BY DEF ImporterTypeOK
  <2>1. ASSUME UNCHANGED <<keyOf, late, lost>>,
               \/ (run').at \notin {"group", "uploading"}
               \/ run.at \in {"group", "uploading"} /\ byKey' = byKey
        PROVE  NodeCount'
    <3>1. \A k : NodesWith(k)' = NodesWith(k)
      BY <2>1 DEF NodesWith
    <3> QED
      BY <2>1, <3>1 DEF NodeCount, Counted
  <2>2. CASE ListNodes
    <3>1. UNCHANGED <<keyOf, late, lost>>
          /\ byKey' = [k \in ImportKey |-> Listed(k)]
      BY <2>2 DEF ListNodes, server
    <3>2. \A k : NodesWith(k)' = NodesWith(k)
      BY <3>1 DEF NodesWith
    <3>3. None \notin NodeId
      BY ImporterAssumption DEF ImporterAssumption, NodeId
    <3>4. ASSUME NEW k \in ImportKey, Kept(k), byKey'[k] = None
          PROVE  Cardinality(NodesWith(k)) + late[k] = lost[k]
      <4>1. NodesWith(k) = {}
        BY <3>1, <3>3, <3>4, KeysAndNodes DEF NodesWith
      <4>2. Cardinality(NodesWith(k)) = 0
        BY <4>1, FS_EmptySet
      <4> QED
        BY <2>0, <3>4, <4>2 DEF NodeCount, Counted
    <3> QED
      BY <3>1, <3>2, <3>4 DEF NodeCount, Counted
  <2>3. CASE CreateNodeAnswered
    <3>0. PICK j \in ImportKey : j = GroupsKey
      BY <2>3, KeysAndNodes DEF CreateNodeAnswered
    <3>1. /\ run.at = "group" /\ byKey[j] = None
          /\ FreeNodes # {} /\ Trimmed[j] # None
          /\ keyOf' = [keyOf EXCEPT ![Lowest(FreeNodes)] = Trimmed[j]]
          /\ byKey' = [byKey EXCEPT ![j] = Lowest(FreeNodes)]
          /\ UNCHANGED <<late, lost>>
      BY <2>3, <3>0 DEF CreateNodeAnswered, Remembered
    <3>2. \A k \in ImportKey : Kept(k) =>
             IF k = j
             THEN Cardinality(NodesWith(k)') = Cardinality(NodesWith(k)) + 1
             ELSE NodesWith(k)' = NodesWith(k)
      BY <3>1, OneMoreNode
    <3>3. byKey'[j] # None /\ \A l \in ImportKey \ {j} : byKey'[l] = byKey[l]
      <4>1. Lowest(FreeNodes) \in NodeId
        BY <3>1, KeysAndNodes DEF FreeNodes
      <4>2. None \notin NodeId
        BY ImporterAssumption DEF ImporterAssumption, NodeId
      <4> QED
        BY <3>1, <4>1, <4>2 DEF ImporterTypeOK
    <3> SUFFICES ASSUME NEW k \in ImportKey, Kept(k)
                 PROVE  /\ late[k] <= lost[k]
                        /\ Cardinality(NodesWith(k)') + late[k]
                             \in {lost[k], lost[k] + 1}
                        /\ byKey'[k] = None =>
                             Cardinality(NodesWith(k)') + late[k] = lost[k]
      BY <3>1 DEF NodeCount, Counted
    <3>4. /\ late[k] <= lost[k]
          /\ Cardinality(NodesWith(k)) + late[k] \in {lost[k], lost[k] + 1}
          /\ byKey[k] = None =>
               Cardinality(NodesWith(k)) + late[k] = lost[k]
      BY <3>1 DEF NodeCount, Counted
    <3>5. CASE k = j
      BY <2>0, <3>1, <3>2, <3>3, <3>4, <3>5, NodesAreFinite
    <3>6. CASE k # j
      BY <3>2, <3>3, <3>4, <3>6
    <3> QED
      BY <3>5, <3>6
  <2>4. CASE CreateNodeLost
    <3> DEFINE j == GroupsKey
    <3>1. /\ run.at = "group" /\ j \in ImportKey
          /\ late' = [late EXCEPT ![j] = @ + 1]
          /\ lost' = [lost EXCEPT ![j] = @ + 1]
          /\ UNCHANGED <<keyOf, byKey>>
      BY <2>4, KeysAndNodes DEF CreateNodeLost, GroupFails
    <3>2. \A k : NodesWith(k)' = NodesWith(k)
      BY <3>1 DEF NodesWith
    <3> HIDE DEF j
    <3>3. /\ late'[j] = late[j] + 1 /\ lost'[j] = lost[j] + 1
          /\ \A k \in ImportKey \ {j} : late'[k] = late[k]
                                          /\ lost'[k] = lost[k]
      BY <3>1 DEF ImporterTypeOK
    <3> SUFFICES ASSUME NEW k \in ImportKey, Kept(k)
                 PROVE  /\ late'[k] <= lost'[k]
                        /\ Cardinality(NodesWith(k)) + late'[k]
                             \in {lost'[k], lost'[k] + 1}
                        /\ byKey[k] = None =>
                             Cardinality(NodesWith(k)) + late'[k] = lost'[k]
      BY <3>1, <3>2 DEF NodeCount, Counted
    <3>4. /\ late[k] <= lost[k]
          /\ Cardinality(NodesWith(k)) + late[k] \in {lost[k], lost[k] + 1}
          /\ byKey[k] = None =>
               Cardinality(NodesWith(k)) + late[k] = lost[k]
      BY <3>1 DEF NodeCount, Counted
    <3>5. CASE k = j
      BY <2>0, <3>3, <3>4, <3>5, NodesAreFinite
    <3>6. CASE k # j
      BY <3>3, <3>4, <3>6
    <3> QED
      BY <3>5, <3>6
  <2>5. ASSUME NEW j \in ImportKey, LateNode(j)
        PROVE  NodeCount'
    <3>1. /\ late[j] > 0 /\ FreeNodes # {} /\ Trimmed[j] # None
          /\ late' = [late EXCEPT ![j] = @ - 1]
          /\ keyOf' = [keyOf EXCEPT ![Lowest(FreeNodes)] = Trimmed[j]]
          /\ UNCHANGED <<run, byKey, lost>>
      BY <2>5 DEF LateNode
    <3>2. \A k \in ImportKey : Kept(k) =>
             IF k = j
             THEN Cardinality(NodesWith(k)') = Cardinality(NodesWith(k)) + 1
             ELSE NodesWith(k)' = NodesWith(k)
      BY <3>1, OneMoreNode
    <3>3. /\ late'[j] = late[j] - 1
          /\ \A l \in ImportKey \ {j} : late'[l] = late[l]
      BY <3>1 DEF ImporterTypeOK
    <3> SUFFICES ASSUME NEW k \in ImportKey, Kept(k)
                 PROVE  /\ late'[k] <= lost[k]
                        /\ Cardinality(NodesWith(k)') + late'[k]
                             \in {lost[k], lost[k] + 1}
                        /\ run.at \in {"group", "uploading"}
                             /\ byKey[k] = None =>
                             Cardinality(NodesWith(k)') + late'[k] = lost[k]
      BY <3>1 DEF NodeCount, Counted
    <3>4. Counted(k)
      BY DEF NodeCount
    <3>5. CASE k = j
      BY <2>0, <3>1, <3>2, <3>3, <3>4, <3>5, NodesAreFinite DEF Counted
    <3>6. CASE k # j
      BY <3>2, <3>3, <3>4, <3>6 DEF Counted
    <3> QED
      BY <3>5, <3>6
  <2>6. CASE StartRun \/ ListNodesFails \/ ReturnResult \/ Killed
    <3>1. UNCHANGED <<keyOf, late, lost>>
          /\ (run').at \in {"listing", "idle"}
      <4>1. StartRun => (run').at = "listing"
        BY DEF StartRun
      <4>2. ListNodesFails \/ ReturnResult \/ Killed => (run').at = "idle"
        BY DEF ListNodesFails, ReturnResult, Killed, ImporterTypeOK
      <4>3. UNCHANGED <<keyOf, late, lost>>
        BY <2>6 DEF StartRun, ListNodesFails, ReturnResult, Killed, server
      <4> QED
        BY <2>6, <4>1, <4>2, <4>3
    <3> QED
      BY <2>1, <3>1
  <2>7. CASE ReuseNode \/ CreateNodeRefused \/ QueueFile \/ StartUpload
               \/ GroupDone
    <3>1. UNCHANGED <<keyOf, late, lost, byKey>>
          /\ run.at \in {"group", "uploading"}
      BY <2>7 DEF ReuseNode, CreateNodeRefused, GroupFails, QueueFile,
                  StartUpload, GroupDone, server
    <3> QED
      BY <2>1, <3>1
  <2>8. ASSUME UNCHANGED <<keyOf, late, lost, byKey>>, (run').at = run.at
        PROVE  NodeCount'
    BY <2>1, <2>8
  <2>9. CASE Cancel
    <3>1. UNCHANGED <<keyOf, late, lost, byKey>> /\ (run').at = run.at
      BY <2>9 DEF Cancel, server, ImporterTypeOK
    <3> QED
      BY <2>8, <3>1
  <2>10. ASSUME NEW f \in File, FileAction(f)
         PROVE  NodeCount'
    <3>1. UNCHANGED <<keyOf, late, lost, byKey, run>>
      BY <2>10 DEF FileAction, PresignOrPutDone, Answered, AnsweredAgain,
                   Refused, Throttled, Errs, Wake, CutShort, server
    <3> QED
      BY <2>8, <3>1
  <2>11. CASE UNCHANGED importVars
    BY <2>8, <2>11 DEF importVars
  <2> QED
    BY <2>2, <2>3, <2>4, <2>5, <2>6, <2>7, <2>9, <2>10, <2>11
       DEF ImporterNext, FileAction
<1>3. ImporterTypeOK /\ NodeCount => NoNeedlessNode
  <2> SUFFICES ASSUME ImporterTypeOK, NodeCount, NEW k \in ImportKey, Kept(k)
               PROVE  Cardinality(NodesWith(k)) <= 1 + lost[k]
    BY DEF NoNeedlessNode
  <2>1. late[k] \in Nat /\ lost[k] \in Nat
    BY DEF ImporterTypeOK
  <2> QED
    BY <2>1, NodesAreFinite DEF NodeCount, Counted
<1> QED
  BY <1>1, <1>2, <1>3, ImporterTypeCorrect, PTL DEF ImporterSpec

-----------------------------------------------------------------------------
(* Importer: a run over what is there already *)

\* Nodes and photos stay.
LEMMA NodesAndPhotosStay ==
    ASSUME ShapeInv, [ImporterNext]_importVars
    PROVE  /\ stored \subseteq stored'
           /\ \A n \in NodeId : keyOf[n] # None => keyOf'[n] = keyOf[n]
           /\ \A k \in ImportKey : lost'[k] = 0 => lost[k] = 0
<1>0. ImporterTypeOK
  BY DEF ShapeInv
<1>1. stored \subseteq stored'
  BY OthersStoreNothing, FileActionIsStep DEF FileStep
<1>2. ASSUME NEW k, FreeNodes # {},
             keyOf' = [keyOf EXCEPT ![Lowest(FreeNodes)] = k]
      PROVE  \A n \in NodeId : keyOf[n] # None => keyOf'[n] = keyOf[n]
  <2>1. keyOf[Lowest(FreeNodes)] = None
    BY <1>0, <1>2, KeysAndNodes DEF FreeNodes
  <2> QED
    BY <1>0, <1>2, <2>1 DEF ImporterTypeOK
<1>3. \A n \in NodeId : keyOf[n] # None => keyOf'[n] = keyOf[n]
  <2>1. CASE CreateNodeAnswered
    BY <1>2, <2>1 DEF CreateNodeAnswered
  <2>2. ASSUME NEW k \in ImportKey, LateNode(k)
        PROVE  \A n \in NodeId : keyOf[n] # None => keyOf'[n] = keyOf[n]
    BY <1>2, <2>2 DEF LateNode
  <2>3. CASE keyOf' = keyOf
    BY <2>3
  <2> QED
    BY <2>1, <2>2, <2>3
       DEF ImporterNext, importVars, server, StartRun, ListNodes,
           ListNodesFails, ReuseNode, CreateNodeRefused, CreateNodeLost,
           ReturnResult, QueueFile, StartUpload, GroupDone, PresignOrPutDone,
           Answered, AnsweredAgain, Refused, Throttled, Errs, Wake, CutShort,
           Cancel, Killed
<1>4. \A k \in ImportKey : lost'[k] = 0 => lost[k] = 0
  <2>1. CASE CreateNodeLost
    <3>1. lost' = [lost EXCEPT ![GroupsKey] = @ + 1]
      BY <2>1 DEF CreateNodeLost
    <3> QED
      BY <1>0, <3>1 DEF ImporterTypeOK
  <2>2. CASE lost' = lost
    BY <2>2
  <2> QED
    BY <2>1, <2>2
       DEF ImporterNext, importVars, server, StartRun, ListNodes,
           ListNodesFails, ReuseNode, CreateNodeRefused, CreateNodeAnswered,
           LateNode, ReturnResult, QueueFile, StartUpload, GroupDone,
           PresignOrPutDone, Answered, AnsweredAgain, Refused, Throttled,
           Errs, Wake, CutShort, Cancel, Killed
<1> QED
  BY <1>1, <1>3, <1>4

\* The node that a run uses for a key has that key, or what the server makes
\* of it.
OfKey(n, k) == keyOf[n] \in {k, Trimmed[k]} \ {None}

RunNode ==
    /\ run.at \in {"group", "uploading"} =>
          \A k \in ImportKey : byKey[k] # None => OfKey(byKey[k], k)
    /\ run.at = "uploading" => OfKey(run.node, GroupsKey)

THEOREM ImporterRunNode == ImporterSpec => []RunNode
<1>1. ImporterInit => RunNode
  BY DEF ImporterInit, RunNode
<1>2. ShapeInv /\ RunNode /\ [ImporterNext]_importVars => RunNode'
  <2> SUFFICES ASSUME ShapeInv, RunNode, [ImporterNext]_importVars
               PROVE  RunNode'
    OBVIOUS
  <2>0. ImporterTypeOK
    BY DEF ShapeInv
  <2>100. /\ None \notin ImportKey /\ None \notin NodeId
          /\ DOMAIN KeyAt = 1..Len(Groups)
    BY ImporterAssumption DEF ImporterAssumption, ImportKey, NodeId
  <2>101. \A n \in NodeId : keyOf[n] # None => keyOf'[n] = keyOf[n]
    BY NodesAndPhotosStay
  <2>102. run.at = "uploading" =>
             GroupsKey \in ImportKey /\ run.node \in NodeId
    BY <2>100 DEF ShapeInv, RunShape, GroupsKey, ImportKey
  <2>1. ASSUME (run').at = run.at, (run').group = run.group,
               (run').node = run.node, byKey' = byKey
        PROVE  RunNode'
    <3>1. GroupsKey' = GroupsKey
      BY <2>1 DEF GroupsKey
    <3>2. ASSUME NEW k \in ImportKey, byKey[k] # None, OfKey(byKey[k], k)
          PROVE  OfKey(byKey[k], k)'
      BY <2>0, <2>1, <2>101, <3>2 DEF ImporterTypeOK, OfKey
    <3>3. run.at = "uploading" => OfKey(run.node, GroupsKey)'
      BY <2>1, <2>101, <2>102, <3>1 DEF RunNode, OfKey
    <3> QED
      BY <2>1, <3>1, <3>2, <3>3 DEF RunNode
  <2>2. ASSUME (run').at \in {"listing", "idle"}
        PROVE  RunNode'
    BY <2>2 DEF RunNode
  <2>3. CASE StartRun
    BY <2>2, <2>3 DEF StartRun
  <2>4. CASE ListNodes
    <3>1. /\ byKey' = [k \in ImportKey |-> Listed(k)] /\ keyOf' = keyOf
      BY <2>4 DEF ListNodes, server
    <3>2. (run').at = "group"
      BY <2>0, <2>4 DEF ListNodes, ImporterTypeOK
    <3>3. \A k \in ImportKey : Listed(k) # None => OfKey(Listed(k), k)
      BY <2>0, <2>100, KeysAndNodes DEF NodesWith, OfKey
    <3> QED
      BY <3>1, <3>2, <3>3 DEF RunNode, OfKey
  <2>5. CASE ListNodesFails \/ ReturnResult \/ Killed
    <3>1. (run').at = "idle"
      BY <2>0, <2>5 DEF ListNodesFails, ReturnResult, Killed, ImporterTypeOK
    <3> QED
      BY <2>2, <3>1
  <2>6. CASE ReuseNode
    <3>1. /\ run.at = "group" /\ GroupsKey \in ImportKey
          /\ byKey[GroupsKey] # None
          /\ UNCHANGED <<keyOf, byKey>>
      BY <2>0, <2>6, KeysAndNodes DEF ReuseNode, server
    <3>2. (run').group = run.group /\ (run').node = byKey[GroupsKey]
      BY <2>0, <2>6 DEF ReuseNode, ImporterTypeOK
    <3>3. GroupsKey' = GroupsKey
      BY <3>2 DEF GroupsKey
    <3> QED
      BY <3>1, <3>2, <3>3 DEF RunNode, OfKey
  <2>7. CASE CreateNodeAnswered
    <3>0. PICK n \in NodeId, j \in ImportKey :
            n = Lowest(FreeNodes) /\ j = GroupsKey
      BY <2>0, <2>7, KeysAndNodes DEF CreateNodeAnswered, FreeNodes
    <3>1. /\ run.at = "group" /\ Trimmed[j] # None
          /\ keyOf' = [keyOf EXCEPT ![n] = Trimmed[j]]
          /\ byKey' = [byKey EXCEPT ![j] = n]
          /\ run' = [run EXCEPT !.at = "uploading", !.node = n]
      BY <2>7, <3>0 DEF CreateNodeAnswered, Remembered
    <3>2. (run').group = run.group /\ (run').node = n
      BY <2>0, <3>1 DEF ImporterTypeOK
    <3>3. GroupsKey' = j
      BY <3>0, <3>2 DEF GroupsKey
    <3>4. OfKey(n, j)'
      BY <2>0, <3>1 DEF ImporterTypeOK, OfKey
    <3>5. ASSUME NEW k \in ImportKey, byKey'[k] # None
          PROVE  OfKey(byKey[k], k)'
      <4>1. CASE k = j
        <5>1. byKey'[k] = n
          BY <2>0, <3>1, <4>1 DEF ImporterTypeOK
        <5> QED
          BY <3>4, <4>1, <5>1 DEF OfKey
      <4>2. CASE k # j
        <5>1. byKey'[k] = byKey[k]
          BY <2>0, <3>1, <4>2 DEF ImporterTypeOK
        <5>2. byKey[k] \in NodeId /\ OfKey(byKey[k], k)
          BY <2>0, <3>1, <3>5, <5>1 DEF RunNode, ImporterTypeOK
        <5> QED
          BY <2>101, <5>1, <5>2 DEF OfKey
      <4> QED
        BY <4>1, <4>2
    <3> QED
      BY <3>2, <3>3, <3>4, <3>5 DEF RunNode, OfKey
  <2>8. CASE CreateNodeRefused \/ CreateNodeLost
    <3>1. /\ run.at = "group" /\ UNCHANGED <<keyOf, byKey>>
          /\ run' = [run EXCEPT !.group = @ + 1]
      BY <2>8 DEF CreateNodeRefused, CreateNodeLost, GroupFails
    <3>2. (run').at = "group"
      BY <2>0, <3>1 DEF ImporterTypeOK
    <3> QED
      BY <3>1, <3>2 DEF RunNode, OfKey
  <2>9. CASE GroupDone
    <3>1. /\ run.at = "uploading" /\ UNCHANGED <<keyOf, byKey>>
          /\ \/ run' = [run EXCEPT !.at = "idle"]
             \/ run' = [run EXCEPT !.at = "group", !.group = @ + 1]
      BY <2>9 DEF GroupDone, server
    <3>2. (run').at \in {"idle", "group"}
      BY <2>0, <3>1 DEF ImporterTypeOK
    <3> QED
      BY <3>1, <3>2 DEF RunNode, OfKey
  <2>10. CASE QueueFile \/ StartUpload \/ Cancel
    <3>1. (run').at = run.at /\ (run').group = run.group
          /\ (run').node = run.node /\ byKey' = byKey
      BY <2>0, <2>10
         DEF QueueFile, StartUpload, Cancel, ImporterTypeOK, server
    <3> QED
      BY <2>1, <3>1
  <2>11. ASSUME NEW f \in File, FileAction(f)
         PROVE  RunNode'
    BY <2>1, <2>11, FileActionIsStep DEF FileStep
  <2>12. ASSUME NEW k \in ImportKey, LateNode(k)
         PROVE  RunNode'
    BY <2>1, <2>12 DEF LateNode
  <2>13. CASE UNCHANGED importVars
    BY <2>1, <2>13 DEF importVars
  <2> QED
    BY <2>3, <2>4, <2>5, <2>6, <2>7, <2>8, <2>9, <2>10, <2>11, <2>12, <2>13
       DEF ImporterNext, FileAction
<1> QED
  BY <1>1, <1>2, ImporterShape, PTL DEF ImporterSpec

\* If the file belongs to a group whose key is kept as planned, its picture
\* is in a node of that key.
AtHome(f) ==
    \A i \in 1..Len(Groups) :
        f \in GroupFiles(i) /\ Kept(KeyAt[i]) =>
            \E n \in NodeId : /\ keyOf[n] = KeyAt[i]
                              /\ <<n, ContentOf[f]>> \in stored

\* What is counted is at home; when every file is and its key has one node,
\* a worker finds its picture there.
RerunInv ==
    /\ \A f \in File : stat[f] \in {"uploaded", "skipped"} => AtHome(f)
    /\ complete => \A f \in File : AtHome(f)
    /\ complete => \A f \in File : Findable(f) =>
          /\ stat[f] # "uploaded"
          /\ worker[f] # None => worker[f].row # "kept"

\* A file is in one group.
LEMMA OneGroup ==
    ASSUME NEW f, NEW i \in 1..Len(Groups), NEW j \in 1..Len(Groups),
           f \in GroupFiles(i), f \in GroupFiles(j)
    PROVE  i = j
<1>1. PICK a \in 1..Len(Groups[i]), b \in 1..Len(Groups[j]) :
        Groups[i][a] = f /\ Groups[j][b] = f
  BY DEF GroupFiles
<1>2. /\ DOMAIN Groups = 1..Len(Groups)
      /\ \A l \in 1..Len(Groups) : DOMAIN Groups[l] = 1..Len(Groups[l])
  <2>1. Groups \in Seq(Seq(File))
    BY ImporterAssumption DEF ImporterAssumption
  <2> QED
    BY <2>1, GroupsAre
<1>3. \A l, m \in DOMAIN Groups :
        \A c \in DOMAIN Groups[l], d \in DOMAIN Groups[m] :
          Groups[l][c] = Groups[m][d] => l = m
  BY ImporterAssumption DEF ImporterAssumption
<1> QED
  BY <1>1, <1>2, <1>3

\* The worker of a file is in its group, and in a node of the group's key if
\* that is kept as planned.
LEMMA WorkersNode ==
    ASSUME ShapeInv, RunNode, NEW f \in File, worker[f] # None
    PROVE  /\ run.group \in 1..Len(Groups) /\ f \in GroupFiles(run.group)
           /\ run.node \in NodeId /\ KeyAt[run.group] \in ImportKey
           /\ Kept(KeyAt[run.group]) => keyOf[run.node] = KeyAt[run.group]
<1>1. /\ run.at = "uploading" /\ f \in GroupFiles(run.group)
      /\ run.group \in 1..Len(Groups) /\ run.node \in NodeId
  BY DEF ShapeInv, RunShape, InGroup, GroupFiles
<1>2. KeyAt[run.group] \in ImportKey
  <2>1. DOMAIN KeyAt = 1..Len(Groups)
    BY ImporterAssumption DEF ImporterAssumption
  <2> QED
    BY <1>1, <2>1 DEF ImportKey
<1>3. Kept(KeyAt[run.group]) => Trimmed[KeyAt[run.group]] = KeyAt[run.group]
  BY <1>2 DEF Kept
<1> QED
  BY <1>1, <1>2, <1>3 DEF RunNode, OfKey, GroupsKey

LEMMA HomeIsHere ==
    ASSUME ShapeInv, RunNode, NodeCount,
           NEW f \in File, worker[f] # None, AtHome(f), Findable(f)
    PROVE  Photo(f) \in stored
<1> DEFINE k == KeyAt[run.group]
<1>1. /\ run.group \in 1..Len(Groups) /\ f \in GroupFiles(run.group)
      /\ run.node \in NodeId /\ k \in ImportKey
      /\ Kept(k) => keyOf[run.node] = k
  BY WorkersNode
<1>2. Kept(k) /\ lost[k] = 0
  BY <1>1 DEF Findable
<1>3. PICK n \in NodeId : keyOf[n] = k /\ <<n, ContentOf[f]>> \in stored
  BY <1>1, <1>2 DEF AtHome
<1> HIDE DEF k
<1>4. n \in NodesWith(k) /\ run.node \in NodesWith(k)
  BY <1>1, <1>2, <1>3 DEF NodesWith
<1>5. Cardinality(NodesWith(k)) = 1
  <2>1. late[k] \in Nat
    BY <1>1 DEF ShapeInv, ImporterTypeOK
  <2>2. Cardinality(NodesWith(k)) \in Nat /\ NodesWith(k) # {}
        /\ IsFiniteSet(NodesWith(k))
    BY <1>4, NodesAreFinite
  <2>3. Cardinality(NodesWith(k)) # 0
    BY <2>2, FS_EmptySet
  <2> QED
    BY <1>1, <1>2, <2>1, <2>2, <2>3 DEF NodeCount, Counted
<1>6. PICK x : NodesWith(k) = {x}
  BY <1>5, NodesAreFinite, FS_Singleton
<1>7. n = run.node
  BY <1>4, <1>6
<1> QED
  BY <1>3, <1>7 DEF Photo

\* For any groups, runs, kills and budgets, and whatever the server trims:
\* once every file is counted, repeated runs upload none of those whose title
\* is kept as planned and whose node no lost answer has doubled.
THEOREM ImporterRerun == ImporterSpec => []RerunAddsNothing
<1>1. ImporterInit => RerunInv
  BY DEF ImporterInit, RerunInv
<1>2. ShapeInv /\ RunNode /\ NodeCount /\ RerunInv
        /\ [ImporterNext]_importVars => RerunInv'
  <2> SUFFICES ASSUME ShapeInv, RunNode, NodeCount, RerunInv,
                      [ImporterNext]_importVars
               PROVE  RerunInv'
    OBVIOUS
  <2>0. ImporterTypeOK
    BY DEF ShapeInv
  <2>1. \A f \in File : AtHome(f) => AtHome(f)'
    <3> SUFFICES ASSUME NEW f \in File, AtHome(f)
                 PROVE  AtHome(f)'
      OBVIOUS
    <3> SUFFICES ASSUME NEW i \in 1..Len(Groups),
                        f \in GroupFiles(i), Kept(KeyAt[i])
                 PROVE  \E n \in NodeId : /\ keyOf'[n] = KeyAt[i]
                                          /\ <<n, ContentOf[f]>> \in stored'
      BY DEF AtHome
    <3>1. PICK n \in NodeId : /\ keyOf[n] = KeyAt[i]
                              /\ <<n, ContentOf[f]>> \in stored
      BY DEF AtHome
    <3>2. KeyAt[i] # None
      BY ImporterAssumption DEF ImporterAssumption
    <3> QED
      BY <3>1, <3>2, NodesAndPhotosStay
  <2>2. \A f \in File : Findable(f)' => Findable(f)
    <3>1. \A i \in 1..Len(Groups) : KeyAt[i] \in ImportKey
      BY ImporterAssumption DEF ImporterAssumption, ImportKey
    <3> QED
      BY <3>1, NodesAndPhotosStay DEF Findable
  <2>3. ASSUME complete' = complete,
               \A f \in File : stat'[f] \in {"uploaded", "skipped"}
                  => stat'[f] = stat[f],
               \A f \in File : worker'[f] # None =>
                  \/ worker[f] # None /\ worker'[f] = worker[f]
                  \/ worker'[f].row = "none"
        PROVE  RerunInv'
    BY <2>1, <2>2, <2>3 DEF RerunInv
  <2>4. CASE StartRun
    <3>1. /\ run.at # "uploading" /\ worker' = worker
          /\ stat' = [f \in File |-> "todo"]
          /\ complete' = (complete \/ \A f \in File :
                                         stat[f] \in {"uploaded", "skipped"})
      BY <2>4 DEF StartRun
    <3>2. worker = [f \in File |-> None]
      BY <3>1, IdleNoWorker
    <3> QED
      BY <2>1, <3>1, <3>2 DEF RerunInv
  <2>5. CASE StartUpload
    <3>1. PICK w \in Upload :
            worker' = [worker EXCEPT ![NextFile] = w] /\ w.row = "none"
      BY <2>5, StartUploadGives
    <3>2. UNCHANGED <<stat, complete>>
      BY <2>5 DEF StartUpload
    <3>3. \A f \in File : worker'[f] = worker[f] \/ worker'[f] = w
      BY <2>0, <3>1 DEF ImporterTypeOK
    <3> QED
      BY <2>3, <3>1, <3>2, <3>3
  <2>6. CASE CreateNodeRefused \/ CreateNodeLost
    <3>1. /\ UNCHANGED <<worker, complete>>
          /\ stat' = [f \in File |-> IF f \in InGroup THEN "failed"
                                     ELSE stat[f]]
      BY <2>6 DEF CreateNodeRefused, CreateNodeLost, GroupFails
    <3> QED
      BY <2>3, <3>1
  <2>7. CASE Killed
    <3>1. /\ UNCHANGED <<stat, complete>>
          /\ worker' = [f \in File |-> None]
      BY <2>7 DEF Killed
    <3> QED
      BY <2>3, <3>1
  <2>8. CASE UNCHANGED <<worker, stat, complete>>
    BY <2>3, <2>8
  <2>9. ASSUME NEW f \in File, FileAction(f)
        PROVE  RerunInv'
    <3>1. FileStep(f)
      BY <2>9, FileActionIsStep
    <3>2. /\ worker[f] # None /\ UNCHANGED <<keyOf, lost, run, complete>>
      BY <3>1 DEF FileStep
    <3>3. complete /\ Findable(f) =>
            Photo(f) \in stored /\ worker[f].row # "kept"
      BY <3>2, HomeIsHere DEF RerunInv
    <3>4. CASE FileEnds(f)
      <4>1. PICK v \in {"uploaded", "skipped", "failed"} :
              /\ Ended(f, v)
              /\ v # "failed" => Photo(f) \in stored'
              /\ v = "uploaded" => Photo(f) \notin stored
                                     \/ worker[f].row = "kept"
        BY <3>4 DEF FileEnds
      <4>2. /\ worker' = [worker EXCEPT ![f] = None]
            /\ stat' = [stat EXCEPT ![f] = v]
        BY <4>1 DEF Ended
      <4>3. /\ \A g \in File \ {f} : worker'[g] = worker[g]
                                       /\ stat'[g] = stat[g]
            /\ worker'[f] = None /\ stat'[f] = v
        BY <2>0, <4>2 DEF ImporterTypeOK
      <4>4. v # "failed" => AtHome(f)'
        <5> SUFFICES ASSUME v # "failed"
                     PROVE  AtHome(f)'
          OBVIOUS
        <5> SUFFICES ASSUME NEW i \in 1..Len(Groups),
                            f \in GroupFiles(i), Kept(KeyAt[i])
                     PROVE  \E n \in NodeId :
                               /\ keyOf'[n] = KeyAt[i]
                               /\ <<n, ContentOf[f]>> \in stored'
          BY DEF AtHome
        <5>1. /\ run.group \in 1..Len(Groups) /\ f \in GroupFiles(run.group)
              /\ run.node \in NodeId
              /\ Kept(KeyAt[run.group]) =>
                    keyOf[run.node] = KeyAt[run.group]
          BY <3>2, WorkersNode
        <5>2. i = run.group
          BY <5>1, OneGroup
        <5>3. <<run.node, ContentOf[f]>> \in stored'
          BY <4>1 DEF Photo
        <5> QED
          BY <3>2, <5>1, <5>2, <5>3
      <4> QED
        BY <2>1, <2>2, <3>2, <3>3, <4>1, <4>3, <4>4 DEF RerunInv
    <3>5. CASE FileGoesOn(f)
      <4>1. PICK w \in Upload :
              /\ worker' = [worker EXCEPT ![f] = w]
              /\ w.row = "kept" => worker[f].row = "kept"
                                     \/ Photo(f) \notin stored
              /\ stat' = stat
        BY <3>5 DEF FileGoesOn
      <4>2. /\ \A g \in File \ {f} : worker'[g] = worker[g]
            /\ worker'[f] = w
        BY <2>0, <4>1 DEF ImporterTypeOK
      <4> QED
        BY <2>1, <2>2, <3>2, <3>3, <4>1, <4>2 DEF RerunInv
    <3> QED
      BY <3>1, <3>4, <3>5 DEF FileStep
  <2> QED
    BY <2>4, <2>5, <2>6, <2>7, <2>8, <2>9
       DEF ImporterNext, FileAction, importVars, ListNodes, ListNodesFails,
           ReuseNode, CreateNodeAnswered, LateNode, ReturnResult, QueueFile,
           GroupDone, Cancel
<1>3. RerunInv => RerunAddsNothing
  BY DEF RerunInv, RerunAddsNothing
<1> QED
  BY <1>1, <1>2, <1>3, ImporterShape, ImporterRunNode, ImporterNodes, PTL
     DEF ImporterSpec

-----------------------------------------------------------------------------
(* Export *)

\* What the proof asks of the photos: a size tells them apart, and no caption
\* ends in the extension of a text.  Without either the export may be wrong.
SizesDiffer == \A p, q \in Shot : SizeOf[p] = SizeOf[q] => p = q

NoTextCaptions == \A c \in Caption : c.ext = ".jpg"

\* A list is not longer than there are photos.
LEMMA ListsFit ==
    ASSUME NEW items \in Listing
    PROVE  /\ items \in Seq(Item)
           /\ Cardinality(Shot) \in Nat
           /\ Len(items) \in Nat /\ Len(items) <= Cardinality(Shot)
<1>1. items \in Seq(Item)
      /\ \A a, b \in DOMAIN items : items[a].shot = items[b].shot => a = b
  BY ListingAssumption DEF ListingAssumption
<1>2. Len(items) \in Nat /\ DOMAIN items = 1..Len(items)
  BY <1>1
<1>3. Cardinality(Shot) \in Nat
  BY ExportAssumption, FS_CardinalityType DEF ExportAssumption
<1>4. Len(items) <= Cardinality(Shot)
  <2> DEFINE f == [a \in 1..Len(items) |-> items[a].shot]
  <2>1. \A a \in 1..Len(items) : items[a].shot \in Shot
    <3>1. \A a \in 1..Len(items) : items[a] \in Item
      BY <1>1
    <3> QED
      BY <3>1 DEF Item
  <2>2. f \in Injection(1..Len(items), Shot)
    BY <1>1, <1>2, <2>1 DEF Injection, IsInjective
  <2>3. IsFiniteSet(Shot) /\ IsFiniteSet(1..Len(items))
        /\ Cardinality(1..Len(items)) = Len(items)
    <3>1. 1 \in Int /\ Len(items) \in Int
      BY <1>2
    <3>2. /\ IsFiniteSet(1..Len(items))
          /\ Cardinality(1..Len(items)) =
                IF 1 > Len(items) THEN 0 ELSE Len(items) - 1 + 1
      BY <3>1, FS_Interval
    <3>3. IsFiniteSet(Shot)
      BY ExportAssumption DEF ExportAssumption
    <3> QED
      BY <1>2, <3>1, <3>2, <3>3
  <2> HIDE DEF f
  <2> QED
    BY <2>2, <2>3, FS_Injection
<1> QED
  BY <1>1, <1>2, <1>3, <1>4

\* The names of a list, in the directory and numbered.
LEMMA NamesIn ==
    ASSUME NEW items \in Listing, NEW i \in 1..Len(items)
    PROVE  /\ items[i] \in Item
           /\ BaseName(i, items[i]) \in Name
           /\ TextName(i, items[i]) \in Name
           /\ BaseName(i, items[i])[1] = i /\ TextName(i, items[i])[1] = i
           /\ TextName(i, items[i])[3] = ".txt"
<1> DEFINE item == items[i]
<1> DEFINE Stem == {c.stem : c \in Caption}
<1>1. item \in Item /\ i \in 1..Cardinality(Shot)
  BY ListsFit
<1>2. CASE item.caption = None
  <2>1. item.shot \in Shot
    BY <1>1 DEF Item
  <2>2. BaseName(i, item) = <<i, item.shot, ".jpg">>
    BY <1>2 DEF BaseName
  <2>3. TextName(i, item) = <<i, item.shot, ".txt">>
    BY <2>2 DEF TextName
  <2> QED
    BY <1>1, <2>1, <2>2, <2>3 DEF Name
<1>3. CASE item.caption # None
  <2>1. item.caption \in Caption
    BY <1>1, <1>3 DEF Item
  <2>2. item.caption.stem \in Stem /\ item.caption.ext \in {".jpg", ".txt"}
    BY <2>1, ExportAssumption DEF ExportAssumption
  <2>3. BaseName(i, item) = <<i, item.caption.stem, item.caption.ext>>
    BY <1>3 DEF BaseName
  <2>4. TextName(i, item) = <<i, item.caption.stem, ".txt">>
    BY <2>3 DEF TextName
  <2> QED
    BY <1>1, <2>2, <2>3, <2>4 DEF Name
<1> QED
  BY <1>2, <1>3

\* ... and photo and text apart, when no caption ends like a text.
LEMMA NamesAre ==
    ASSUME NoTextCaptions, NEW items \in Listing, NEW i \in 1..Len(items)
    PROVE  /\ items[i] \in Item
           /\ BaseName(i, items[i]) \in Name
           /\ TextName(i, items[i]) \in Name
           /\ BaseName(i, items[i])[1] = i /\ TextName(i, items[i])[1] = i
           /\ BaseName(i, items[i])[3] = ".jpg"
           /\ TextName(i, items[i])[3] = ".txt"
<1>1. items[i] \in Item
  BY NamesIn
<1>2. BaseName(i, items[i])[3] = ".jpg"
  BY <1>1 DEF BaseName, Item, NoTextCaptions
<1> QED
  BY <1>2, NamesIn

\* Type correctness of the export, with how far a run can be.
THEOREM ExportTypeCorrect == ExportSpec => []ExportTypeOK
<1> DEFINE Within ==
             /\ export.at <= Len(export.items) + 1
             /\ export.step \in {"rename", "text"} =>
                   export.at <= Len(export.items)
           Inv == ExportTypeOK /\ Within
           Run == [step : {"off", "look", "rename", "text", "done"},
                   items : Listing \cup {<<>>},
                   at : 1..(Cardinality(Shot) + 1)]
<1>0. /\ Cardinality(Shot) \in Nat
      /\ \A items \in Listing \cup {<<>>} :
            Len(items) \in Nat /\ Len(items) <= Cardinality(Shot)
  <2>1. Cardinality(Shot) \in Nat
    BY ExportAssumption, FS_CardinalityType DEF ExportAssumption
  <2> QED
    BY <2>1, ListsFit
<1>1. ExportInit => Inv
  BY <1>0 DEF ExportInit, ExportTypeOK
<1>2. Inv /\ [ExportNext]_exportVars => Inv'
  <2> SUFFICES ASSUME Inv, [ExportNext]_exportVars
               PROVE  Inv'
    OBVIOUS
  <2>0. /\ disk \in [Name -> Content \cup {None}] /\ export \in Run
        /\ Len(export.items) \in Nat /\ export.at \in Nat
        /\ Len(export.items) <= Cardinality(Shot)
    BY <1>0 DEF ExportTypeOK
  \* The photo in hand.
  <2>1. ASSUME export.at \in 1..Len(export.items)
        PROVE  /\ Here \in Item /\ HereBase \in Name /\ HereText \in Name
               /\ Original(Here.shot) \in Content /\ Text(Here) \in Content
    <3>1. export.items \in Listing
      BY <2>0, <2>1
    <3>2. Here \in Item /\ HereBase \in Name /\ HereText \in Name
      BY <2>1, <3>1, NamesIn DEF Here, HereBase, HereText
    <3>3. Here.shot \in Shot
      BY <3>2 DEF Item
    <3> QED
      BY <3>2, <3>3 DEF Content
  <2>2. ASSUME NEW items \in Listing, StartExport(items)
        PROVE  Inv'
    BY <1>0, <2>0, <2>2 DEF StartExport, ExportTypeOK
  <2>3. CASE Reuse \/ Download
    <3>1. /\ export' \in Run /\ disk' = disk
          /\ (export').items = export.items /\ (export').at = export.at
          /\ export.at <= Len(export.items)
      BY <2>0, <2>3 DEF Reuse, Download
    <3> QED
      BY <2>0, <3>1 DEF ExportTypeOK
  <2>4. CASE RenamePart
    <3>1. export.at \in 1..Len(export.items)
      BY <2>0, <2>4 DEF RenamePart
    <3>2. disk' \in [Name -> Content \cup {None}]
      BY <2>0, <2>1, <2>4, <3>1 DEF RenamePart
    <3>3. /\ export' \in Run
          /\ (export').items = export.items /\ (export').at = export.at
      BY <2>0, <2>4 DEF RenamePart
    <3> QED
      BY <2>0, <3>1, <3>2, <3>3 DEF ExportTypeOK
  <2>5. CASE WriteText
    <3>1. export.at \in 1..Len(export.items)
      BY <2>0, <2>5 DEF WriteText
    <3>2. disk' \in [Name -> Content \cup {None}]
      BY <2>0, <2>1, <2>5, <3>1 DEF WriteText
    <3>3. export.at + 1 \in 1..(Cardinality(Shot) + 1)
      BY <1>0, <2>0, <3>1
    <3> DEFINE next == export.at + 1
    <3>4. export' = [export EXCEPT !.step = "look", !.at = next]
      BY <2>5 DEF WriteText
    <3>5. next \in 1..(Cardinality(Shot) + 1)
      BY <3>3
    <3> HIDE DEF next
    <3>6. /\ export' \in Run /\ (export').step = "look"
          /\ (export').items = export.items /\ (export').at = next
      BY <2>0, <3>4, <3>5
    <3> QED
      BY <2>0, <3>1, <3>2, <3>6 DEF ExportTypeOK, next
  <2>6. CASE FinishExport
    <3>1. /\ export' \in Run /\ disk' = disk /\ (export').step = "done"
          /\ (export').items = export.items /\ (export').at = export.at
      BY <2>0, <2>6 DEF FinishExport
    <3> QED
      BY <2>0, <3>1 DEF ExportTypeOK
  <2>7. CASE ExportStops
    BY <1>0, <2>0, <2>7 DEF ExportStops, ExportTypeOK
  <2>8. CASE StopsInText
    <3>1. export.at \in 1..Len(export.items)
      BY <2>0, <2>8 DEF StopsInText
    <3>2. disk' \in [Name -> Content \cup {None}]
      BY <2>0, <2>1, <2>8, <3>1 DEF StopsInText, Content
    <3> QED
      BY <1>0, <2>8, <3>2 DEF StopsInText, ExportTypeOK
  <2>9. CASE UNCHANGED exportVars
    BY <2>0, <2>9 DEF exportVars, ExportTypeOK
  <2> QED
    BY <2>2, <2>3, <2>4, <2>5, <2>6, <2>7, <2>8, <2>9 DEF ExportNext
<1> QED
  BY <1>1, <1>2, PTL DEF ExportSpec

\* A photo of the list and its text are in place.
Laid(i) ==
    /\ disk[BaseName(i, export.items[i])] = Original(export.items[i].shot)
    /\ disk[TextName(i, export.items[i])] =
          IF Mute(export.items[i]) THEN None ELSE Text(export.items[i])

\* Everything before the photo in hand is laid, and once its text is due the
\* photo itself is.
ExportInv ==
    /\ disk \in [Name -> Content \cup {None}]
    /\ export \in [step : {"off", "look", "rename", "text", "done"},
                   items : Listing \cup {<<>>}, at : Nat \ {0}]
    /\ export.at <= Len(export.items) + 1
    /\ \A i \in 1..Len(export.items) : i < export.at => Laid(i)
    /\ export.step \in {"rename", "text"} => export.at <= Len(export.items)
    /\ export.step = "text" => disk[HereBase] = Original(Here.shot)
    /\ export.step = "done" => export.at = Len(export.items) + 1

\* For any photos of different sizes, captions, lists, interruptions and
\* repetitions: an export that ends is faithful to its list.
THEOREM ExportIsFaithful ==
    ASSUME SizesDiffer, NoTextCaptions
    PROVE  ExportSpec => []ExportFaithful
<1>0. \A items \in Listing \cup {<<>>} : Len(items) \in Nat
  BY ListingAssumption DEF ListingAssumption
<1>1. ExportInit => ExportInv
  BY DEF ExportInit, ExportInv
<1>2. ExportInv /\ [ExportNext]_exportVars => ExportInv'
  <2> SUFFICES ASSUME ExportInv, [ExportNext]_exportVars
               PROVE  ExportInv'
    OBVIOUS
  <2> DEFINE Records == [step : {"off", "look", "rename", "text", "done"},
                         items : Listing \cup {<<>>}, at : Nat \ {0}]
  <2>0. Len(export.items) \in Nat /\ export.at \in Nat
    BY <1>0 DEF ExportInv
  <2>1. ASSUME NEW items \in Listing, StartExport(items)
        PROVE  ExportInv'
    <3>1. /\ export' = [step |-> "look", at |-> 1, items |-> items]
          /\ disk' = disk
      BY <2>1 DEF StartExport
    <3>2. Len(items) \in Nat
      BY <1>0
    <3> QED
      BY <3>1, <3>2 DEF ExportInv
  <2>2. ASSUME export' = [step |-> "off", items |-> <<>>, at |-> 1],
               disk' \in [Name -> Content \cup {None}]
        PROVE  ExportInv'
    BY <2>2 DEF ExportInv
  <2>3. CASE ExportStops
    BY <2>2, <2>3 DEF ExportStops, ExportInv
  \* What the steps on the photo in hand have in common.
  <2>4. ASSUME export.at \in 1..Len(export.items)
        PROVE  /\ export.items \in Listing
               /\ Here \in Item
               /\ HereBase \in Name /\ HereText \in Name
               /\ HereBase # HereText
               /\ \A i \in 1..Len(export.items) : i < export.at =>
                    /\ BaseName(i, export.items[i]) \notin
                          {HereBase, HereText}
                    /\ TextName(i, export.items[i]) \notin
                          {HereBase, HereText}
                    /\ BaseName(i, export.items[i]) \in Name
                    /\ TextName(i, export.items[i]) \in Name
    <3>1. export.items \in Listing
      BY <2>4 DEF ExportInv
    <3>2. /\ Here \in Item
          /\ HereBase \in Name /\ HereText \in Name
          /\ HereBase[1] = export.at /\ HereText[1] = export.at
          /\ HereBase[3] = ".jpg" /\ HereText[3] = ".txt"
      BY <2>4, <3>1, NamesAre DEF Here, HereBase, HereText
    <3>3. HereBase # HereText
      BY <3>2
    <3>4. ASSUME NEW i \in 1..Len(export.items), i < export.at
          PROVE  /\ BaseName(i, export.items[i]) \notin {HereBase, HereText}
                 /\ TextName(i, export.items[i]) \notin {HereBase, HereText}
                 /\ BaseName(i, export.items[i]) \in Name
                 /\ TextName(i, export.items[i]) \in Name
      <4>1. /\ BaseName(i, export.items[i])[1] = i
            /\ TextName(i, export.items[i])[1] = i
            /\ BaseName(i, export.items[i]) \in Name
            /\ TextName(i, export.items[i]) \in Name
        BY <3>1, NamesAre
      <4>2. i # export.at
        BY <2>0, <3>4
      <4> QED
        BY <3>2, <4>1, <4>2
    <3> QED
      BY <3>1, <3>2, <3>3, <3>4
  <2>5. CASE Reuse
    <3>1. /\ export.at \in 1..Len(export.items)
          /\ export.step = "look" /\ RightSize
          /\ export' = [export EXCEPT !.step = "text"] /\ disk' = disk
      BY <2>0, <2>5 DEF Reuse, ExportInv
    <3>2. /\ (export').items = export.items /\ (export').at = export.at
          /\ (export').step = "text" /\ export' \in Records
      BY <3>1 DEF ExportInv
    <3>3. disk[HereBase] = Original(Here.shot)
      <4>1. disk[HereBase] \in Content /\ disk[HereBase].is = "photo"
            /\ SizeOf[disk[HereBase].of] = SizeOf[Here.shot]
        BY <2>4, <3>1 DEF RightSize, ExportInv
      <4>2. disk[HereBase] \in {Original(p) : p \in Shot}
        BY <4>1 DEF Content, Text, HalfText
      <4>3. PICK p \in Shot : disk[HereBase] = Original(p)
        BY <4>2
      <4>4. SizeOf[p] = SizeOf[Here.shot]
        BY <4>1, <4>3 DEF Original
      <4>5. Here.shot \in Shot
        BY <2>4, <3>1 DEF Item
      <4> QED
        BY <4>3, <4>4, <4>5 DEF SizesDiffer
    <3>4. Here' = Here /\ HereBase' = HereBase
      BY <3>2 DEF Here, HereBase
    <3>5. \A i : Laid(i)' <=> Laid(i)
      BY <3>1, <3>2 DEF Laid
    <3> QED
      BY <3>1, <3>2, <3>3, <3>4, <3>5 DEF ExportInv
  <2>6. CASE Download
    <3>1. /\ export.at \in 1..Len(export.items)
          /\ export' = [export EXCEPT !.step = "rename"] /\ disk' = disk
      BY <2>0, <2>6 DEF Download, ExportInv
    <3>2. /\ (export').items = export.items /\ (export').at = export.at
          /\ (export').step = "rename" /\ export' \in Records
      BY <3>1 DEF ExportInv
    <3>3. \A i : Laid(i)' <=> Laid(i)
      BY <3>1, <3>2 DEF Laid
    <3> QED
      BY <3>1, <3>2, <3>3 DEF ExportInv
  <2>7. CASE RenamePart
    <3>1. /\ export.at \in 1..Len(export.items)
          /\ export' = [export EXCEPT !.step = "text"]
          /\ disk' = [disk EXCEPT ![HereBase] = Original(Here.shot)]
      BY <2>0, <2>7 DEF RenamePart, ExportInv
    <3>2. /\ (export').items = export.items /\ (export').at = export.at
          /\ (export').step = "text" /\ export' \in Records
      BY <3>1 DEF ExportInv
    <3>3. Original(Here.shot) \in Content
      BY <2>4, <3>1 DEF Content, Item
    <3>4. /\ disk' \in [Name -> Content \cup {None}]
          /\ disk'[HereBase] = Original(Here.shot)
          /\ \A n \in Name \ {HereBase} : disk'[n] = disk[n]
      BY <2>4, <3>1, <3>3 DEF ExportInv
    <3>5. Here' = Here /\ HereBase' = HereBase
      BY <3>2 DEF Here, HereBase
    <3>6. \A i \in 1..Len(export.items) : i < export.at => Laid(i)'
      <4> SUFFICES ASSUME NEW i \in 1..Len(export.items), i < export.at
                   PROVE  Laid(i)'
        OBVIOUS
      <4>1. Laid(i)
        BY DEF ExportInv
      <4> QED
        BY <2>4, <3>1, <3>2, <3>4, <4>1 DEF Laid
    <3> QED
      BY <3>1, <3>2, <3>4, <3>5, <3>6 DEF ExportInv
  <2>8. CASE WriteText
    <3> DEFINE words == IF Mute(Here) THEN None ELSE Text(Here)
    <3>1. /\ export.at \in 1..Len(export.items)
          /\ export.step = "text"
          /\ export' = [export EXCEPT !.step = "look", !.at = @ + 1]
          /\ disk' = [disk EXCEPT ![HereText] = words]
      BY <2>0, <2>8 DEF WriteText, ExportInv
    <3>2. /\ (export').items = export.items
          /\ (export').at = export.at + 1
          /\ (export').step = "look" /\ export' \in Records
      <4>1. export.at + 1 \in Nat \ {0} /\ export \in Records
        BY <2>0 DEF ExportInv
      <4>2. export' = [export EXCEPT !.step = "look",
                                     !.at = export.at + 1]
        BY <3>1
      <4> QED
        BY <4>1, <4>2
    <3>3. words \in Content \cup {None}
      BY <2>4, <3>1 DEF Content
    <3>4. /\ disk' \in [Name -> Content \cup {None}]
          /\ disk'[HereText] = words
          /\ \A n \in Name \ {HereText} : disk'[n] = disk[n]
      <4> HIDE DEF words
      <4> QED
        BY <2>4, <3>1, <3>3 DEF ExportInv
    <3>5. \A i \in 1..Len(export.items) : i < export.at => Laid(i)'
      <4> SUFFICES ASSUME NEW i \in 1..Len(export.items), i < export.at
                   PROVE  Laid(i)'
        OBVIOUS
      <4>1. Laid(i)
        BY DEF ExportInv
      <4> QED
        BY <2>4, <3>1, <3>2, <3>4, <4>1 DEF Laid
    <3>6. ASSUME NEW i \in 1..Len(export.items), i = export.at
          PROVE  Laid(i)'
      <4>1. disk[HereBase] = Original(Here.shot)
        BY <3>1 DEF ExportInv
      <4>2. disk'[HereBase] = Original(Here.shot) /\ disk'[HereText] = words
        BY <2>4, <3>1, <3>4, <4>1
      <4>3. /\ Here = export.items[i] /\ HereBase = BaseName(i, Here)
            /\ HereText = TextName(i, Here)
        BY <3>6 DEF Here, HereBase, HereText
      <4> QED
        BY <3>2, <4>2, <4>3 DEF Laid
    <3>7. \A i \in 1..Len(export.items) : i < export.at + 1 => Laid(i)'
      <4> SUFFICES ASSUME NEW i \in 1..Len(export.items), i < export.at + 1
                   PROVE  Laid(i)'
        OBVIOUS
      <4>1. i < export.at \/ i = export.at
        BY <2>0
      <4> QED
        BY <3>5, <3>6, <4>1
    <3> QED
      BY <2>0, <3>1, <3>2, <3>4, <3>7 DEF ExportInv
  <2>9. CASE FinishExport
    <3>1. /\ export.at = Len(export.items) + 1
          /\ export' = [export EXCEPT !.step = "done"] /\ disk' = disk
      BY <2>0, <2>9 DEF FinishExport, ExportInv
    <3>2. /\ (export').items = export.items /\ (export').at = export.at
          /\ (export').step = "done" /\ export' \in Records
      BY <3>1 DEF ExportInv
    <3>3. \A i : Laid(i)' <=> Laid(i)
      BY <3>1, <3>2 DEF Laid
    <3> QED
      BY <3>1, <3>2, <3>3 DEF ExportInv
  <2>10. CASE StopsInText
    <3>1. /\ export' = [step |-> "off", items |-> <<>>, at |-> 1]
          /\ disk' = [disk EXCEPT ![HereText] = HalfText]
      BY <2>10 DEF StopsInText
    <3>2. disk' \in [Name -> Content \cup {None}]
      BY <3>1 DEF ExportInv, Content
    <3> QED
      BY <2>2, <3>1, <3>2
  <2>11. CASE UNCHANGED exportVars
    <3>1. export' = export /\ disk' = disk
      BY <2>11 DEF exportVars
    <3> QED
      BY <3>1 DEF ExportInv, Laid, Here, HereBase
  <2> QED
    BY <2>1, <2>3, <2>5, <2>6, <2>7, <2>8, <2>9, <2>10, <2>11
       DEF ExportNext
<1>3. ExportInv => ExportFaithful
  <2> SUFFICES ASSUME ExportInv, export.step = "done",
                      NEW i \in 1..Len(export.items)
               PROVE  Laid(i)
    BY DEF ExportFaithful, Laid
  <2>1. Len(export.items) \in Nat
    BY <1>0 DEF ExportInv
  <2> QED
    BY <2>1 DEF ExportInv
<1> QED
  BY <1>1, <1>2, <1>3, PTL DEF ExportSpec

-----------------------------------------------------------------------------
(* Planning: a file keeps its node *)

\* The directory of the sheet that speaks for a file, from the file alone.
AnchorOf(f) ==
    IF grouping = "single" THEN Root
    ELSE IF ByDay(f) THEN None
    ELSE tree[f].top

\* A settled file has a node that no file added can change: its group is that
\* of its own day, or its sheet gives the date.
SettledHolds ==
    \A f \in Pick :
        settled[f] # None =>
            /\ f \in Scanned
            /\ NodeKey(f) = settled[f]
            /\ AnchorOf(f) # None =>
                 /\ sheet[AnchorOf(f)] # None
                 /\ sheet[AnchorOf(f)].date # None

PlanningInv == PlanningTypeOK /\ SettledHolds

\* A set of days has an earliest one.
LEMMA LeastDay ==
    ASSUME NEW days, days \subseteq Nat, days # {}
    PROVE  \E d \in days : \A e \in days : d <= e
<1> DEFINE upTo(d) == 0..d
           T == {upTo(d) : d \in days}
<1>1. T \subseteq FiniteSubsetsOf(Nat) /\ T # {}
  <2> SUFFICES ASSUME NEW d \in days PROVE 0..d \in FiniteSubsetsOf(Nat)
    OBVIOUS
  <2>1. IsFiniteSet(0..d)
    BY FS_Interval
  <2>2. QED
    BY <2>1 DEF FiniteSubsetsOf
<1>2. PICK u \in T : \A v \in T : <<v, u>> \notin StrictSubsetOrdering(Nat)
  <2> HIDE DEF T
  <2> QED
    BY <1>1, FS_StrictSubsetOrderingWellFounded, WFMin
<1>3. PICK d \in days : u = 0..d
  BY <1>2
<1>4. ASSUME NEW e \in days, e < d PROVE FALSE
  <2>1. 0..e \in SUBSET Nat /\ 0..d \in SUBSET Nat
    OBVIOUS
  <2>2. 0..e \subseteq 0..d /\ d \in 0..d /\ d \notin 0..e
    BY <1>4
  <2>3. <<0..e, 0..d>> \in StrictSubsetOrdering(Nat)
    BY <2>1, <2>2 DEF StrictSubsetOrdering
  <2>4. QED
    BY <1>2, <1>3, <2>3
<1>5. QED
  BY <1>4

\* What a sheet s leaves open is filled in.
Filled(s, day, title) ==
    [date  |-> IF s # None /\ s.date # None THEN s.date ELSE day,
     title |-> IF s # None /\ s.title # None THEN s.title ELSE title]

\* What the plan makes of a file: its sheet, and its node.
FileFacts ==
    \A f \in Scanned :
        /\ Anchor(Group(f)) = AnchorOf(f)
        /\ AnchorOf(f) \in Dir \cup {None}
        /\ Earliest(Group(f)) \in Day
        /\ AnchorOf(f) = None => Earliest(Group(f)) = tree[f].day
        /\ DerivedTitle(f) \in MadeTitle
        /\ NodeKey(f) =
             IF AnchorOf(f) = None
             THEN [date |-> Earliest(Group(f)), title |-> DerivedTitle(f)]
             ELSE Filled(sheet[AnchorOf(f)], Earliest(Group(f)),
                         DerivedTitle(f))

LEMMA Facts == PlanningTypeOK => FileFacts
<1> SUFFICES ASSUME PlanningTypeOK, NEW f \in Scanned
             PROVE  /\ Anchor(Group(f)) = AnchorOf(f)
                    /\ AnchorOf(f) \in Dir \cup {None}
                    /\ Earliest(Group(f)) \in Day
                    /\ AnchorOf(f) = None => Earliest(Group(f)) = tree[f].day
                    /\ DerivedTitle(f) \in MadeTitle
                    /\ NodeKey(f) =
                         IF AnchorOf(f) = None
                         THEN [date |-> Earliest(Group(f)),
                               title |-> DerivedTitle(f)]
                         ELSE Filled(sheet[AnchorOf(f)], Earliest(Group(f)),
                                     DerivedTitle(f))
  BY DEF FileFacts
<1>1. f \in Group(f) /\ Group(f) \subseteq Scanned
  BY DEF Group
<1>2. tree[f].top \in Dir /\ Root \in Dir /\ tree[f].day \in Day
  BY DEF PlanningTypeOK, Scanned, Dir
<1>3. grouping \in {"auto", "folder", "date", "single"}
  BY PlanningAssumption DEF PlanningAssumption, PlanningTypeOK
<1>4. Anchor(Group(f)) = AnchorOf(f)
  <2>1. CASE grouping = "single" \/ grouping = "date"
    BY <2>1 DEF Anchor, AnchorOf, ByDay
  <2>2. ASSUME tree[f].top = Root
        PROVE  ~ \E d \in Top : \A h \in Group(f) : tree[h].top = d
    BY <1>1, <2>2, PlanningAssumption DEF PlanningAssumption
  <2>3. CASE grouping = "auto" /\ tree[f].top = Root
    BY <2>2, <2>3 DEF Anchor, AnchorOf, ByDay
  <2>4. CASE grouping \in {"auto", "folder"} /\ ~ByDay(f)
    <3>1. \A h \in Group(f) : tree[h].top = tree[f].top
      BY <2>4 DEF Group, GroupKey, ByDay
    <3>2. CASE tree[f].top \in Top
      <4>1. \A d \in Top :
              (\A h \in Group(f) : tree[h].top = d) <=> d = tree[f].top
        BY <1>1, <3>1
      <4>2. QED
        BY <2>4, <3>2, <4>1 DEF Anchor, AnchorOf
    <3>3. CASE tree[f].top = Root
      <4>1. grouping = "folder"
        BY <2>4, <3>3 DEF ByDay
      <4>2. QED
        BY <2>2, <2>4, <3>1, <3>3, <4>1 DEF Anchor, AnchorOf
    <3>4. QED
      BY <1>2, <3>2, <3>3 DEF Dir
  <2>5. QED
    BY <1>3, <2>1, <2>3, <2>4 DEF ByDay
<1>5. AnchorOf(f) \in Dir \cup {None}
  BY <1>2 DEF AnchorOf
<1>6. /\ Earliest(Group(f)) \in Day
      /\ AnchorOf(f) = None => Earliest(Group(f)) = tree[f].day
  <2> DEFINE days == {tree[h].day : h \in Group(f)}
  <2>1. \A h \in Scanned : tree[h].day \in Day
    BY DEF PlanningTypeOK, Scanned
  <2>2. days \subseteq Day /\ days # {} /\ days \subseteq Nat
    BY <1>1, <2>1, PlanningAssumption DEF PlanningAssumption
  <2>3. \E d \in days : \A e \in days : d <= e
    <3> HIDE DEF days
    <3> QED
      BY <2>2, LeastDay
  <2>4. \E d \in days : \A h \in Group(f) : d <= tree[h].day
    BY <2>3
  <2>5. Earliest(Group(f)) \in days
    BY <2>4 DEF Earliest
  <2>6. ASSUME AnchorOf(f) = None
        PROVE  \A h \in Group(f) : tree[h].day = tree[f].day
    <3>1. None \notin Dir
      BY PlanningAssumption DEF PlanningAssumption, Dir
    <3>2. ByDay(f) /\ grouping # "single"
      BY <1>2, <2>6, <3>1 DEF AnchorOf
    <3>3. QED
      BY <3>2 DEF Group, GroupKey
  <2>7. QED
    BY <1>1, <2>2, <2>5, <2>6
<1>7. DerivedTitle(f) \in MadeTitle
  BY <1>2, <1>3 DEF DerivedTitle, MadeTitle, ByDay, Dir
<1>8. NodeKey(f) =
        IF AnchorOf(f) = None
        THEN [date |-> Earliest(Group(f)), title |-> DerivedTitle(f)]
        ELSE Filled(sheet[AnchorOf(f)], Earliest(Group(f)), DerivedTitle(f))
  BY <1>4 DEF NodeKey, SheetOf, Filled
<1>9. QED
  BY <1>4, <1>5, <1>6, <1>7, <1>8

\* Files of one sheet are one group.
LEMMA SameAnchor ==
    ASSUME PlanningTypeOK, NEW f \in Scanned, NEW h \in Scanned,
           AnchorOf(f) = AnchorOf(h), AnchorOf(f) # None
    PROVE  DerivedTitle(f) = DerivedTitle(h) /\ Group(f) = Group(h)
<1>1. CASE grouping = "single"
  BY <1>1 DEF DerivedTitle, Group, GroupKey
<1>2. CASE grouping # "single"
  <2>1. /\ ~ByDay(f) /\ ~ByDay(h)
        /\ tree[f].top = tree[h].top
    BY <1>2 DEF AnchorOf
  <2>2. GroupKey(f) = GroupKey(h)
    BY <1>2, <2>1 DEF GroupKey
  <2>3. Group(f) = Group(h)
    BY <2>2 DEF Group
  <2>4. QED
    BY <1>2, <2>1, <2>3 DEF DerivedTitle
<1>3. QED
  BY <1>1, <1>2

\* The grouping of the files is as it was.
LEMMA SameFiles ==
    ASSUME UNCHANGED <<tree, grouping>>
    PROVE  /\ Scanned' = Scanned
           /\ \A f \in Scanned :
                /\ AnchorOf(f)' = AnchorOf(f)
                /\ Group(f)' = Group(f)
                /\ Earliest(Group(f))' = Earliest(Group(f))
                /\ DerivedTitle(f)' = DerivedTitle(f)
  BY DEF Scanned, AnchorOf, ByDay, Group, GroupKey, DerivedTitle, Earliest

LEMMA PlanningStep == PlanningInv /\ [PlanningNext]_planVars => PlanningInv'
<1> SUFFICES ASSUME PlanningInv, [PlanningNext]_planVars PROVE PlanningInv'
  OBVIOUS
<1>1. PlanningTypeOK /\ FileFacts
  BY Facts DEF PlanningInv
<1>2. PlanningTypeOK'
  <2>1. ASSUME NEW f \in Pick, NEW d \in Dir, NEW day \in Day,
               AddFile(f, d, day)
        PROVE  PlanningTypeOK'
    BY <1>1, <2>1 DEF PlanningTypeOK, AddFile
  <2>2. ASSUME NEW d \in Dir, NEW s \in Sheet \cup {None}, WriteSheet(d, s)
        PROVE  PlanningTypeOK'
    BY <1>1, <2>2 DEF PlanningTypeOK, WriteSheet, Sheet
  <2>3. CASE EmitManifests
    BY <1>1, <2>3 DEF PlanningTypeOK, EmitManifests, Rendered
  <2>4. CASE UNCHANGED planVars
    BY <1>1, <2>4 DEF PlanningTypeOK, planVars
  <2>5. QED
    BY <2>1, <2>2, <2>3, <2>4 DEF PlanningNext
<1>3. (PlanningTypeOK => FileFacts)'
  BY Facts, PTL
<1>4. FileFacts'
  BY <1>2, <1>3
\* It is enough to look at one file.
<1>5. SUFFICES ASSUME NEW h \in Pick, settled'[h] # None
               PROVE  /\ h \in Scanned'
                      /\ NodeKey(h)' = settled'[h]
                      /\ AnchorOf(h)' # None =>
                           /\ sheet'[AnchorOf(h)'] # None
                           /\ sheet'[AnchorOf(h)'].date # None
  BY <1>2 DEF PlanningInv, SettledHolds
<1>6. settled[h] # None =>
        /\ h \in Scanned /\ NodeKey(h) = settled[h]
        /\ AnchorOf(h) # None =>
             /\ sheet[AnchorOf(h)] # None
             /\ sheet[AnchorOf(h)].date # None
  BY DEF PlanningInv, SettledHolds
<1>7. ASSUME NEW f \in Pick, NEW d \in Dir, NEW day \in Day,
             AddFile(f, d, day)
      PROVE  /\ h \in Scanned'
             /\ NodeKey(h)' = settled'[h]
             /\ AnchorOf(h)' # None =>
                  /\ sheet'[AnchorOf(h)'] # None
                  /\ sheet'[AnchorOf(h)'].date # None
  <2>1. /\ settled[h] # None /\ settled' = settled /\ sheet' = sheet
        /\ grouping' = grouping
    BY <1>5, <1>7 DEF AddFile
  <2>2. h \in Scanned /\ h # f /\ tree'[h] = tree[h]
    BY <1>1, <1>6, <1>7, <2>1 DEF AddFile, Scanned, PlanningTypeOK
  <2>3. h \in Scanned'
    BY <2>2 DEF Scanned
  <2>4. AnchorOf(h)' = AnchorOf(h) /\ DerivedTitle(h)' = DerivedTitle(h)
    BY <2>1, <2>2 DEF AnchorOf, DerivedTitle, ByDay
  <2>5. NodeKey(h)' = NodeKey(h)
    <3>1. CASE AnchorOf(h) = None
      BY <1>1, <1>4, <2>2, <2>3, <2>4, <3>1 DEF FileFacts
    <3>2. CASE AnchorOf(h) # None
      BY <1>1, <1>4, <1>6, <2>1, <2>2, <2>3, <2>4, <3>2
         DEF FileFacts, Filled
    <3>3. QED
      BY <3>1, <3>2
  <2>6. QED
    BY <1>6, <2>1, <2>3, <2>4, <2>5
<1>8. ASSUME NEW d \in Dir, NEW s \in Sheet \cup {None}, WriteSheet(d, s)
      PROVE  /\ h \in Scanned'
             /\ NodeKey(h)' = settled'[h]
             /\ AnchorOf(h)' # None =>
                  /\ sheet'[AnchorOf(h)'] # None
                  /\ sheet'[AnchorOf(h)'].date # None
  <2>1. /\ settled'[h] = settled[h] /\ settled[h] # None
        /\ ~(h \in Scanned /\ Anchor(Group(h)) = d)
        /\ tree' = tree /\ grouping' = grouping
        /\ sheet' = [sheet EXCEPT ![d] = s]
    BY <1>5, <1>8 DEF WriteSheet
  <2>2. h \in Scanned /\ AnchorOf(h) # d
    BY <1>1, <1>6, <2>1 DEF FileFacts
  <2>3. /\ h \in Scanned' /\ AnchorOf(h)' = AnchorOf(h)
        /\ DerivedTitle(h)' = DerivedTitle(h)
        /\ Earliest(Group(h))' = Earliest(Group(h))
    BY <2>1, <2>2, SameFiles
  <2>4. sheet'[AnchorOf(h)] = sheet[AnchorOf(h)]
    BY <1>1, <2>1, <2>2 DEF PlanningTypeOK
  <2>5. NodeKey(h)' = NodeKey(h)
    BY <1>1, <1>4, <2>2, <2>3, <2>4 DEF FileFacts
  <2>6. QED
    BY <1>6, <2>1, <2>3, <2>4, <2>5
<1>9. CASE EmitManifests
  <2> DEFINE Spoken(d) == sheet[d] = None /\
                          \E f \in Scanned : Anchor(Group(f)) = d
             Speaker(d) == CHOOSE f \in Scanned : Anchor(Group(f)) = d
             d == AnchorOf(h)
             made == [date |-> Earliest(Group(h)), title |-> DerivedTitle(h)]
  <2>1. /\ tree' = tree /\ grouping' = grouping
        /\ sheet' = [e \in Dir |-> IF Spoken(e) THEN Rendered(Speaker(e))
                                   ELSE sheet[e]]
        /\ settled' = [f \in Pick |-> IF f \in Scanned /\ Holds(f)
                                      THEN NodeKey(f) ELSE settled[f]]
    BY <1>9 DEF EmitManifests
  <2>2. h \in Scanned
    BY <1>5, <1>6, <2>1
  <2>3. /\ h \in Scanned' /\ AnchorOf(h)' = d
        /\ DerivedTitle(h)' = DerivedTitle(h)
        /\ Earliest(Group(h))' = Earliest(Group(h))
    BY <2>1, <2>2, SameFiles
  <2>4. Anchor(Group(h)) = d /\ d \in Dir \cup {None}
    BY <1>1, <2>2 DEF FileFacts
  <2>5. settled'[h] = NodeKey(h)
    BY <1>5, <1>6, <2>1
  <2>6. ASSUME d # None
        PROVE  sheet[d] = None \/ sheet[d].date # None
    <3>1. CASE Holds(h)
      BY <2>4, <2>6, <3>1 DEF Holds
    <3>2. CASE ~Holds(h)
      BY <1>5, <1>6, <2>1, <2>6, <3>2
    <3>3. QED
      BY <3>1, <3>2
  <2>7. made # None /\ made.date # None
    <3>1. made \in [date : Day, title : MadeTitle] /\ made.date \in Day
      BY <1>1, <2>2 DEF FileFacts
    <3>2. QED
      BY <3>1, PlanningAssumption DEF PlanningAssumption
  <2>8. ASSUME d # None, sheet[d] = None
        PROVE  sheet'[d] = made /\ NodeKey(h) = made
    <3> DEFINE g == Speaker(d)
    <3>1. g \in Scanned /\ Anchor(Group(g)) = d
      BY <2>2, <2>4
    <3>2. AnchorOf(g) = d
      BY <1>1, <3>1 DEF FileFacts
    <3>3. DerivedTitle(g) = DerivedTitle(h) /\ Group(g) = Group(h)
      BY <1>1, <2>2, <2>8, <3>1, <3>2, SameAnchor
    <3>4. NodeKey(g) = made /\ NodeKey(h) = made
      BY <1>1, <2>2, <2>8, <3>1, <3>2, <3>3 DEF FileFacts, Filled
    <3>5. sheet'[d] = Rendered(g)
      BY <2>1, <2>2, <2>4, <2>8
    <3>6. QED
      BY <3>4, <3>5 DEF Rendered
  <2>9. ASSUME d # None, sheet[d] # None
        PROVE  sheet'[d] = sheet[d]
    BY <2>1, <2>4, <2>9
  <2>10. NodeKey(h)' = NodeKey(h)
    <3>1. CASE d = None
      BY <1>1, <1>4, <2>2, <2>3, <3>1 DEF FileFacts
    <3>2. CASE d # None /\ sheet[d] = None
      <4>1. NodeKey(h)' = Filled(sheet'[d], made.date, made.title)
        BY <1>4, <2>3, <3>2 DEF FileFacts
      <4>2. QED
        BY <2>8, <3>2, <4>1 DEF Filled
    <3>3. CASE d # None /\ sheet[d] # None
      BY <1>1, <1>4, <2>2, <2>3, <2>9, <3>3 DEF FileFacts
    <3>4. QED
      BY <3>1, <3>2, <3>3
  <2>11. d # None => sheet'[d] # None /\ sheet'[d].date # None
    BY <2>6, <2>7, <2>8, <2>9
  <2>12. QED
    BY <2>3, <2>5, <2>10, <2>11
<1>10. CASE UNCHANGED planVars
  <2>1. UNCHANGED <<tree, grouping, sheet, settled>>
    BY <1>10 DEF planVars
  <2>2. h \in Scanned
    BY <1>5, <1>6, <2>1
  <2>3. /\ h \in Scanned' /\ AnchorOf(h)' = AnchorOf(h)
        /\ DerivedTitle(h)' = DerivedTitle(h)
        /\ Earliest(Group(h))' = Earliest(Group(h))
    BY <2>1, <2>2, SameFiles
  <2>4. NodeKey(h)' = NodeKey(h)
    BY <1>1, <1>4, <2>1, <2>2, <2>3 DEF FileFacts
  <2>5. QED
    BY <1>5, <1>6, <2>1, <2>3, <2>4
<1>11. QED
  BY <1>7, <1>8, <1>9, <1>10 DEF PlanningNext

\* The inductive invariant of planning.
THEOREM PlanningInvariant == PlanningSpec => []PlanningInv
<1>1. PlanningInit => PlanningInv
  BY DEF PlanningInit, PlanningInv, PlanningTypeOK, SettledHolds
<1>2. QED
  BY <1>1, PlanningStep, PTL DEF PlanningSpec

\* Type correctness of planning.
THEOREM PlanningTypeCorrect == PlanningSpec => []PlanningTypeOK
<1>1. PlanningInv => PlanningTypeOK
  BY DEF PlanningInv
<1>2. QED
  BY <1>1, PlanningInvariant, PTL

\* emit.go:20-44: a file that has been emitted keeps its node, whatever files
\* are added around it, for any tree, any titles and every grouping.
THEOREM PlanningEmittedStay == PlanningSpec => []EmittedNodesStay
<1>1. PlanningInv => EmittedNodesStay
  BY DEF PlanningInv, SettledHolds, EmittedNodesStay
<1>2. QED
  BY <1>1, PlanningInvariant, PTL
-----------------------------------------------------------------------------
(* The command line tool *)

\* A step of the tool is a step of one part, and the others rest.
LEMMA ToolStep ==
    ASSUME [Next]_vars
    PROVE  /\ [RateNext]_rateVars
           /\ [ImporterNext]_importVars
           /\ [PlanningNext]_planVars
           /\ [ExportNext]_exportVars
<1>1. CASE BucketPart
  BY <1>1 DEF BucketPart
<1>2. CASE ImportPart
  BY <1>2 DEF ImportPart
<1>3. CASE PlanPart
  BY <1>3 DEF PlanPart
<1>4. CASE ExportPart
  BY <1>4 DEF ExportPart
<1>5. CASE UNCHANGED vars
  BY <1>5 DEF vars
<1> QED
  BY <1>1, <1>2, <1>3, <1>4, <1>5 DEF Next

\* The tool behaves, seen from each part, as that part does alone.
THEOREM ToolComposes ==
    Spec => RateSpec /\ ImporterSpec /\ PlanningSpec /\ ExportSpec
<1>1. Init => RateInit /\ ImporterInit /\ PlanningInit /\ ExportInit
  BY DEF Init
<1>2. [Next]_vars => /\ [RateNext]_rateVars
                     /\ [ImporterNext]_importVars
                     /\ [PlanningNext]_planVars
                     /\ [ExportNext]_exportVars
  BY ToolStep
<1> QED
  BY <1>1, <1>2, PTL
     DEF Spec, RateSpec, ImporterSpec, PlanningSpec, ExportSpec

\* Type correctness of all four parts.
THEOREM ToolTypeCorrect == Spec => []TypeOK
<1>1. RateTypeOK /\ ImporterTypeOK /\ PlanningTypeOK /\ ExportTypeOK => TypeOK
  BY DEF TypeOK
<1> QED
  BY <1>1, ToolComposes, BucketTypeCorrect, ImporterTypeCorrect,
     PlanningTypeCorrect, ExportTypeCorrect, PTL

\* Whatever is imported, planned and exported: the bucket and its advice are
\* fair; what a run counts is stored, it fails for cause and is not repeated;
\* what sheets have settled stays.
THEOREM ToolSafe ==
    Spec => /\ [](WindowBound /\ AdviceSuffices)
            /\ [](CountedIsStored /\ NoNeedlessNode)
            /\ [](RerunAddsNothing /\ EmittedNodesStay)
            /\ FailsForCause
<1> QED
  BY ToolComposes, BucketWindowBound, BucketAdviceSuffices,
     ImporterCountedIsStored, ImporterNodes, ImporterRerun,
     PlanningEmittedStay, ImporterFailsForCause, PTL

\* And the export of the tool is faithful where the export alone is.
THEOREM ToolExportsFaithfully ==
    ASSUME SizesDiffer, NoTextCaptions
    PROVE  Spec => []ExportFaithful
<1>1. ExportSpec => []ExportFaithful
  BY ExportIsFaithful
<1> QED
  BY <1>1, ToolComposes, PTL
=============================================================================
