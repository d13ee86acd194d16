-------------------------- MODULE Library_proofs ---------------------------
(***************************************************************************)
(* Proofs about the cached statistics, for any writes, readers and TTL,    *)
(* and about the letters; and then of the library as a whole, which        *)
(* behaves, seen from each of its parts, as that part does alone.          *)
(*                                                                         *)
(* Of the statistics the mutex makes the argument: between a query and the *)
(* fill that uses it no write can announce itself, so what a reader has in *)
(* hand holds all that was announced; and what it misses was committed     *)
(* after the query, which the age of the cache remembers.                  *)
(***************************************************************************)
EXTENDS MCLibrary, Timeline_proofs

-----------------------------------------------------------------------------
(* Statistics: types *)

\* Type correctness, with who holds the mutex.
THEOREM StatsTypeCorrect == StatsSpec => []StatsTypeOK
<1> USE StatsAssumption
<1>1. StatsInit => StatsTypeOK
  BY DEF StatsInit, StatsTypeOK
<1>2. StatsTypeOK /\ [StatsNext]_statsVars => StatsTypeOK'
  <2> SUFFICES ASSUME StatsTypeOK, [StatsNext]_statsVars
               PROVE  StatsTypeOK'
    OBVIOUS
  <2>1. ASSUME NEW w \in Write, CommitWrite(w)
        PROVE  StatsTypeOK'
    BY <2>1 DEF CommitWrite, StatsTypeOK
  <2>2. ASSUME NEW w \in Write, InvalidateAndAnswer(w)
        PROVE  StatsTypeOK'
    BY <2>2 DEF InvalidateAndAnswer, StatsTypeOK
  <2>3. ASSUME NEW w \in Write, AnswerQuietly(w)
        PROVE  StatsTypeOK'
    BY <2>3 DEF AnswerQuietly, StatsTypeOK
  <2>4. ASSUME NEW w \in Write, FailAfterCommit(w)
        PROVE  StatsTypeOK'
    BY <2>4 DEF FailAfterCommit, StatsTypeOK
  <2>5. ASSUME NEW r \in Reader, Ask(r)
        PROVE  StatsTypeOK'
    <3>1. Announced \subseteq Write
      BY DEF Announced
    <3> QED
      BY <2>5, <3>1 DEF Ask, StatsTypeOK
  <2>6. ASSUME NEW r \in Reader, Hit(r)
        PROVE  StatsTypeOK'
    <3>1. cache.holds \in SUBSET Write
      BY <2>6 DEF Hit, Fresh, StatsTypeOK
    <3> QED
      BY <2>6, <3>1 DEF Hit, StatsTypeOK
  <2>7. ASSUME NEW r \in Reader, Miss(r)
        PROVE  StatsTypeOK'
    BY <2>7 DEF Miss, StatsTypeOK
  <2>8. ASSUME NEW r \in Reader, Query(r)
        PROVE  StatsTypeOK'
    <3>1. Committed \subseteq Write
      BY DEF Committed
    <3> QED
      BY <2>8, <3>1 DEF Query, StatsTypeOK
  <2>9. ASSUME NEW r \in Reader, QueryFails(r)
        PROVE  StatsTypeOK'
    BY <2>9 DEF QueryFails, StatsTypeOK
  <2>10. ASSUME NEW r \in Reader, Fill(r)
         PROVE  StatsTypeOK'
    <3>1. cache' \in [holds : SUBSET Write, age : 0..TTL]
      BY <2>10 DEF Fill, StatsTypeOK
    <3> QED
      BY <2>10, <3>1 DEF Fill, StatsTypeOK
  <2>11. CASE StatsTick
    <3>1. since' \in [Write -> 0..TTL]
      BY <2>11 DEF StatsTick, StatsTypeOK
    <3>2. cache' \in [holds : SUBSET Write, age : 0..TTL] \cup {None}
      BY <2>11 DEF StatsTick, StatsTypeOK
    <3> QED
      BY <2>11, <3>1, <3>2 DEF StatsTick, StatsTypeOK
  <2>12. CASE StatsRestart
    BY <2>12 DEF StatsRestart, StatsTypeOK
  <2>13. CASE UNCHANGED statsVars
    BY <2>13 DEF statsVars, StatsTypeOK
  <2> QED
    BY <2>1, <2>2, <2>3, <2>4, <2>5, <2>6, <2>7, <2>8, <2>9, <2>10, <2>11,
       <2>12, <2>13 DEF StatsNext
<1> QED
  BY <1>1, <1>2, PTL DEF StatsSpec

-----------------------------------------------------------------------------
(* Statistics: the inductive invariant *)

\* What is announced is in the cache and in the hands of the reader that is
\* about to fill it.
HoldsAnnounced ==
    /\ cache # None => Announced \subseteq cache.holds
    /\ \A r \in Reader : reading[r] = "queried" => Announced \subseteq result[r]

\* A reader is owed what was announced, and has it when it is done.
OwesAnnounced ==
    \A r \in Reader :
        /\ owed[r] \subseteq Announced
        /\ reading[r] = "idle" => owed[r] \subseteq result[r]

\* What the cache misses was committed after its numbers were taken.
MissesRecent ==
    /\ \A w \in Write : progress[w] = "todo" => since[w] = 0
    /\ cache # None =>
         \A w \in Committed : w \in cache.holds \/ since[w] <= cache.age
    /\ \A r \in Reader : reading[r] = "queried" =>
         \A w \in Committed : w \in result[r] \/ since[w] = 0

StatsInv == StatsTypeOK /\ HoldsAnnounced /\ OwesAnnounced /\ MissesRecent

\* One reader at a time holds the mutex.
LEMMA MutexFree ==
    ASSUME StatsTypeOK, statsMu = None
    PROVE  \A r \in Reader : reading[r] \notin {"locked", "queried"}
BY StatsAssumption DEF StatsTypeOK

LEMMA MutexHeld ==
    ASSUME StatsTypeOK, NEW r \in Reader, reading[r] \in {"locked", "queried"}
    PROVE  \A q \in Reader \ {r} : reading[q] \notin {"locked", "queried"}
BY DEF StatsTypeOK

LEMMA AnnouncedKept ==
    ASSUME StatsTypeOK, HoldsAnnounced, [StatsNext]_statsVars
    PROVE  HoldsAnnounced'
<1>1. ASSUME NEW w \in Write, CommitWrite(w)
      PROVE  HoldsAnnounced'
  <2>1. Announced' = Announced
    BY <1>1 DEF CommitWrite, Announced, StatsTypeOK
  <2> QED
    BY <1>1, <2>1 DEF CommitWrite, HoldsAnnounced
<1>2. ASSUME NEW w \in Write, InvalidateAndAnswer(w)
      PROVE  HoldsAnnounced'
  <2>1. \A r \in Reader : reading[r] # "queried"
    BY <1>2, MutexFree DEF InvalidateAndAnswer, MayInvalidate
  <2> QED
    BY <1>2, <2>1 DEF InvalidateAndAnswer, HoldsAnnounced
<1>3. ASSUME NEW w \in Write, AnswerQuietly(w)
      PROVE  HoldsAnnounced'
  <2>1. Announced' = Announced
    BY <1>3 DEF AnswerQuietly, Announced, StatsTypeOK
  <2> QED
    BY <1>3, <2>1 DEF AnswerQuietly, HoldsAnnounced
<1>4. ASSUME NEW w \in Write, FailAfterCommit(w)
      PROVE  HoldsAnnounced'
  <2>1. Announced' = Announced
    BY <1>4 DEF FailAfterCommit, Announced, StatsTypeOK
  <2> QED
    BY <1>4, <2>1 DEF FailAfterCommit, HoldsAnnounced
<1>5. ASSUME NEW r \in Reader, Ask(r) \/ Hit(r) \/ Miss(r) \/ QueryFails(r)
      PROVE  HoldsAnnounced'
  <2>1. Announced' = Announced /\ cache' = cache
    BY <1>5 DEF Ask, Hit, Miss, QueryFails, Announced
  <2>2. \A q \in Reader : reading'[q] = "queried" =>
           reading[q] = "queried" /\ result'[q] = result[q]
    BY <1>5 DEF Ask, Hit, Miss, QueryFails, StatsTypeOK
  <2> QED
    BY <2>1, <2>2 DEF HoldsAnnounced
<1>6. ASSUME NEW r \in Reader, Query(r)
      PROVE  HoldsAnnounced'
  <2>1. Announced' = Announced /\ Announced \subseteq Committed
    BY <1>6 DEF Query, Announced, Committed
  <2>2. \A q \in Reader : reading'[q] = "queried" => q = r
    BY <1>6, MutexHeld DEF Query, StatsTypeOK
  <2>3. result'[r] = Committed
    BY <1>6 DEF Query, StatsTypeOK
  <2> QED
    BY <1>6, <2>1, <2>2, <2>3 DEF Query, HoldsAnnounced
<1>7. ASSUME NEW r \in Reader, Fill(r)
      PROVE  HoldsAnnounced'
  <2>1. Announced' = Announced /\ cache'.holds = result[r]
    BY <1>7 DEF Fill, Announced
  <2>2. \A q \in Reader : reading'[q] # "queried"
    BY <1>7, MutexHeld DEF Fill, StatsTypeOK
  <2> QED
    BY <1>7, <2>1, <2>2 DEF Fill, HoldsAnnounced
<1>8. CASE StatsTick
  <2>1. Announced' = Announced
    BY <1>8 DEF StatsTick, Announced
  <2>2. cache' # None => cache # None /\ cache'.holds = cache.holds
    BY <1>8, StatsAssumption DEF StatsTick, StatsTypeOK
  <2> QED
    BY <1>8, <2>1, <2>2 DEF StatsTick, HoldsAnnounced
<1>9. CASE StatsRestart
  BY <1>9 DEF StatsRestart, HoldsAnnounced
<1>10. CASE UNCHANGED statsVars
  BY <1>10 DEF statsVars, HoldsAnnounced, Announced
<1> QED
  BY <1>1, <1>2, <1>3, <1>4, <1>5, <1>6, <1>7, <1>8, <1>9, <1>10
     DEF StatsNext

LEMMA OwedKept ==
    ASSUME StatsTypeOK, HoldsAnnounced, OwesAnnounced, [StatsNext]_statsVars
    PROVE  OwesAnnounced'
<1>1. Announced \subseteq Announced'
  BY DEF StatsNext, CommitWrite, InvalidateAndAnswer, AnswerQuietly,
         FailAfterCommit, Ask, Hit, Miss, Query, QueryFails, Fill, StatsTick,
         StatsRestart, statsVars, Announced, StatsTypeOK
<1>2. ASSUME NEW w \in Write,
             CommitWrite(w) \/ InvalidateAndAnswer(w) \/ AnswerQuietly(w)
               \/ FailAfterCommit(w)
      PROVE  OwesAnnounced'
  BY <1>1, <1>2 DEF CommitWrite, InvalidateAndAnswer, AnswerQuietly,
                    FailAfterCommit, OwesAnnounced
<1>3. ASSUME NEW r \in Reader, Ask(r) \/ Miss(r) \/ Query(r) \/ QueryFails(r)
      PROVE  OwesAnnounced'
  <2> SUFFICES ASSUME NEW q \in Reader
               PROVE  /\ owed'[q] \subseteq Announced'
                      /\ reading'[q] = "idle" => owed'[q] \subseteq result'[q]
    BY DEF OwesAnnounced
  <2>1. CASE q = r
    BY <1>1, <1>3, <2>1
       DEF Ask, Miss, Query, QueryFails, OwesAnnounced, StatsTypeOK
  <2>2. CASE q # r
    <3>1. /\ owed'[q] = owed[q] /\ reading'[q] = reading[q]
          /\ result'[q] = result[q]
      BY <1>3, <2>2 DEF Ask, Miss, Query, QueryFails, StatsTypeOK
    <3> QED
      BY <1>1, <3>1 DEF OwesAnnounced
  <2> QED
    BY <2>1, <2>2
<1>4. ASSUME NEW r \in Reader, Hit(r)
      PROVE  OwesAnnounced'
  <2>1. Announced \subseteq cache.holds
    BY <1>4 DEF Hit, Fresh, HoldsAnnounced
  <2>2. owed' = owed /\ result' = [result EXCEPT ![r] = cache.holds]
        /\ reading' = [reading EXCEPT ![r] = "idle"]
    BY <1>4 DEF Hit
  <2> QED
    BY <1>1, <2>1, <2>2 DEF OwesAnnounced, StatsTypeOK
<1>5. ASSUME NEW r \in Reader, Fill(r)
      PROVE  OwesAnnounced'
  <2>1. Announced \subseteq result[r]
    BY <1>5 DEF Fill, HoldsAnnounced
  <2>2. owed' = owed /\ result' = result
        /\ reading' = [reading EXCEPT ![r] = "idle"]
    BY <1>5 DEF Fill
  <2> QED
    BY <1>1, <2>1, <2>2 DEF OwesAnnounced, StatsTypeOK
<1>6. CASE StatsTick
  BY <1>1, <1>6 DEF StatsTick, OwesAnnounced
<1>7. CASE StatsRestart
  BY <1>1, <1>7 DEF StatsRestart, OwesAnnounced
<1>8. CASE UNCHANGED statsVars
  BY <1>1, <1>8 DEF statsVars, OwesAnnounced
<1> QED
  BY <1>2, <1>3, <1>4, <1>5, <1>6, <1>7, <1>8 DEF StatsNext

LEMMA RecentKept ==
    ASSUME StatsTypeOK, MissesRecent, [StatsNext]_statsVars
    PROVE  MissesRecent'
<1> USE StatsAssumption
<1>1. ASSUME NEW w \in Write, CommitWrite(w)
      PROVE  MissesRecent'
  <2>1. Committed' = Committed \cup {w} /\ since[w] = 0
    BY <1>1 DEF CommitWrite, Committed, MissesRecent, StatsTypeOK
  <2>2. \A v \in Write : progress'[v] = "todo" => progress[v] = "todo"
    BY <1>1 DEF CommitWrite, StatsTypeOK
  <2>3. since' = since /\ cache' = cache /\ reading' = reading
        /\ result' = result
    BY <1>1 DEF CommitWrite
  <2>4. cache # None => cache.age \in Nat
    BY DEF StatsTypeOK
  <2> QED
    BY <2>1, <2>2, <2>3, <2>4 DEF MissesRecent
<1>2. ASSUME NEW w \in Write,
             InvalidateAndAnswer(w) \/ AnswerQuietly(w) \/ FailAfterCommit(w)
      PROVE  MissesRecent'
  <2>1. Committed' = Committed
    BY <1>2 DEF InvalidateAndAnswer, AnswerQuietly, FailAfterCommit,
                Committed, StatsTypeOK
  <2>2. \A v \in Write : progress'[v] = "todo" => progress[v] = "todo"
    BY <1>2 DEF InvalidateAndAnswer, AnswerQuietly, FailAfterCommit,
                StatsTypeOK
  <2>3. /\ since' = since /\ cache' \in {cache, None}
        /\ reading' = reading /\ result' = result
    BY <1>2 DEF InvalidateAndAnswer, AnswerQuietly, FailAfterCommit
  <2> QED
    BY <2>1, <2>2, <2>3 DEF MissesRecent
<1>3. ASSUME NEW r \in Reader, Ask(r) \/ Hit(r) \/ Miss(r) \/ QueryFails(r)
      PROVE  MissesRecent'
  <2>1. /\ Committed' = Committed /\ cache' = cache /\ since' = since
        /\ progress' = progress
    BY <1>3 DEF Ask, Hit, Miss, QueryFails, Committed
  <2>2. \A q \in Reader : reading'[q] = "queried" =>
           reading[q] = "queried" /\ result'[q] = result[q]
    BY <1>3 DEF Ask, Hit, Miss, QueryFails, StatsTypeOK
  <2> QED
    BY <2>1, <2>2 DEF MissesRecent
<1>4. ASSUME NEW r \in Reader, Query(r)
      PROVE  MissesRecent'
  <2>1. /\ Committed' = Committed /\ cache' = cache /\ since' = since
        /\ progress' = progress
    BY <1>4 DEF Query, Committed
  <2>2. \A q \in Reader : reading'[q] = "queried" => q = r
    BY <1>4, MutexHeld DEF Query, StatsTypeOK
  <2>3. result'[r] = Committed
    BY <1>4 DEF Query, StatsTypeOK
  <2> QED
    BY <2>1, <2>2, <2>3 DEF MissesRecent
<1>5. ASSUME NEW r \in Reader, Fill(r)
      PROVE  MissesRecent'
  <2>1. /\ Committed' = Committed /\ since' = since /\ progress' = progress
        /\ cache' = [holds |-> result[r], age |-> 0]
    BY <1>5 DEF Fill, Committed
  <2>2. \A q \in Reader : reading'[q] # "queried"
    BY <1>5, MutexHeld DEF Fill, StatsTypeOK
  <2>3. \A w \in Committed : w \in result[r] \/ since[w] = 0
    BY <1>5 DEF Fill, MissesRecent
  <2> QED
    BY <2>1, <2>2, <2>3 DEF MissesRecent
<1>6. CASE StatsTick
  <2>1. Committed' = Committed /\ progress' = progress /\ reading' = reading
    BY <1>6 DEF StatsTick, Committed
  <2>2. \A r \in Reader : reading[r] # "queried"
    BY <1>6 DEF StatsTick
  <2>3. \A w \in Write : progress[w] = "todo" => since'[w] = since[w]
    BY <1>6 DEF StatsTick, Committed
  <2>4. ASSUME cache' # None, NEW w \in Committed
        PROVE  w \in cache'.holds \/ since'[w] <= cache'.age
    <3>1. /\ cache # None /\ cache'.holds = cache.holds
          /\ cache.age \in 0..TTL
          /\ cache'.age = IF cache.age < TTL THEN cache.age + 1
                          ELSE cache.age
      BY <1>6, <2>4 DEF StatsTick, StatsTypeOK
    <3>2. /\ w \in Write /\ since[w] \in 0..TTL
          /\ since'[w] = IF since[w] < TTL THEN since[w] + 1 ELSE since[w]
      BY <1>6 DEF StatsTick, Committed, StatsTypeOK
    <3>3. w \in cache.holds \/ since[w] <= cache.age
      BY <3>1 DEF MissesRecent
    <3> QED
      BY <3>1, <3>2, <3>3
  <2> QED
    BY <2>1, <2>2, <2>3, <2>4 DEF MissesRecent
<1>7. CASE StatsRestart
  <2>1. \A v \in Write : progress'[v] = "todo" => progress[v] = "todo"
    BY <1>7 DEF StatsRestart, StatsTypeOK
  <2> QED
    BY <1>7, <2>1 DEF StatsRestart, MissesRecent
<1>8. CASE UNCHANGED statsVars
  BY <1>8 DEF statsVars, MissesRecent, Committed
<1> QED
  BY <1>1, <1>2, <1>3, <1>4, <1>5, <1>6, <1>7, <1>8 DEF StatsNext

\* The inductive invariant of the cache.
THEOREM StatsInvariant == StatsSpec => []StatsInv
<1>1. StatsInit => HoldsAnnounced /\ OwesAnnounced /\ MissesRecent
  BY StatsAssumption DEF StatsInit, HoldsAnnounced, OwesAnnounced,
     MissesRecent, Committed, Announced
<1>2. StatsInv /\ [StatsNext]_statsVars
        => HoldsAnnounced' /\ OwesAnnounced' /\ MissesRecent'
  BY AnnouncedKept, OwedKept, RecentKept DEF StatsInv
<1> QED
  BY <1>1, <1>2, StatsTypeCorrect, PTL DEF StatsSpec, StatsInv

-----------------------------------------------------------------------------
(* Statistics: what follows *)

\* An answer shows every write announced before it was asked for
\* (timeline.go:244-270), for any number of writes and readers and any TTL.
THEOREM StatsReadsWrites == StatsSpec => []StatsReadYourWrites
<1>1. StatsInv => StatsReadYourWrites
  <2> SUFFICES ASSUME StatsInv, NEW r \in Reader,
                      reading[r] \in {"idle", "queried"}
               PROVE  owed[r] \subseteq result[r]
    BY DEF StatsReadYourWrites
  <2> QED
    BY DEF StatsInv, OwesAnnounced, HoldsAnnounced
<1> QED
  BY <1>1, StatsInvariant, PTL

\* A write that was not announced is in every answer given once it is as old
\* as the cache may get (timeline.go:246).
THEOREM StatsMinuteOld == StatsSpec => StatsAtMostMinuteOld
<1> DEFINE Old ==
      \A r \in Reader : StatsAnswer(r) =>
        \A w \in Committed : since[w] = TTL => w \in result'[r]
<1>1. StatsInv => Old
  <2> SUFFICES ASSUME StatsInv, NEW r \in Reader, StatsAnswer(r),
                      NEW w \in Committed, since[w] = TTL
               PROVE  w \in result'[r]
    OBVIOUS
  <2>1. CASE Hit(r)
    <3>1. cache # None /\ cache.age < TTL
      BY <2>1 DEF Hit, Fresh
    <3>2. cache.age \in Nat
      BY <3>1, StatsAssumption DEF StatsInv, StatsTypeOK
    <3>3. w \in cache.holds
      BY <3>1, <3>2, StatsAssumption DEF StatsInv, MissesRecent
    <3> QED
      BY <2>1, <3>3 DEF Hit, StatsInv, StatsTypeOK
  <2>2. CASE Fill(r)
    BY <2>2, StatsAssumption DEF Fill, StatsInv, MissesRecent
  <2> QED
    BY <2>1, <2>2 DEF StatsAnswer
<1>2. StatsInv /\ [StatsNext]_statsVars => [Old]_statsVars
  BY <1>1
<1> QED
  BY <1>2, StatsInvariant, PTL DEF StatsSpec, StatsAtMostMinuteOld

-----------------------------------------------------------------------------
(* Letters: types *)

LetterRow == [deliver : Moment, live : BOOLEAN, read : Moment \cup {None}]

\* Type correctness of the letters.
THEOREM LettersTypeCorrect == LettersSpec => []LettersTypeOK
<1>1. LettersInit => LettersTypeOK
  BY LettersAssumption
     DEF LettersInit, LettersTypeOK, Moment, LettersAssumption
<1>2. LettersTypeOK /\ [LettersNext]_lettersVars => LettersTypeOK'
  <2> SUFFICES ASSUME LettersTypeOK, [LettersNext]_lettersVars
               PROVE  LettersTypeOK'
    OBVIOUS
  <2> USE DEF LettersTypeOK
  <2>0. \A l \in Letter : letter[l] # None => letter[l] \in LetterRow
    BY DEF LetterRow
  <2>1. ASSUME NEW l \in Letter, NEW d \in Moment, CreateLetter(l, d)
        PROVE  LettersTypeOK'
    BY <2>1 DEF CreateLetter
  <2>2. ASSUME NEW l \in Letter, DeleteLetter(l)
        PROVE  LettersTypeOK'
    BY <2>0, <2>2 DEF DeleteLetter, InBox, LetterRow
  <2>3. ASSUME NEW o \in Owner, NEW l \in Letter,
               NEW d \in Moment \cup {None}, ReadForEdit(o, l, d)
        PROVE  LettersTypeOK'
    <3>1. letter[l].deliver \in Moment
      BY <2>0, <2>3 DEF ReadForEdit, InBox, LetterRow
    <3> QED
      BY <2>3, <3>1 DEF ReadForEdit
  <2>4. ASSUME NEW o \in Owner, WriteEdit(o)
        PROVE  LettersTypeOK'
    <3> DEFINE l == edit[o].letter
    <3>1. edit[o] \in [letter : Letter, deliver : Moment,
                       named : BOOLEAN, stale : BOOLEAN]
      BY <2>4 DEF WriteEdit
    <3>2. letter[l] \in LetterRow
      BY <2>0, <2>4, <3>1 DEF WriteEdit, InBox
    <3>3. Rewritten(l, edit[o].deliver) \in LetterRow
      BY <3>1, <3>2 DEF Rewritten, LetterRow
    <3>4. letter' = [letter EXCEPT ![l] = Rewritten(l, edit[o].deliver)]
      BY <2>4 DEF WriteEdit
    <3>5. letter' \in [Letter -> LetterRow \cup {None}]
      BY <3>1, <3>3, <3>4 DEF LetterRow
    <3>6. promised' \in [Letter -> Moment \cup {None}]
      BY <2>4, <3>1 DEF WriteEdit
    <3>7. edit' \in [Owner -> [letter : Letter, deliver : Moment,
                               named : BOOLEAN, stale : BOOLEAN]
                              \cup {None}]
      BY <2>4 DEF WriteEdit
    <3>8. UNCHANGED <<moment, visit>>
      BY <2>4 DEF WriteEdit
    <3> QED
      BY <3>5, <3>6, <3>7, <3>8 DEF LetterRow
  <2>5. ASSUME NEW o \in Owner, EditRefused(o)
        PROVE  LettersTypeOK'
    BY <2>5 DEF EditRefused
  <2>6. ASSUME NEW v \in Visitor, NEW l \in Letter, AskForLetter(v, l)
        PROVE  LettersTypeOK'
    BY <2>6 DEF AskForLetter
  <2>7. ASSUME NEW v \in Visitor, ReadLetter(v)
        PROVE  LettersTypeOK'
    BY <2>7 DEF ReadLetter
  <2>8. ASSUME NEW v \in Visitor, ReadAgain(v) \/ LetterNotFound(v)
        PROVE  LettersTypeOK'
    BY <2>8 DEF ReadAgain, LetterNotFound
  <2>9. ASSUME NEW v \in Visitor, MarkLetterRead(v)
        PROVE  LettersTypeOK'
    <3> DEFINE l == visit[v].letter
    <3>1. l \in Letter /\ visit[v].at \in Moment
      BY <2>9 DEF MarkLetterRead
    <3>2. letter' = MarkRow(l, visit[v].at)
      BY <2>9 DEF MarkLetterRead
    <3>3. letter' \in [Letter -> LetterRow \cup {None}]
      <4>1. CASE InBox(l) /\ letter[l].read = None
        <5>1. [letter[l] EXCEPT !.read = visit[v].at] \in LetterRow
          BY <2>0, <3>1, <4>1 DEF InBox, LetterRow
        <5> QED
          BY <3>1, <3>2, <4>1, <5>1 DEF MarkRow, LetterRow
      <4>2. CASE ~(InBox(l) /\ letter[l].read = None)
        BY <3>2, <4>2 DEF MarkRow, LetterRow
      <4> QED
        BY <4>1, <4>2
    <3> QED
      BY <2>9, <3>3 DEF MarkLetterRead, LetterRow
  <2>10. CASE LetterTick
    BY <2>10, LettersAssumption DEF LetterTick, Moment, LettersAssumption
  <2>11. CASE UNCHANGED lettersVars
    BY <2>11 DEF lettersVars
  <2> QED
    BY <2>1, <2>2, <2>3, <2>4, <2>5, <2>6, <2>7, <2>8, <2>9, <2>10, <2>11
       DEF LettersNext
<1> QED
  BY <1>1, <1>2, PTL DEF LettersSpec

-----------------------------------------------------------------------------
(* Letters: who may read them, and the mark *)

\* The row carries the date that was asked for.
PromiseHolds ==
    \A l \in Letter : promised[l] # None =>
        letter[l] # None /\ letter[l].deliver = promised[l]

\* A request that names no date and is not stale writes the date back that
\* is there.
EditIsCurrent ==
    \A o \in Owner :
        edit[o] # None =>
            /\ letter[edit[o].letter] # None
            /\ ~edit[o].named /\ ~edit[o].stale =>
                 edit[o].deliver = letter[edit[o].letter].deliver

\* A visitor asked no later than now.
AskedBefore == \A v \in Visitor : visit[v] # None => visit[v].at <= moment

LettersInv ==
    LettersTypeOK /\ PromiseHolds /\ EditIsCurrent /\ AskedBefore

\* What a step must do to keep the two facts about rows and dates: rows stay,
\* and keep their date if no promise or request changes.
LEMMA RowsKeepDates ==
    ASSUME LettersTypeOK, PromiseHolds, EditIsCurrent,
           UNCHANGED <<promised, edit>>,
           \A l \in Letter : letter[l] # None =>
               letter'[l] # None /\ letter'[l].deliver = letter[l].deliver
    PROVE  PromiseHolds' /\ EditIsCurrent'
<1>1. PromiseHolds'
  BY DEF PromiseHolds
<1>2. EditIsCurrent'
  BY DEF EditIsCurrent, LettersTypeOK
<1> QED
  BY <1>1, <1>2

\* A row written with another date, or with the mark, is still a row.
LEMMA RowIsRow ==
    ASSUME NEW x \in LetterRow
    PROVE  x # None
BY LettersAssumption DEF LetterRow, Moment, LettersAssumption

THEOREM LettersInvariant == LettersSpec => []LettersInv
<1>1. LettersInit => PromiseHolds /\ EditIsCurrent /\ AskedBefore
  BY DEF LettersInit, PromiseHolds, EditIsCurrent, AskedBefore
<1>2. LettersInv /\ LettersTypeOK' /\ [LettersNext]_lettersVars
        => PromiseHolds' /\ EditIsCurrent' /\ AskedBefore'
  <2> SUFFICES ASSUME LettersInv, LettersTypeOK', [LettersNext]_lettersVars
               PROVE  PromiseHolds' /\ EditIsCurrent' /\ AskedBefore'
    OBVIOUS
  <2>0. LettersTypeOK /\ PromiseHolds /\ EditIsCurrent /\ AskedBefore
    BY DEF LettersInv
  <2> HIDE DEF LettersInv
  <2>100. /\ \A l \in Letter : letter[l] # None => letter[l] \in LetterRow
          /\ \A v \in Visitor : visit[v] # None => visit[v].letter \in Letter
          /\ \A o \in Owner : edit[o] # None =>
                edit[o].letter \in Letter /\ edit[o].deliver \in Moment
    BY <2>0 DEF LettersTypeOK, LetterRow
  <2>1. ASSUME NEW l \in Letter, NEW d \in Moment, CreateLetter(l, d)
        PROVE  PromiseHolds' /\ EditIsCurrent' /\ AskedBefore'
    <3> DEFINE new == [deliver |-> d, live |-> TRUE, read |-> None]
    <3>1. letter[l] = None /\ letter' = [letter EXCEPT ![l] = new]
          /\ promised' = [promised EXCEPT ![l] = d]
          /\ UNCHANGED <<moment, visit, edit>>
      BY <2>1 DEF CreateLetter
    <3>2. new # None
      BY RowIsRow DEF LetterRow
    <3>3. PromiseHolds'
      BY <2>0, <3>1, <3>2 DEF PromiseHolds, LettersTypeOK
    <3>4. EditIsCurrent'
      BY <2>0, <2>100, <3>1 DEF EditIsCurrent, LettersTypeOK
    <3> QED
      BY <2>0, <3>1, <3>3, <3>4 DEF AskedBefore
  <2>2. ASSUME NEW l \in Letter, DeleteLetter(l)
        PROVE  PromiseHolds' /\ EditIsCurrent' /\ AskedBefore'
    <3>1. letter[l] \in LetterRow
      BY <2>2, <2>100 DEF DeleteLetter, InBox
    <3>2. [letter[l] EXCEPT !.live = FALSE] # None
      BY <3>1, RowIsRow DEF LetterRow
    <3>3. letter' = [letter EXCEPT ![l] =
                        [letter[l] EXCEPT !.live = FALSE]]
          /\ UNCHANGED <<moment, visit, edit, promised>>
      BY <2>2 DEF DeleteLetter
    <3>4. \A m \in Letter : letter[m] # None =>
            letter'[m] # None /\ letter'[m].deliver = letter[m].deliver
      BY <2>0, <3>1, <3>2, <3>3 DEF LettersTypeOK, LetterRow
    <3> QED
      BY <2>0, <3>3, <3>4, RowsKeepDates DEF AskedBefore
  <2>3. ASSUME NEW o \in Owner, NEW l \in Letter,
               NEW d \in Moment \cup {None}, ReadForEdit(o, l, d)
        PROVE  PromiseHolds' /\ EditIsCurrent' /\ AskedBefore'
    <3>1. PromiseHolds' /\ AskedBefore'
      BY <2>0, <2>3 DEF ReadForEdit, PromiseHolds, AskedBefore
    <3>2. EditIsCurrent'
      BY <2>0, <2>3 DEF ReadForEdit, InBox, EditIsCurrent, LettersTypeOK
    <3> QED
      BY <3>1, <3>2
  <2>4. ASSUME NEW o \in Owner, WriteEdit(o)
        PROVE  PromiseHolds' /\ EditIsCurrent' /\ AskedBefore'
    <3> DEFINE l == edit[o].letter
    <3> DEFINE d == edit[o].deliver
    <3>1. l \in Letter /\ d \in Moment /\ edit[o] # None /\ letter[l] # None
      BY <2>4, <2>100 DEF WriteEdit, InBox
    <3>2. letter[l] \in LetterRow
      BY <2>100, <3>1
    <3>3. Rewritten(l, d) \in LetterRow /\ Rewritten(l, d).deliver = d
      BY <3>1, <3>2 DEF Rewritten, LetterRow
    <3>4. /\ letter' = [letter EXCEPT ![l] = Rewritten(l, d)]
          /\ promised' = [promised EXCEPT ![l] =
                             IF edit[o].named THEN d
                             ELSE IF edit[o].stale THEN None
                             ELSE promised[l]]
          /\ edit' = [q \in Owner |->
                         IF q = o THEN None
                         ELSE IF edit[q] # None /\ edit[q].letter = l
                              THEN [edit[q] EXCEPT !.stale = TRUE]
                              ELSE edit[q]]
          /\ UNCHANGED <<moment, visit>>
      BY <2>4 DEF WriteEdit
    <3>5. /\ letter'[l] # None /\ letter'[l].deliver = d
          /\ \A m \in Letter \ {l} : letter'[m] = letter[m]
      <4>1. letter'[l] = Rewritten(l, d)
        BY <2>0, <3>1, <3>4 DEF LettersTypeOK
      <4>2. \A m \in Letter \ {l} : letter'[m] = letter[m]
        BY <2>0, <3>4 DEF LettersTypeOK
      <4> QED
        BY <3>3, <4>1, <4>2, RowIsRow
    <3>6. PromiseHolds'
      <4> SUFFICES ASSUME NEW m \in Letter, promised'[m] # None
                   PROVE  letter'[m] # None
                          /\ letter'[m].deliver = promised'[m]
        BY DEF PromiseHolds
      <4>1. CASE m # l
        <5>1. promised'[m] = promised[m]
          BY <2>0, <3>4, <4>1 DEF LettersTypeOK
        <5> QED
          BY <2>0, <3>5, <4>1, <5>1 DEF PromiseHolds
      <4>2. CASE m = l
        <5>1. promised'[l] = IF edit[o].named THEN d
                             ELSE IF edit[o].stale THEN None
                             ELSE promised[l]
          BY <2>0, <3>1, <3>4 DEF LettersTypeOK
        <5>2. ~edit[o].named /\ ~edit[o].stale => d = letter[l].deliver
          BY <2>0, <3>1 DEF EditIsCurrent
        <5>3. promised[l] # None => letter[l].deliver = promised[l]
          BY <2>0, <3>1 DEF PromiseHolds
        <5> QED
          BY <3>5, <4>2, <5>1, <5>2, <5>3
      <4> QED
        BY <4>1, <4>2
    <3>7. EditIsCurrent'
      <4> SUFFICES ASSUME NEW q \in Owner, edit'[q] # None
                   PROVE  /\ letter'[edit'[q].letter] # None
                          /\ ~edit'[q].named /\ ~edit'[q].stale =>
                               edit'[q].deliver
                                 = letter'[edit'[q].letter].deliver
        BY DEF EditIsCurrent
      <4>1. q # o /\ edit[q] # None
        BY <3>4
      <4>2. CASE edit[q].letter = l
        <5>1. edit'[q] = [edit[q] EXCEPT !.stale = TRUE]
          BY <3>4, <4>1, <4>2
        <5>2. edit'[q].letter = l /\ edit'[q].stale
          BY <2>0, <4>1, <4>2, <5>1 DEF LettersTypeOK
        <5> QED
          BY <3>5, <5>2
      <4>3. CASE edit[q].letter # l
        <5>1. edit'[q] = edit[q]
          BY <3>4, <4>1, <4>3
        <5>2. edit[q].letter \in Letter
          BY <2>100, <4>1
        <5> QED
          BY <2>0, <3>5, <4>1, <4>3, <5>1, <5>2 DEF EditIsCurrent
      <4> QED
        BY <4>2, <4>3
    <3>8. AskedBefore'
      BY <2>0, <3>4 DEF AskedBefore
    <3> QED
      BY <3>6, <3>7, <3>8
  <2>5. ASSUME NEW o \in Owner, EditRefused(o)
        PROVE  PromiseHolds' /\ EditIsCurrent' /\ AskedBefore'
    <3>1. PromiseHolds' /\ AskedBefore'
      BY <2>0, <2>5 DEF EditRefused, PromiseHolds, AskedBefore
    <3>2. EditIsCurrent'
      BY <2>0, <2>5 DEF EditRefused, EditIsCurrent, LettersTypeOK
    <3> QED
      BY <3>1, <3>2
  <2>6. ASSUME NEW v \in Visitor, NEW l \in Letter, AskForLetter(v, l)
        PROVE  PromiseHolds' /\ EditIsCurrent' /\ AskedBefore'
    <3>1. UNCHANGED <<letter, moment, edit, promised>>
          /\ visit' = [visit EXCEPT ![v] =
                          [step |-> "asked", letter |-> l, at |-> moment]]
      BY <2>6 DEF AskForLetter
    <3>2. AskedBefore'
      BY <2>0, <3>1 DEF AskedBefore, LettersTypeOK, Moment
    <3> QED
      BY <2>0, <3>1, <3>2, RowsKeepDates
  <2>7. ASSUME NEW v \in Visitor,
               ReadLetter(v) \/ ReadAgain(v) \/ LetterNotFound(v)
        PROVE  PromiseHolds' /\ EditIsCurrent' /\ AskedBefore'
    <3>1. UNCHANGED <<letter, moment, edit, promised>>
          /\ \/ visit[v] # None
                /\ visit' = [visit EXCEPT ![v].step = "read"]
             \/ visit' = [visit EXCEPT ![v] = None]
      BY <2>7 DEF ReadLetter, ReadAgain, LetterNotFound
    <3>2. AskedBefore'
      BY <2>0, <3>1 DEF AskedBefore, LettersTypeOK
    <3> QED
      BY <2>0, <3>1, <3>2, RowsKeepDates
  <2>8. ASSUME NEW v \in Visitor, MarkLetterRead(v)
        PROVE  PromiseHolds' /\ EditIsCurrent' /\ AskedBefore'
    <3> DEFINE l == visit[v].letter
    <3>1. /\ letter' = MarkRow(l, visit[v].at)
          /\ visit' = [visit EXCEPT ![v] = None]
          /\ UNCHANGED <<moment, edit, promised>>
          /\ visit[v] # None
      BY <2>8 DEF MarkLetterRead
    <3>2. l \in Letter /\ visit[v].at \in Moment
      BY <2>0, <3>1 DEF LettersTypeOK
    <3>3. \A m \in Letter : letter[m] # None =>
            letter'[m] # None /\ letter'[m].deliver = letter[m].deliver
      <4>1. CASE InBox(l) /\ letter[l].read = None
        <5>1. letter[l] \in LetterRow
          BY <2>100, <3>2, <4>1 DEF InBox
        <5> DEFINE marked == [letter[l] EXCEPT !.read = visit[v].at]
        <5>2. marked \in LetterRow /\ marked.deliver = letter[l].deliver
          BY <3>2, <5>1 DEF LetterRow
        <5>3. letter' = [letter EXCEPT ![l] = marked]
          BY <3>1, <4>1 DEF MarkRow
        <5>4. letter'[l] = marked
              /\ \A m \in Letter \ {l} : letter'[m] = letter[m]
          BY <2>0, <3>2, <5>3 DEF LettersTypeOK
        <5> QED
          BY <5>2, <5>4, RowIsRow
      <4>2. CASE ~(InBox(l) /\ letter[l].read = None)
        BY <3>1, <4>2 DEF MarkRow
      <4> QED
        BY <4>1, <4>2
    <3>4. AskedBefore'
      BY <2>0, <3>1 DEF AskedBefore, LettersTypeOK
    <3> QED
      BY <2>0, <3>1, <3>3, <3>4, RowsKeepDates
  <2>9. CASE LetterTick
    <3>1. UNCHANGED <<letter, visit, edit, promised>>
          /\ moment' = moment + 1
      BY <2>9 DEF LetterTick
    <3>2. AskedBefore'
      BY <2>0, <3>1, LettersAssumption
         DEF AskedBefore, LettersTypeOK, Moment, LettersAssumption
    <3> QED
      BY <2>0, <3>1, <3>2, RowsKeepDates
  <2>10. CASE UNCHANGED lettersVars
    <3>1. UNCHANGED <<letter, moment, visit, edit, promised>>
      BY <2>10 DEF lettersVars
    <3> QED
      BY <2>0, <3>1, RowsKeepDates DEF AskedBefore
  <2> QED
    BY <2>1, <2>2, <2>3, <2>4, <2>5, <2>6, <2>7, <2>8, <2>9, <2>10
       DEF LettersNext
<1> QED
  BY <1>1, <1>2, LettersTypeCorrect, PTL DEF LettersSpec, LettersInv

\* For any letters, owners and visitors: nobody reads a letter before the
\* date that was last asked for by name, stale requests apart.
THEOREM LettersNoneEarly == LettersSpec => NoLetterEarly
<1>1. LettersInv /\ [LettersNext]_lettersVars =>
        [\A v \in Visitor : ReadLetter(v) \/ ReadAgain(v) =>
           LET l == visit[v].letter IN
           promised[l] # None => promised[l] <= moment]_lettersVars
  <2> SUFFICES ASSUME LettersInv, NEW v \in Visitor,
                      ReadLetter(v) \/ ReadAgain(v),
                      promised[visit[v].letter] # None
               PROVE  promised[visit[v].letter] <= moment
    OBVIOUS
  <2> DEFINE l == visit[v].letter
  <2>1. visit[v] # None /\ letter[l].deliver <= visit[v].at
    BY DEF ReadLetter, ReadAgain, Delivered
  <2>2. l \in Letter /\ visit[v].at \in Nat /\ moment \in Nat
    BY <2>1 DEF LettersInv, LettersTypeOK, Moment
  <2>3. visit[v].at <= moment
    BY <2>1 DEF LettersInv, AskedBefore
  <2>4. letter[l].deliver = promised[l] /\ promised[l] \in Nat
    BY <2>2 DEF LettersInv, PromiseHolds, LettersTypeOK, Moment
  <2> QED
    BY <2>1, <2>2, <2>3, <2>4
<1> QED
  BY <1>1, LettersInvariant, PTL DEF LettersSpec, NoLetterEarly

\* ... and the mark of the first reading stays.
THEOREM LettersFirstReadStays == LettersSpec => FirstReadStays
<1>1. LettersTypeOK /\ [LettersNext]_lettersVars =>
        [\A l \in Letter :
           (letter[l] # None /\ letter[l].read # None)
              => letter'[l].read = letter[l].read]_lettersVars
  <2> SUFFICES ASSUME LettersTypeOK, LettersNext, NEW l \in Letter,
                      letter[l] # None, letter[l].read # None
               PROVE  letter'[l].read = letter[l].read
    OBVIOUS
  <2>0. letter[l] \in LetterRow
    BY DEF LettersTypeOK, LetterRow
  <2>1. ASSUME NEW m \in Letter, NEW d \in Moment, CreateLetter(m, d)
        PROVE  letter'[l].read = letter[l].read
    BY <2>1 DEF CreateLetter, LettersTypeOK
  <2>2. ASSUME NEW m \in Letter, DeleteLetter(m)
        PROVE  letter'[l].read = letter[l].read
    BY <2>0, <2>2 DEF DeleteLetter, LettersTypeOK, LetterRow
  <2>3. ASSUME NEW o \in Owner, WriteEdit(o)
        PROVE  letter'[l].read = letter[l].read
    <3>1. letter' = [letter EXCEPT ![edit[o].letter] =
                        [letter[edit[o].letter]
                           EXCEPT !.deliver = edit[o].deliver]]
      BY <2>3 DEF WriteEdit, Rewritten
    <3> QED
      BY <2>0, <3>1 DEF LettersTypeOK, LetterRow
  <2>4. ASSUME NEW v \in Visitor, MarkLetterRead(v)
        PROVE  letter'[l].read = letter[l].read
    <3>1. letter' = MarkRow(visit[v].letter, visit[v].at)
      BY <2>4 DEF MarkLetterRead
    <3> QED
      BY <3>1 DEF MarkRow, LettersTypeOK
  <2> QED
    BY <2>1, <2>2, <2>3, <2>4
       DEF LettersNext, ReadForEdit, EditRefused, AskForLetter, ReadLetter,
           ReadAgain, LetterNotFound, LetterTick
<1> QED
  BY <1>1, LettersTypeCorrect, PTL DEF LettersSpec, FirstReadStays

-----------------------------------------------------------------------------
(* The library *)

\* A step of the library is a step of one part, and the others rest.
LEMMA LibraryStep ==
    ASSUME [Next]_vars
    PROVE  /\ [TimelineNext]_timelineVars
           /\ [StatsNext]_statsVars
           /\ [LettersNext]_lettersVars
           /\ [AlbumNext]_albumVars
<1>1. CASE NodesPart \/ PatchesPart
  BY <1>1 DEF NodesPart, PatchesPart
<1>2. CASE StatsPart
  BY <1>2 DEF StatsPart
<1>3. CASE LettersPart
  BY <1>3 DEF LettersPart
<1>4. CASE AlbumPart
  BY <1>4 DEF AlbumPart
<1>5. CASE UNCHANGED vars
  BY <1>5 DEF vars
<1> QED
  BY <1>1, <1>2, <1>3, <1>4, <1>5 DEF Next

\* The library behaves, seen from each part, as that part does alone: what is
\* proved of a part holds in the library, and TLC's library shows nothing
\* that a part would not do.
THEOREM LibraryComposes ==
    Spec => TimelineSpec /\ StatsSpec /\ LettersSpec /\ AlbumSpec
<1>1. Init => TimelineInit /\ StatsInit /\ LettersInit /\ AlbumInit
  BY DEF Init
<1>2. [Next]_vars => /\ [TimelineNext]_timelineVars
                     /\ [StatsNext]_statsVars
                     /\ [LettersNext]_lettersVars
                     /\ [AlbumNext]_albumVars
  BY LibraryStep
<1> QED
  BY <1>1, <1>2, PTL
     DEF Spec, TimelineSpec, StatsSpec, LettersSpec, AlbumSpec

\* Type correctness of all four parts.
THEOREM LibraryTypeCorrect == Spec => []TypeOK
<1>1. TimelineTypeOK /\ StatsTypeOK /\ LettersTypeOK /\ AlbumTypeOK => TypeOK
  BY DEF TypeOK
<1> QED
  BY <1>1, LibraryComposes, TimelineTypeCorrect, StatsTypeCorrect,
     LettersTypeCorrect, AlbumTypeCorrect, PTL

\* Whatever owner, visitors and readers do, in every part at once: pages
\* descend and show a steady node once, counts are what was answered and at
\* most a lifetime old, uploads come last, patches and new orders do what
\* they were asked, dates move by name only, letters wait for their day.
THEOREM LibrarySafe ==
    Spec => /\ [](PagesDescend /\ SteadyShownOnce)
            /\ [](StatsReadYourWrites /\ UploadShowsLast /\ PatchedAsAsked)
            /\ MovedOnlyByName /\ ReorderIsWhole
            /\ StatsAtMostMinuteOld /\ NoLetterEarly /\ FirstReadStays
<1> QED
  BY LibraryComposes, TimelinePagesDescend, TimelineSteadyShown,
     TimelineMovedByName, StatsReadsWrites, StatsMinuteOld, AlbumShowsLast,
     AlbumPatchedAsAsked, AlbumReorderIsWhole, LettersNoneEarly,
     LettersFirstReadStays, PTL
=============================================================================
