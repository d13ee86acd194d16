----------------------------- MODULE StatsCache -----------------------------
(***************************************************************************)
(* The statistics of GET /stats, cached in the process for a minute        *)
(* (service/timeline.go, GetStats and invalidateStats).                    *)
(*                                                                         *)
(* GetStats holds statsMu across the query, so a fill cannot overtake an   *)
(* invalidation.  A write commits first, invalidates in a later critical   *)
(* section, and only then is its request answered; but some writes never   *)
(* invalidate (the worker that stores sizes, a confirmed direct upload),   *)
(* and a request that fails half way leaves before it does (a batch whose  *)
(* third photo hits a database error).  The numbers are abstracted to the  *)
(* set of writes they reflect.                                             *)
(***************************************************************************)
EXTENDS Naturals, Absent

CONSTANTS
    Write,      \* writes that change the statistics, each made once
    Quiet,      \* those whose code path never invalidates
    Reader,     \* GET /stats requests
    TTL         \* lifetime of the cached numbers, in ticks (60 s)

ASSUME StatsAssumption ==
    /\ Quiet \subseteq Write
    /\ TTL \in Nat \ {0}
    /\ None \notin Reader
    /\ None \notin [holds : SUBSET Write, age : 0..TTL]

VARIABLES
    progress,   \* how far each write has got
    since,      \* ticks since its commit, up to TTL
    cache,      \* statsCache with the age of statsAt, or None
    statsMu,    \* the reader that holds the mutex, or None
    reading,    \* what each reader is doing
    result,     \* the numbers a reader has in hand
    owed        \* history: writes answered before the reader asked

statsVars == <<progress, since, cache, statsMu, reading, result, owed>>

StatsTypeOK ==
    /\ progress \in [Write -> {"todo", "committed", "answered", "failed"}]
    /\ since \in [Write -> 0..TTL]
    /\ cache \in [holds : SUBSET Write, age : 0..TTL] \cup {None}
    /\ statsMu \in Reader \cup {None}
    /\ reading \in [Reader -> {"idle", "asked", "locked", "queried"}]
    /\ result \in [Reader -> SUBSET Write]
    /\ owed \in [Reader -> SUBSET Write]
    /\ \A r \in Reader : reading[r] \in {"locked", "queried"} <=> statsMu = r

Committed == {w \in Write : progress[w] # "todo"}

\* Writes whose request was answered after it invalidated.
Announced == {w \in Write \ Quiet : progress[w] = "answered"}

StatsInit ==
    /\ progress = [w \in Write |-> "todo"]
    /\ since = [w \in Write |-> 0]
    /\ cache = None
    /\ statsMu = None
    /\ reading = [r \in Reader |-> "idle"]
    /\ result = [r \in Reader |-> {}]
    /\ owed = [r \in Reader |-> {}]

-----------------------------------------------------------------------------
(* Writers *)

CommitWrite(w) ==
    /\ progress[w] = "todo"
    /\ progress' = [progress EXCEPT ![w] = "committed"]
    /\ UNCHANGED <<since, cache, statsMu, reading, result, owed>>

\* Mutated form of MayInvalidate: the cache is dropped without the mutex.
MayInvalidateAnyTime == TRUE

\* invalidateStats waits for the mutex.
MayInvalidate == statsMu = None

\* invalidateStats, and the answer after it.
InvalidateAndAnswer(w) ==
    /\ progress[w] = "committed"
    /\ w \notin Quiet
    /\ MayInvalidate
    /\ cache' = None
    /\ progress' = [progress EXCEPT ![w] = "answered"]
    /\ UNCHANGED <<since, statsMu, reading, result, owed>>

\* A path without invalidateStats.
AnswerQuietly(w) ==
    /\ progress[w] = "committed"
    /\ w \in Quiet
    /\ progress' = [progress EXCEPT ![w] = "answered"]
    /\ UNCHANGED <<since, cache, statsMu, reading, result, owed>>

\* A later statement of the same request fails: an error is returned, and the
\* cache keeps its numbers.
FailAfterCommit(w) ==
    /\ progress[w] = "committed"
    /\ progress' = [progress EXCEPT ![w] = "failed"]
    /\ UNCHANGED <<since, cache, statsMu, reading, result, owed>>

-----------------------------------------------------------------------------
(* GetStats *)

Ask(r) ==
    /\ reading[r] = "idle"
    /\ reading' = [reading EXCEPT ![r] = "asked"]
    /\ owed' = [owed EXCEPT ![r] = Announced]
    /\ result' = [result EXCEPT ![r] = {}]
    /\ UNCHANGED <<progress, since, cache, statsMu>>

\* Mutated form of Fresh: the numbers are used one tick too long.
FreshTooLong == cache # None /\ cache.age <= TTL

\* The condition under which the cached numbers are returned.
Fresh == cache # None /\ cache.age < TTL

\* The mutex is taken and released around a hit.
Hit(r) ==
    /\ reading[r] = "asked"
    /\ statsMu = None
    /\ Fresh
    /\ reading' = [reading EXCEPT ![r] = "idle"]
    /\ result' = [result EXCEPT ![r] = cache.holds]
    /\ UNCHANGED <<progress, since, cache, statsMu, owed>>

Miss(r) ==
    /\ reading[r] = "asked"
    /\ statsMu = None
    /\ ~Fresh
    /\ statsMu' = r
    /\ reading' = [reading EXCEPT ![r] = "locked"]
    /\ UNCHANGED <<progress, since, cache, result, owed>>

\* The one statement of store.GetStats sees what is committed.
Query(r) ==
    /\ reading[r] = "locked"
    /\ reading' = [reading EXCEPT ![r] = "queried"]
    /\ result' = [result EXCEPT ![r] = Committed]
    /\ UNCHANGED <<progress, since, cache, statsMu, owed>>

\* The query fails: the old numbers, if any, stay where they are.
QueryFails(r) ==
    /\ reading[r] = "locked"
    /\ statsMu' = None
    /\ reading' = [reading EXCEPT ![r] = "idle"]
    /\ owed' = [owed EXCEPT ![r] = {}]
    /\ UNCHANGED <<progress, since, cache, result>>

Fill(r) ==
    /\ reading[r] = "queried"
    /\ cache' = [holds |-> result[r], age |-> 0]
    /\ statsMu' = None
    /\ reading' = [reading EXCEPT ![r] = "idle"]
    /\ UNCHANGED <<progress, since, result, owed>>

\* Time passes.  A query is short against a tick: none falls between it and
\* the moment statsAt is taken.
StatsTick ==
    /\ \A r \in Reader : reading[r] # "queried"
    /\ since' = [w \in Write |->
                    IF w \in Committed /\ since[w] < TTL THEN since[w] + 1
                    ELSE since[w]]
    /\ cache' = IF cache # None /\ cache.age < TTL
                THEN [cache EXCEPT !.age = @ + 1] ELSE cache
    /\ UNCHANGED <<progress, statsMu, reading, result, owed>>

\* The process ends: the cache and every request in it are gone.
StatsRestart ==
    /\ progress' = [w \in Write |->
                       IF progress[w] = "committed" THEN "failed"
                       ELSE progress[w]]
    /\ cache' = None
    /\ statsMu' = None
    /\ reading' = [r \in Reader |-> "idle"]
    /\ owed' = [r \in Reader |-> {}]
    /\ UNCHANGED <<since, result>>

-----------------------------------------------------------------------------

StatsNext ==
    \/ \E w \in Write :
         \/ CommitWrite(w)
         \/ InvalidateAndAnswer(w)
         \/ AnswerQuietly(w)
         \/ FailAfterCommit(w)
    \/ \E r \in Reader :
         Ask(r) \/ Hit(r) \/ Miss(r) \/ Query(r) \/ QueryFails(r) \/ Fill(r)
    \/ StatsTick
    \/ StatsRestart

StatsSpec == StatsInit /\ [][StatsNext]_statsVars

-----------------------------------------------------------------------------
(* What the cache promises *)

\* A reader sees every write whose request was answered with success before
\* the reader asked, when that write invalidates: whatever fill was under way
\* while it committed (timeline.go:244-270).
StatsReadYourWrites ==
    \A r \in Reader :
        reading[r] \in {"idle", "queried"} => owed[r] \subseteq result[r]

\* The writes an answer reflects, of those a minute old or older.
StatsAnswer(r) == Hit(r) \/ Fill(r)

\* A write that never invalidates, or whose request failed after its commit,
\* is in every answer given a minute after it committed (timeline.go:246).
StatsAtMostMinuteOld ==
    [][\A r \in Reader : StatsAnswer(r) =>
         \A w \in Committed : since[w] = TTL => w \in result'[r]]_statsVars
=============================================================================
