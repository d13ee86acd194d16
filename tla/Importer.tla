------------------------------ MODULE Importer ------------------------------
(***************************************************************************)
(* sgctl import: runs of the importer against the server (importer/run.go, *)
(* importer/client.go).                                                    *)
(*                                                                         *)
(* A run lists the nodes, then takes the groups of the plan one by one:    *)
(* it finds or creates the node and uploads the files, a few at a time,    *)
(* each through calls that are retried.  Any answer may be lost, and a run *)
(* may be cancelled or killed and started again.  The owner leaves nodes   *)
(* and photos alone meanwhile, and the server works on one request of a    *)
(* photo at a time (DirectUpload shows what happens otherwise).            *)
(***************************************************************************)
EXTENDS Naturals, FiniteSets, Sequences, Functions, Absent

CONSTANTS
    File,           \* the files of the plan
    Groups,         \* the groups in order: sequences of files
    KeyAt,          \* the date and title of each group, as planned
    Trimmed,        \* what the server makes of a key: the title without the
                    \* blanks around it; None if nothing is left of it
    ContentOf,      \* the picture in each file
    Concurrency,    \* uploads at a time
    Attempts,       \* the error budget of each call
    MaxWait,        \* MaxBackpressureWait, in units of waiting
    Advised,        \* the waits a 429 leads to, jitter included
    MaxNode,        \* bound on the nodes of the server
    MaxLost         \* bound on the lost answers to CreateNode for each key

ASSUME ImporterAssumption ==
    /\ Groups \in Seq(Seq(File))
    /\ DOMAIN KeyAt = 1..Len(Groups)
    /\ Concurrency \in Nat \ {0}
    /\ Attempts \in [{"upload", "presign", "put", "confirm"} -> Nat \ {0, 1}]
    /\ MaxWait \in Nat
    /\ Advised \subseteq Nat \ {0}
    /\ MaxNode \in Nat
    /\ MaxLost \in [{KeyAt[i] : i \in DOMAIN KeyAt} -> Nat]
    /\ None \notin Nat \cup {KeyAt[i] : i \in DOMAIN KeyAt}
    /\ DOMAIN Trimmed = {KeyAt[i] : i \in DOMAIN KeyAt}
    \* A file is in one group.
    /\ \A i, j \in DOMAIN Groups :
         \A a \in DOMAIN Groups[i], b \in DOMAIN Groups[j] :
            Groups[i][a] = Groups[j][b] => i = j

VARIABLES
    mode,       \* upload_mode of the server: "local" or "s3"
    keyOf,      \* the nodes of the server: the key of each, oldest id first
    stored,     \* the photos of the server: <<node, content>>
    late,       \* CreateNode requests under way whose client is gone
    run,        \* the run: where it is and on which group and node
    byKey,      \* the node the run uses for each key, or None
    worker,     \* the upload of each file, or None
    stat,       \* what became of each file: the counters of Stat
    lost,       \* history: CreateNode answers lost for each key
    credited,   \* history: <<node, file>> counted as uploaded or skipped
    complete    \* history: an earlier run has counted every file so

importVars == <<mode, keyOf, stored, late, run, byKey, worker, stat, lost,
                credited, complete>>

\* The keys as the importer has them, and as the server keeps them.
ImportKey == {KeyAt[i] : i \in DOMAIN KeyAt}

StoredKey == {Trimmed[k] : k \in ImportKey} \ {None}

NodeId == 1..MaxNode

Call == DOMAIN Attempts

\* `row` is the photo row of an s3 upload; `real` is a history: the errors
\* other than 429 that this call has met.
Upload == [call : Call, step : {"calling", "waiting"}, errors : Nat,
           waited : 0..MaxWait, real : Nat,
           row : {"none", "pending", "kept", "dropped"}]

ImporterTypeOK ==
    /\ mode \in {"local", "s3"}
    /\ keyOf \in [NodeId -> StoredKey \cup {None}]
    /\ stored \subseteq NodeId \X {ContentOf[f] : f \in File}
    /\ late \in [ImportKey -> Nat]
    /\ run \in [at : {"idle", "listing", "group", "uploading"},
                group : 1..(Len(Groups) + 1), node : NodeId \cup {None},
                cancelled : BOOLEAN, queued : BOOLEAN]
    /\ byKey \in [ImportKey -> NodeId \cup {None}]
    /\ worker \in [File -> Upload \cup {None}]
    /\ stat \in [File -> {"todo", "uploaded", "skipped", "failed"}]
    /\ lost \in [ImportKey -> Nat]
    /\ credited \subseteq NodeId \X File
    /\ complete \in BOOLEAN

NodesWith(k) == {n \in NodeId : keyOf[n] = k}

FreeNodes == {n \in NodeId : keyOf[n] = None}

Lowest(ids) == CHOOSE n \in ids : \A m \in ids : n <= m

Active == {f \in File : worker[f] # None}

ImporterInit ==
    /\ mode \in {"local", "s3"}
    /\ keyOf = [n \in NodeId |-> None]
    /\ stored = {}
    /\ late = [k \in ImportKey |-> 0]
    /\ run = [at |-> "idle", group |-> 1, node |-> None,
              cancelled |-> FALSE, queued |-> FALSE]
    /\ byKey = [k \in ImportKey |-> None]
    /\ worker = [f \in File |-> None]
    /\ stat = [f \in File |-> "todo"]
    /\ lost = [k \in ImportKey |-> 0]
    /\ credited = {}
    /\ complete = FALSE

server == <<mode, keyOf, stored, late, lost>>

-----------------------------------------------------------------------------
(* Run: the nodes *)

StartRun ==
    /\ run.at = "idle"
    /\ run' = [at |-> "listing", group |-> 1, node |-> None,
               cancelled |-> FALSE, queued |-> FALSE]
    /\ complete' = (complete \/ \A f \in File :
                                   stat[f] \in {"uploaded", "skipped"})
    /\ stat' = [f \in File |-> "todo"]
    /\ byKey' = [k \in ImportKey |-> None]
    /\ UNCHANGED <<server, worker, credited>>

\* Mutated form of Listed: the nodes that are there already are not used.
ListedNot(k) == None

\* The node of a key: the last of the listing, which is in descending order.
\* The planned title is looked for as it is, the listed one is trimmed.
Listed(k) == IF NodesWith(k) = {} THEN None ELSE Lowest(NodesWith(k))

ListNodes ==
    /\ run.at = "listing"
    /\ ~run.cancelled
    /\ run' = [run EXCEPT !.at = "group"]
    /\ byKey' = [k \in ImportKey |-> Listed(k)]
    /\ UNCHANGED <<server, worker, stat, credited, complete>>

\* The listing is not retried: the run ends with an error.
ListNodesFails ==
    /\ run.at = "listing"
    /\ run' = [run EXCEPT !.at = "idle"]
    /\ UNCHANGED <<server, byKey, worker, stat, credited,
                   complete>>

MoreGroups == run.group <= Len(Groups) /\ ~run.cancelled

GroupsKey == KeyAt[run.group]

InGroup == {Groups[run.group][i] : i \in 1..Len(Groups[run.group])}

ReuseNode ==
    /\ run.at = "group" /\ MoreGroups
    /\ byKey[GroupsKey] # None
    /\ run' = [run EXCEPT !.at = "uploading", !.node = byKey[GroupsKey]]
    /\ UNCHANGED <<server, byKey, worker, stat, credited,
                   complete>>

\* The new node is used for every later group of its key, as planned.
Remembered(k, n) == [byKey EXCEPT ![k] = n]

CreateNodeAnswered ==
    /\ run.at = "group" /\ MoreGroups
    /\ byKey[GroupsKey] = None
    /\ Trimmed[GroupsKey] # None
    /\ FreeNodes # {}
    /\ LET n == Lowest(FreeNodes) IN
         /\ keyOf' = [keyOf EXCEPT ![n] = Trimmed[GroupsKey]]
         /\ byKey' = Remembered(GroupsKey, n)
         /\ run' = [run EXCEPT !.at = "uploading", !.node = n]
    /\ UNCHANGED <<mode, stored, late, lost, worker, stat,
                   credited, complete>>

\* CreateNode is not retried: the whole group is failed, whether the server
\* has created the node, will create it, or has refused.
GroupFails ==
    /\ run' = [run EXCEPT !.group = @ + 1]
    /\ stat' = [f \in File |-> IF f \in InGroup THEN "failed" ELSE stat[f]]
    /\ UNCHANGED <<mode, stored, byKey, worker, credited,
                   complete>>

CreateNodeRefused ==
    /\ run.at = "group" /\ MoreGroups
    /\ byKey[GroupsKey] = None
    /\ GroupFails
    /\ UNCHANGED <<keyOf, late, lost>>

CreateNodeLost ==
    /\ run.at = "group" /\ MoreGroups
    /\ byKey[GroupsKey] = None
    /\ lost[GroupsKey] < MaxLost[GroupsKey]
    /\ GroupFails
    /\ late' = [late EXCEPT ![GroupsKey] = @ + 1]
    /\ lost' = [lost EXCEPT ![GroupsKey] = @ + 1]
    /\ UNCHANGED keyOf

\* The server carries out, or not, what its client no longer waits for.
LateNode(k) ==
    /\ late[k] > 0
    /\ Trimmed[k] # None
    /\ FreeNodes # {}
    /\ late' = [late EXCEPT ![k] = @ - 1]
    /\ keyOf' = [keyOf EXCEPT ![Lowest(FreeNodes)] = Trimmed[k]]
    /\ UNCHANGED <<mode, stored, run, byKey, worker, stat, lost,
                   credited, complete>>

\* The last group is done, or a cancelled run has come to the next group: a
\* result is returned either way.
ReturnResult ==
    /\ run.at = "group" /\ ~MoreGroups
    /\ run' = [run EXCEPT !.at = "idle"]
    /\ UNCHANGED <<server, byKey, worker, stat, credited,
                   complete>>

-----------------------------------------------------------------------------
(* uploadGroup *)

\* The files of the group that no worker has been given.
Waiting ==
    {i \in 1..Len(Groups[run.group]) :
        /\ stat[Groups[run.group][i]] = "todo"
        /\ Groups[run.group][i] \notin Active}

NextFile == Groups[run.group][Lowest(Waiting)]

\* The loop looks whether it is cancelled before it waits for a free worker.
QueueFile ==
    /\ run.at = "uploading"
    /\ ~run.queued /\ ~run.cancelled
    /\ Waiting # {}
    /\ run' = [run EXCEPT !.queued = TRUE]
    /\ UNCHANGED <<server, byKey, worker, stat, credited, complete>>

FirstCall == IF mode = "s3" THEN "presign" ELSE "upload"

\* A worker takes the file.  If the run was cancelled meanwhile its first
\* call fails before it is sent.
StartUpload ==
    /\ run.at = "uploading"
    /\ run.queued
    /\ Cardinality(Active) < Concurrency
    /\ run' = [run EXCEPT !.queued = FALSE]
    /\ worker' = [worker EXCEPT ![NextFile] =
                     [call |-> FirstCall, waited |-> 0, row |-> "none",
                      step |-> IF run.cancelled THEN "waiting" ELSE "calling",
                      errors |-> IF run.cancelled THEN 1 ELSE 0,
                      real |-> IF run.cancelled THEN 1 ELSE 0]]
    /\ UNCHANGED <<server, byKey, stat, credited, complete>>

\* wg.Wait is over; a cancelled run returns an error from here.
GroupDone ==
    /\ run.at = "uploading"
    /\ ~run.queued
    /\ Active = {}
    /\ run.cancelled \/ Waiting = {}
    /\ run' = IF run.cancelled THEN [run EXCEPT !.at = "idle"]
              ELSE [run EXCEPT !.at = "group", !.group = @ + 1]
    /\ UNCHANGED <<server, byKey, worker, stat, credited, complete>>

-----------------------------------------------------------------------------
(* uploadOne and withRetry: one file *)

Calling(f) == worker[f] # None /\ worker[f].step = "calling"

Ended(f, verdict) ==
    /\ worker' = [worker EXCEPT ![f] = None]
    /\ stat' = [stat EXCEPT ![f] = verdict]
    /\ credited' = IF verdict \in {"uploaded", "skipped"}
                   THEN credited \cup {<<run.node, f>>} ELSE credited

\* The next call of the chain, with a budget of its own.
Proceed(f, call, row) ==
    /\ worker' = [worker EXCEPT ![f] =
                     [call |-> call, step |-> "calling", errors |-> 0,
                      waited |-> 0, real |-> 0, row |-> row]]
    /\ UNCHANGED <<stat, credited>>

PresignOrPutDone(f) ==
    /\ Calling(f)
    /\ \/ worker[f].call = "presign" /\ Proceed(f, "put", "pending")
       \/ worker[f].call = "put" /\ Proceed(f, "confirm", worker[f].row)
    /\ UNCHANGED <<server, run, byKey, complete>>

\* What the server makes of the last call: the photo is new to the node, or
\* the node has it already and the row of a direct upload is dropped.
Commits(f) ==
    /\ worker[f].call \in {"upload", "confirm"}
    /\ worker[f].row \in {"none", "pending"}

Photo(f) == <<run.node, ContentOf[f]>>

RowAfter(f) ==
    IF worker[f].call = "upload" THEN "none"
    ELSE IF Photo(f) \in stored THEN "dropped" ELSE "kept"

\* Mutated form of Verdict: any answer of the server that is no success is
\* taken for "the photo is there already".
VerdictOfAny(answer) ==
    CASE answer = "created" -> "uploaded"
      [] answer \in {"duplicate", "refused"} -> "skipped"

\* What an answer counts as.
Verdict(answer) ==
    CASE answer = "created" -> "uploaded"
      [] answer = "duplicate" -> "skipped"
      [] answer = "refused" -> "failed"

Answered(f) ==
    /\ Calling(f)
    /\ Commits(f)
    /\ Ended(f, Verdict(IF Photo(f) \in stored THEN "duplicate"
                        ELSE "created"))
    /\ stored' = stored \cup {Photo(f)}
    /\ UNCHANGED <<mode, keyOf, late, lost, run, byKey, complete>>

\* A confirm repeated after its answer was lost finds the row promoted.
AnsweredAgain(f) ==
    /\ Calling(f)
    /\ worker[f].row = "kept"
    /\ Ended(f, "uploaded")
    /\ UNCHANGED <<server, run, byKey, complete>>

\* Any other 4xx: invalid, gone, too large; a repeated confirm also when the
\* row is dropped, or kept and not yet promoted.
Refused(f) ==
    /\ Calling(f)
    /\ worker[f].call # "put"
    /\ Ended(f, Verdict("refused"))
    /\ UNCHANGED <<server, run, byKey, complete>>

\* Mutated form of AfterPressure: a 429 counts as an error.
AfterPressureAsError(w, d) ==
    [w EXCEPT !.step = "waiting", !.waited = @ + d, !.errors = @ + 1]

\* 429: wait as told, without touching the error budget.
AfterPressure(w, d) == [w EXCEPT !.step = "waiting", !.waited = @ + d]

Throttled(f, d) ==
    /\ Calling(f)
    /\ worker[f].call # "put"
    /\ IF worker[f].waited + d > MaxWait THEN Ended(f, "failed")
       ELSE /\ worker' = [worker EXCEPT ![f] = AfterPressure(worker[f], d)]
            /\ UNCHANGED <<stat, credited>>
    /\ UNCHANGED <<server, run, byKey, complete>>

\* 5xx, or no answer: the error budget shrinks.  The server may have carried
\* out the request all the same.
Errs(f, carried) ==
    LET w == worker[f] IN
    /\ Calling(f)
    /\ carried => Commits(f)
    /\ stored' = IF carried THEN stored \cup {Photo(f)} ELSE stored
    /\ IF w.errors + 1 >= Attempts[w.call] THEN Ended(f, "failed")
       ELSE /\ worker' = [worker EXCEPT ![f] =
                             [w EXCEPT !.step = "waiting",
                                       !.errors = @ + 1, !.real = @ + 1,
                                       !.row = IF carried THEN RowAfter(f)
                                               ELSE @]]
            /\ UNCHANGED <<stat, credited>>
    /\ UNCHANGED <<mode, keyOf, late, lost, run, byKey, complete>>

Wake(f) ==
    /\ worker[f] # None /\ worker[f].step = "waiting"
    /\ ~run.cancelled
    /\ worker' = [worker EXCEPT ![f].step = "calling"]
    /\ UNCHANGED <<server, run, byKey, stat, credited, complete>>

\* sleepCtx returns the error of the context; so does a call that is begun
\* after it.
CutShort(f) ==
    /\ worker[f] # None /\ worker[f].step = "waiting"
    /\ run.cancelled
    /\ Ended(f, "failed")
    /\ UNCHANGED <<server, run, byKey, complete>>

-----------------------------------------------------------------------------
(* Interruptions *)

Cancel ==
    /\ run.at # "idle"
    /\ ~run.cancelled
    /\ run' = [run EXCEPT !.cancelled = TRUE]
    /\ UNCHANGED <<server, byKey, worker, stat, credited, complete>>

\* The process is gone, and its counters with it.
Killed ==
    /\ run.at # "idle"
    /\ run' = [run EXCEPT !.at = "idle", !.cancelled = TRUE,
                          !.queued = FALSE]
    /\ worker' = [f \in File |-> None]
    /\ UNCHANGED <<server, byKey, stat, credited, complete>>

-----------------------------------------------------------------------------

ImporterNext ==
    \/ StartRun
    \/ ListNodes
    \/ ListNodesFails
    \/ ReuseNode
    \/ CreateNodeAnswered
    \/ CreateNodeRefused
    \/ CreateNodeLost
    \/ \E k \in ImportKey : LateNode(k)
    \/ ReturnResult
    \/ QueueFile
    \/ StartUpload
    \/ GroupDone
    \/ \E f \in File :
         \/ PresignOrPutDone(f)
         \/ Answered(f)
         \/ AnsweredAgain(f)
         \/ Refused(f)
         \/ \E d \in Advised : Throttled(f, d)
         \/ \E carried \in BOOLEAN : Errs(f, carried)
         \/ Wake(f)
         \/ CutShort(f)
    \/ Cancel
    \/ Killed

ImporterSpec == ImporterInit /\ [][ImporterNext]_importVars

-----------------------------------------------------------------------------
(* What the importer promises *)

\* Every file that any run reports as uploaded or as already there is in the
\* node of its group, whatever answers were lost and retried and wherever
\* runs were cut off (run.go:50-51).
CountedIsStored ==
    \A c \in credited : <<c[1], ContentOf[c[2]]>> \in stored

\* A key that the server keeps as it is planned, and makes of no other.
Kept(k) == \A j \in ImportKey : Trimmed[j] = k <=> j = k

\* Runs that are interrupted and repeated do not multiply nodes: a key whose
\* title has no blanks around it has one, and one more at most for every
\* CreateNode answer that was lost (run.go:77).  Of other titles this is not
\* true: every run makes a node anew (timeline.go:309, run.go:84, 105).
NoNeedlessNode ==
    \A k \in ImportKey : Kept(k) => Cardinality(NodesWith(k)) <= 1 + lost[k]

GroupFiles(i) == {Groups[i][a] : a \in 1..Len(Groups[i])}

\* The node of the file's group is found again: its title is kept and no
\* answer was lost that would let two nodes share the key.
Findable(f) ==
    \A i \in 1..Len(Groups) :
        f \in GroupFiles(i) => Kept(KeyAt[i]) /\ lost[KeyAt[i]] = 0

\* Once a run has counted every file, repeated runs upload none whose node
\* they can find again: no blanks around the title, and no answer to the
\* creation of the node lost (run.go:50-51).
RerunAddsNothing ==
    complete => \A f \in File : Findable(f) => stat[f] # "uploaded"

\* A file fails only for cause: the server refuses it, a whole budget of real
\* errors is used up, back-pressure outlasts its limit, the run is cancelled,
\* or its node was not created.  However often the server says "slow down",
\* the error budget is not touched (client.go:301-304).
FailsForCause ==
    [][\A f \in File :
         (worker[f] # None /\ worker'[f] = None /\ stat'[f] = "failed")
           => \/ Refused(f)
              \/ run.cancelled
              \/ worker[f].real + 1 >= Attempts[worker[f].call]
              \/ \E d \in Advised :
                    worker[f].waited + d > MaxWait /\ Throttled(f, d)
      ]_importVars
=============================================================================
