----------------------------- MODULE DirectUpload -----------------------------
(***************************************************************************)
(* The three-step upload of the s3 driver (service/upload.go): presign     *)
(* inserts a `pending` row and an upload session, the browser PUTs the     *)
(* file to a staging object, and confirm reads it back, promotes it to an  *)
(* original and hands the photo to the worker pool.  The reaper ends the   *)
(* sessions that expire.                                                   *)
(*                                                                         *)
(* ConfirmUpload is a dozen database and storage calls with nothing held   *)
(* between them, so each call is an action; the reaper, the pool, another  *)
(* confirm, a delete, a lost connection or a crash may come between any    *)
(* two.  The pool is the abstract one, PhotoPool, which WorkerPool         *)
(* implements; a claimed photo settles, and a recovery scan finds the      *)
(* stuck ones.                                                             *)
(***************************************************************************)
EXTENDS Naturals, FiniteSets, PhotoPool

\* Photo, from PhotoPool, is the ids, each of which one presign uses.
CONSTANTS
    Node,           \* nodes of the timeline
    NodeOf,         \* the node each photo is uploaded to
    Request,        \* request goroutines
    Content,        \* what browsers PUT; a content is its own sha
    MayPut,         \* the contents each photo may be uploaded with
    Image,          \* contents the sniffer accepts
    Sized,          \* contents of the declared size
    None,           \* no photo, no content
    Overlapping,    \* may a photo be confirmed while it is being confirmed?
    MaxMishaps      \* bound: crashes, lost connections, failing calls, deletes

ASSUME UploadAssumption ==
    /\ NodeOf \in [Photo -> Node]
    /\ MayPut \in [Photo -> SUBSET Content]
    /\ Image \subseteq Content
    /\ Sized \subseteq Content
    /\ None \notin Photo \cup Content
    /\ Overlapping \in BOOLEAN
    /\ MaxMishaps \in Nat

VARIABLES
    status,     \* photos.status; "absent" before the row, "purged" after it
    reason,     \* photos.fail_reason
    sha,        \* photos.sha256
    live,       \* rows whose deleted_at is NULL
    session,    \* state of the photo's upload session
    late,       \* photos whose session has passed expires_at
    sent,       \* what the browser has PUT for each photo
    staging,    \* the staging object of each session
    origs,      \* originals
    pc,         \* where each request stands
    arg,        \* the photo it is about
    seen,       \* the row it read, status and reason
    got,        \* the content it read back
    why,        \* how it is going to end the session
    listed,     \* expired sessions the reaper has still to end
    reaping,    \* the one it is ending
    rstep,      \* where it stands with that one
    answers,    \* final answers given so far, per photo
    mishaps     \* mishaps so far

rowVars     == <<status, reason, sha, live>>
sessionVars == <<session, late, sent>>
blobVars    == <<staging, origs>>
reapVars    == <<listed, reaping, rstep>>
localVars   == <<seen, got, why>>

vars == <<rowVars, sessionVars, blobVars, poolVars, pc, arg, localVars,
          reapVars, answers, mishaps>>

\* Why an upload is rejected: its size, its read-back, its first bytes.
Rejection == {"mismatch", "readback", "notimage"}

Reason == Rejection \cup {"none", "incomplete", "other"}
Verdict == Rejection \cup {"expired"}
Answer == Verdict \cup {"ok", "duplicate"}

Exists(p) == status[p] \notin {"absent", "purged"}
Visible(p) == Exists(p) /\ p \in live

StoredTypes ==
    /\ status \in [Photo -> {"absent", "pending", "processing", "ready",
                             "failed", "purged"}]
    /\ reason \in [Photo -> Reason]
    /\ sha \in [Photo -> Content \cup {None}]
    /\ live \subseteq Photo
    /\ session \in [Photo -> {"none", "issued", "confirmed", "expired",
                              "aborted"}]
    /\ late \subseteq Photo
    /\ sent \in [Photo -> Content \cup {None}]
    /\ staging \in [Photo -> Content \cup {None}]
    /\ origs \subseteq Content
    /\ queued \subseteq Photo
    /\ working \subseteq Photo \ queued
    /\ listed \subseteq Photo
    /\ reaping \in Photo \cup {None}
    /\ rstep \in {"fail", "drop"}
    /\ answers \in [Photo -> SUBSET Answer]
    /\ mishaps \in Nat

RequestTypes ==
    /\ pc \in [Request -> {"idle", "open", "row", "session", "stat", "read",
                           "dup", "orig", "copy", "unstage", "set", "close",
                           "enqueue", "end", "fail", "drop", "purge"}]
    /\ arg \in [Request -> Photo \cup {None}]
    /\ \A c \in Request : pc[c] = "idle" <=> arg[c] = None
    /\ seen \in [Request -> {"none", "pending", "processing", "ready",
                             "failed"} \X Reason]
    /\ got \in [Request -> Content \cup {None}]
    /\ why \in [Request -> Answer \cup {"none"}]

TypeOK == StoredTypes /\ RequestTypes

Unread == <<"none", "none">>

Init ==
    /\ status = [p \in Photo |-> "absent"]
    /\ reason = [p \in Photo |-> "none"]
    /\ sha = [p \in Photo |-> None]
    /\ live = {}
    /\ session = [p \in Photo |-> "none"]
    /\ late = {}
    /\ sent = [p \in Photo |-> None]
    /\ staging = [p \in Photo |-> None]
    /\ origs = {}
    /\ PoolInit
    /\ pc = [c \in Request |-> "idle"]
    /\ arg = [c \in Request |-> None]
    /\ seen = [c \in Request |-> Unread]
    /\ got = [c \in Request |-> None]
    /\ why = [c \in Request |-> "none"]
    /\ listed = {}
    /\ reaping = None
    /\ rstep = "fail"
    /\ answers = [p \in Photo |-> {}]
    /\ mishaps = 0

-----------------------------------------------------------------------------
(* The database statements and pool calls the steps are made of *)

\* SetSessionState: only an issued session changes state.
SetSessionState(p, s) ==
    /\ session' = IF session[p] = "issued"
                  THEN [session EXCEPT ![p] = s] ELSE session
    /\ UNCHANGED <<late, sent>>

\* MarkPhotoFailed: no condition but the id.
MarkPhotoFailed(p, r) ==
    /\ IF Exists(p)
       THEN /\ status' = [status EXCEPT ![p] = "failed"]
            /\ reason' = [reason EXCEPT ![p] = r]
       ELSE UNCHANGED <<status, reason>>
    /\ UNCHANGED <<sha, live>>

\* Delete of a staging object succeeds whether or not it is there.
DropStaging(p) ==
    /\ staging' = [staging EXCEPT ![p] = None]
    /\ UNCHANGED origs

\* The request is over; its locals are gone.
Leave(c) ==
    /\ pc' = [pc EXCEPT ![c] = "idle"]
    /\ arg' = [arg EXCEPT ![c] = None]
    /\ seen' = [seen EXCEPT ![c] = Unread]
    /\ got' = [got EXCEPT ![c] = None]
    /\ why' = [why EXCEPT ![c] = "none"]

\* The request ends with a final answer, or with one that invites a retry.
Reply(c, a) ==
    /\ Leave(c)
    /\ answers' = [answers EXCEPT ![arg[c]] = @ \cup {a}]

ReplyRetry(c) == Leave(c) /\ UNCHANGED answers

\* The next call of the request.
Goto(c, s) ==
    /\ pc' = [pc EXCEPT ![c] = s]
    /\ UNCHANGED <<arg, answers>>

\* The request gives the upload up, for reason a.
GiveUp(c, a) ==
    /\ Goto(c, "end")
    /\ why' = [why EXCEPT ![c] = a]
    /\ UNCHANGED <<seen, got>>

Mishap == mishaps < MaxMishaps /\ mishaps' = mishaps + 1

-----------------------------------------------------------------------------
(* PresignUpload and the browser's PUT *)

\* CreatePhoto: a pending row that knows neither content nor sha.
Presign(c) ==
    /\ pc[c] = "idle"
    /\ \E p \in Photo :
         /\ status[p] = "absent"
         /\ status' = [status EXCEPT ![p] = "pending"]
         /\ live' = live \cup {p}
         /\ arg' = [arg EXCEPT ![c] = p]
    /\ pc' = [pc EXCEPT ![c] = "open"]
    /\ UNCHANGED <<reason, sha, sessionVars, blobVars, poolVars, localVars,
                   reapVars, answers, mishaps>>

\* CreateSession, and the answer with the URL.
OpenSession(c) ==
    /\ pc[c] = "open"
    /\ session' = [session EXCEPT ![arg[c]] = "issued"]
    /\ ReplyRetry(c)
    /\ UNCHANGED <<rowVars, late, sent, blobVars, poolVars, reapVars, mishaps>>

\* The browser uploads, once, while the URL is valid.
Put(p) ==
    /\ session[p] # "none"
    /\ p \notin late
    /\ sent[p] = None
    /\ \E o \in MayPut[p] :
         /\ sent' = [sent EXCEPT ![p] = o]
         /\ staging' = [staging EXCEPT ![p] = o]
    /\ UNCHANGED <<rowVars, session, late, origs, poolVars, pc, arg, localVars,
                   reapVars, answers, mishaps>>

\* The session's expires_at passes.
Expire(p) ==
    /\ session[p] = "issued"
    /\ p \notin late
    /\ late' = late \cup {p}
    /\ UNCHANGED <<rowVars, session, sent, blobVars, poolVars, pc, arg,
                   localVars, reapVars, answers, mishaps>>

\* The owner deletes a photo while its upload may be under way.
Hide(p) ==
    /\ Visible(p)
    /\ Mishap
    /\ live' = live \ {p}
    /\ UNCHANGED <<status, reason, sha, sessionVars, blobVars, poolVars, pc,
                   arg, localVars, reapVars, answers>>

-----------------------------------------------------------------------------
(* ConfirmUpload *)

\* A client confirms once it knows the photo's id.
Confirm(c, p) ==
    /\ pc[c] = "idle"
    /\ session[p] # "none" \/ status[p] = "purged"
    /\ Overlapping \/ \A d \in Request : arg[d] # p
    /\ pc' = [pc EXCEPT ![c] = "row"]
    /\ arg' = [arg EXCEPT ![c] = p]
    /\ UNCHANGED <<rowVars, sessionVars, blobVars, poolVars, localVars,
                   reapVars, answers, mishaps>>

\* GetPhoto.
ReadRow(c) ==
    /\ pc[c] = "row"
    /\ \/ /\ Visible(arg[c])
          /\ seen' = [seen EXCEPT ![c] = <<status[arg[c]], reason[arg[c]]>>]
          /\ Goto(c, "session")
          /\ UNCHANGED <<got, why>>
       \/ ~Visible(arg[c]) /\ ReplyRetry(c)
    /\ UNCHANGED <<rowVars, sessionVars, blobVars, poolVars, reapVars, mishaps>>

\* Mutated form of VerdictOf: the case of a failed read-back is missing.
VerdictOfTwo(r) == IF r \in {"mismatch", "notimage"} THEN r ELSE "expired"

\* errForFailReason: what a failed photo answers to another confirm.
VerdictOf(r) == IF r \in Rejection THEN r ELSE "expired"

\* The answer for a photo without an issued session, from the row read before.
Standing(row) ==
    CASE row[1] \in {"processing", "ready"} -> "ok"
      [] row[1] = "failed"                  -> VerdictOf(row[2])
      [] OTHER                              -> "expired"

\* IssuedSessionByPhoto, and the check of its expiry.
ReadSession(c) ==
    /\ pc[c] = "session"
    /\ \/ /\ session[arg[c]] # "issued"
          /\ Reply(c, Standing(seen[c]))
       \/ /\ session[arg[c]] = "issued"
          /\ arg[c] \in late
          /\ GiveUp(c, "expired")
       \/ /\ session[arg[c]] = "issued"
          /\ arg[c] \notin late
          /\ seen' = [seen EXCEPT ![c] = Unread]
          /\ Goto(c, "stat")
          /\ UNCHANGED <<got, why>>
    /\ UNCHANGED <<rowVars, sessionVars, blobVars, poolVars, reapVars, mishaps>>

\* Stat of the staging object.
StatStaging(c) ==
    /\ pc[c] = "stat"
    /\ LET o == staging[arg[c]]
       IN  \/ o = None /\ ReplyRetry(c)
           \/ o \in Content \ Sized /\ GiveUp(c, "mismatch")
           \/ o \in Sized /\ Goto(c, "read") /\ UNCHANGED localVars
    /\ UNCHANGED <<rowVars, sessionVars, blobVars, poolVars, reapVars, mishaps>>

\* Open and read it back: the read may fail on its way, which ends the upload;
\* otherwise the sniffer decides, and the sha is known.
ReadStaging(c) ==
    /\ pc[c] = "read"
    /\ LET o == staging[arg[c]]
       IN  \/ o = None /\ ReplyRetry(c)
           \/ o # None /\ GiveUp(c, "readback")
           \/ o \in Content \ Image /\ GiveUp(c, "notimage")
           \/ /\ o \in Image
              /\ got' = [got EXCEPT ![c] = o]
              /\ Goto(c, "dup")
              /\ UNCHANGED <<seen, why>>
    /\ UNCHANGED <<rowVars, sessionVars, blobVars, poolVars, reapVars, mishaps>>

\* FindDuplicate: the rows it may return, the photo's own among them.
Twins(p, s) == {q \in Photo : Visible(q) /\ NodeOf[q] = NodeOf[p] /\ sha[q] = s}

FindDuplicate(c) ==
    /\ pc[c] = "dup"
    /\ IF Twins(arg[c], got[c]) # {}
       THEN GiveUp(c, "duplicate")
       ELSE Goto(c, "orig") /\ UNCHANGED localVars
    /\ UNCHANGED <<rowVars, sessionVars, blobVars, poolVars, reapVars, mishaps>>

\* Stat of the original: with it in place the staging object is dropped.
StatOrig(c) ==
    /\ pc[c] = "orig"
    /\ Goto(c, IF got[c] \in origs THEN "unstage" ELSE "copy")
    /\ UNCHANGED <<rowVars, sessionVars, blobVars, poolVars, localVars,
                   reapVars, mishaps>>

\* Mutated form of Promoted: nothing is copied.
PromotedNothing(o) == origs

\* The originals after the copy.
Promoted(o) == origs \cup {o}

\* The first half of the s3 Rename, CopyObject.
CopyStaging(c) ==
    /\ pc[c] = "copy"
    /\ \/ staging[arg[c]] = None /\ ReplyRetry(c) /\ UNCHANGED origs
       \/ /\ staging[arg[c]] # None
          /\ origs' = Promoted(got[c])
          /\ Goto(c, "unstage")
          /\ UNCHANGED localVars
    /\ UNCHANGED <<rowVars, sessionVars, staging, poolVars, reapVars, mishaps>>

\* Its second half, DeleteObject, or the discarding of the staging object.
Unstage(c) ==
    /\ pc[c] = "unstage"
    /\ DropStaging(arg[c])
    /\ Goto(c, "set")
    /\ UNCHANGED <<rowVars, sessionVars, poolVars, localVars, reapVars,
                   mishaps>>

\* SetPhotoUploaded; the unique index on (node, sha) may refuse it.
SetUploaded(c) ==
    /\ pc[c] = "set"
    /\ LET p == arg[c]
           free == \A q \in Twins(p, got[c]) : q = p
       IN  IF Visible(p) /\ free
           THEN /\ sha' = [sha EXCEPT ![p] = got[c]]
                /\ status' = [status EXCEPT ![p] = "pending"]
                /\ Goto(c, "close")
                /\ UNCHANGED <<reason, live, localVars>>
           ELSE ReplyRetry(c) /\ UNCHANGED rowVars
    /\ UNCHANGED <<sessionVars, blobVars, poolVars, reapVars, mishaps>>

\* SetSessionState(confirmed), its result ignored: should it fail, the session
\* stays issued and the request goes on.
CloseSession(c) ==
    /\ pc[c] = "close"
    /\ \/ SetSessionState(arg[c], "confirmed") /\ UNCHANGED mishaps
       \/ Mishap /\ UNCHANGED sessionVars
    /\ Goto(c, "enqueue")
    /\ UNCHANGED <<rowVars, blobVars, poolVars, localVars, reapVars>>

\* Enqueue, and the row is read once more for the answer.
HandOver(c) ==
    /\ pc[c] = "enqueue"
    /\ Enqueue(arg[c])
    /\ IF Visible(arg[c]) THEN Reply(c, "ok") ELSE ReplyRetry(c)
    /\ UNCHANGED <<rowVars, sessionVars, blobVars, reapVars, mishaps>>

-----------------------------------------------------------------------------
(* Giving an upload up: abortSession, the expiry branch and the duplicate  *)
(* branch of ConfirmUpload.  The results of these calls are ignored: each  *)
(* may fail, and the next one is made all the same.                        *)

\* SetSessionState, to expired or aborted.
EndSession(c) ==
    /\ pc[c] = "end"
    /\ \/ /\ SetSessionState(arg[c], IF why[c] = "expired" THEN "expired"
                                                           ELSE "aborted")
          /\ UNCHANGED mishaps
       \/ Mishap /\ UNCHANGED sessionVars
    /\ Goto(c, IF why[c] = "duplicate" THEN "drop" ELSE "fail")
    /\ UNCHANGED <<rowVars, blobVars, poolVars, localVars, reapVars>>

\* The reason that is recorded for an answer.
ReasonOf(a) == IF a = "expired" THEN "incomplete" ELSE a

FailRow(c) ==
    /\ pc[c] = "fail"
    /\ \/ MarkPhotoFailed(arg[c], ReasonOf(why[c])) /\ UNCHANGED mishaps
       \/ Mishap /\ UNCHANGED rowVars
    /\ Goto(c, "drop")
    /\ UNCHANGED <<sessionVars, blobVars, poolVars, localVars, reapVars>>

DropObject(c) ==
    /\ pc[c] = "drop"
    /\ \/ DropStaging(arg[c]) /\ UNCHANGED mishaps
       \/ Mishap /\ UNCHANGED blobVars
    /\ IF why[c] = "duplicate"
       THEN Goto(c, "purge") /\ UNCHANGED localVars
       ELSE Reply(c, why[c])
    /\ UNCHANGED <<rowVars, sessionVars, poolVars, reapVars>>

\* Mutated form of Withdrawn: the rows with the sha go, not the row.
WithdrawnTwins(c) == Twins(arg[c], got[c])

\* The rows the duplicate branch deletes.
Withdrawn(c) == {arg[c]}

\* HardDeletePhotos of the pending row, and with it of its session.
PurgeRow(c) ==
    /\ pc[c] = "purge"
    /\ \/ LET gone == Withdrawn(c)
          IN  /\ status' = [p \in Photo |->
                               IF p \in gone THEN "purged" ELSE status[p]]
              /\ sha' = [p \in Photo |-> IF p \in gone THEN None ELSE sha[p]]
              /\ live' = live \ gone
              /\ session' = [p \in Photo |->
                                IF p \in gone THEN "none" ELSE session[p]]
              /\ UNCHANGED mishaps
       \/ Mishap /\ UNCHANGED <<status, sha, live, session>>
    /\ Reply(c, "duplicate")
    /\ UNCHANGED <<reason, late, sent, blobVars, poolVars, reapVars>>

ConfirmStep(c) ==
    \/ ReadRow(c)
    \/ ReadSession(c)
    \/ StatStaging(c)
    \/ ReadStaging(c)
    \/ FindDuplicate(c)
    \/ StatOrig(c)
    \/ CopyStaging(c)
    \/ Unstage(c)
    \/ SetUploaded(c)
    \/ CloseSession(c)
    \/ HandOver(c)
    \/ EndSession(c)
    \/ FailRow(c)
    \/ DropObject(c)
    \/ PurgeRow(c)

\* A call fails or the client is gone, and with it the request's context: every
\* later call fails too, except that the pool's Enqueue takes no context.
Abandon(c) ==
    /\ pc[c] # "idle"
    /\ Mishap
    /\ IF pc[c] \in {"close", "enqueue"} THEN Enqueue(arg[c])
                                         ELSE UNCHANGED poolVars
    /\ ReplyRetry(c)
    /\ UNCHANGED <<rowVars, sessionVars, blobVars, reapVars>>

-----------------------------------------------------------------------------
(* The reaper *)

\* Mutated form of Overdue: uploads whose PUT never came are forgotten.
OverdueObjects == {p \in late : session[p] = "issued" /\ staging[p] # None}

\* ExpiredSessions.
Overdue == {p \in late : session[p] = "issued"}

\* The tick, every five minutes.
ReapScan ==
    /\ listed = {}
    /\ reaping = None
    /\ listed' = Overdue
    /\ UNCHANGED <<rowVars, sessionVars, blobVars, poolVars, pc, arg, localVars,
                   reaping, rstep, answers, mishaps>>

\* SetSessionState tells whether the session was still issued; if it was not,
\* or the call fails, the next one is taken.
ReapSession ==
    /\ reaping = None
    /\ \E p \in listed :
         /\ \/ /\ SetSessionState(p, "expired")
               /\ reaping' = IF session[p] = "issued" THEN p ELSE None
               /\ UNCHANGED mishaps
            \/ Mishap /\ UNCHANGED <<sessionVars, reaping>>
         /\ listed' = listed \ {p}
    /\ rstep' = "fail"
    /\ UNCHANGED <<rowVars, blobVars, poolVars, pc, arg, localVars, answers>>

ReapRow ==
    /\ reaping # None
    /\ rstep = "fail"
    /\ \/ MarkPhotoFailed(reaping, "incomplete") /\ UNCHANGED mishaps
       \/ Mishap /\ UNCHANGED rowVars
    /\ rstep' = "drop"
    /\ UNCHANGED <<sessionVars, blobVars, poolVars, pc, arg, localVars, listed,
                   reaping, answers>>

ReapObject ==
    /\ reaping # None
    /\ rstep = "drop"
    /\ \/ DropStaging(reaping) /\ UNCHANGED mishaps
       \/ Mishap /\ UNCHANGED blobVars
    /\ reaping' = None
    /\ rstep' = "fail"
    /\ UNCHANGED <<rowVars, sessionVars, poolVars, pc, arg, localVars, listed,
                   answers>>

Reap == ReapScan \/ ReapSession \/ ReapRow \/ ReapObject

-----------------------------------------------------------------------------
(* The worker pool, and the process *)

\* ClaimPhoto; a photo with nothing to do leaves the pool.
Claim(p) ==
    /\ IF p \in live /\ status[p] \in {"pending", "processing"}
       THEN Take(p) /\ status' = [status EXCEPT ![p] = "processing"]
       ELSE Skip(p) /\ UNCHANGED status
    /\ UNCHANGED <<reason, sha, live, sessionVars, blobVars, pc, arg, localVars,
                   reapVars, answers, mishaps>>

\* MarkPhotoReady or MarkPhotoFailed.
Settle(p) ==
    /\ Finish(p)
    /\ \/ MarkPhotoFailed(p, "other")
       \/ /\ p \in live
          /\ status' = [status EXCEPT ![p] = "ready"]
          /\ reason' = [reason EXCEPT ![p] = "none"]
          /\ UNCHANGED <<sha, live>>
       \/ p \notin live /\ UNCHANGED rowVars
    /\ UNCHANGED <<sessionVars, blobVars, pc, arg, localVars, reapVars, answers,
                   mishaps>>

\* StuckPhotos: uploaded, unfinished, and no session still open.
Stuck ==
    {p \in live : /\ sha[p] # None
                  /\ \/ status[p] = "processing"
                     \/ status[p] = "pending" /\ session[p] # "issued"}

\* RecoverStuck enqueues what has been unfinished for long.
Rescan ==
    /\ \E p \in Stuck : Enqueue(p)
    /\ UNCHANGED <<rowVars, sessionVars, blobVars, pc, arg, localVars, reapVars,
                   answers, mishaps>>

\* The process dies; rows, sessions and objects remain.
Crash ==
    /\ Mishap
    /\ Lose
    /\ pc' = [c \in Request |-> "idle"]
    /\ arg' = [c \in Request |-> None]
    /\ seen' = [c \in Request |-> Unread]
    /\ got' = [c \in Request |-> None]
    /\ why' = [c \in Request |-> "none"]
    /\ listed' = {}
    /\ reaping' = None
    /\ rstep' = "fail"
    /\ UNCHANGED <<rowVars, sessionVars, blobVars, answers>>

-----------------------------------------------------------------------------

Next ==
    \/ \E c \in Request :
         \/ Presign(c)
         \/ OpenSession(c)
         \/ \E p \in Photo : Confirm(c, p)
         \/ ConfirmStep(c)
         \/ Abandon(c)
    \/ \E p \in Photo : Put(p) \/ Expire(p) \/ Hide(p) \/ Claim(p) \/ Settle(p)
    \/ Reap
    \/ Rescan
    \/ Crash

\* Handlers run to their end, time passes, and the reaper and the pool run.
\* Clients owe nothing.
Fairness ==
    /\ \A c \in Request : WF_vars(OpenSession(c) \/ ConfirmStep(c))
    /\ \A p \in Photo : WF_vars(Expire(p)) /\ WF_vars(Claim(p) \/ Settle(p))
    /\ WF_vars(Reap)
    /\ WF_vars(Rescan)

Spec == Init /\ [][Next]_vars /\ Fairness

-----------------------------------------------------------------------------
(* Properties *)

\* "Blob first, database last" (design document, line 168): a row that knows
\* its sha has its original, whatever was interrupted.
UploadedHasOriginal ==
    \A p \in Photo : (Exists(p) /\ sha[p] # None) => sha[p] \in origs

\* "No photo is ever lost" (design document, line 13): once a confirm has been
\* answered with success, the row is there with what the browser sent, until
\* the owner purges it.
ConfirmedIsKept ==
    \A p \in Photo :
        "ok" \in answers[p] => (Exists(p) /\ sha[p] = sent[p])

\* README, note 11: an upload that is answered "duplicate" really has a twin
\* in its node, with its original; the row and object that were thrown away
\* are not the last copy.
DuplicateHasTwin ==
    \A p \in Photo :
        "duplicate" \in answers[p] =>
            /\ sent[p] \in origs
            /\ \E q \in Photo : /\ Exists(q)
                               /\ NodeOf[q] = NodeOf[p]
                               /\ sha[q] = sent[p]

\* Confirming a rejected upload again restores the first error, whichever of
\* the three rejections it was (upload.go:36-44, 234), as long as the session
\* has not run out meanwhile and no call of the cleaning up failed.
SameVerdict ==
    mishaps = 0 =>
        \A p \in Photo \ late :
            answers[p] \cap Rejection # {} =>
                Cardinality(answers[p]) = 1

\* "Confirm is idempotent" (upload.go:231): once the upload has been carried
\* through, no confirm of it is told that the session has expired.
ConfirmIdempotent ==
    \A p \in Photo :
        session[p] = "confirmed" => "expired" \notin answers[p]

\* Every upload comes to an end: a pending row that is not in the trash is
\* developed, failed or withdrawn (the reaper, maintenance.go:35).  It takes a
\* run without mishaps: a crash between CreatePhoto and CreateSession, or
\* between the two writes of abortSession, leaves a row nobody looks at.
EveryUploadSettles ==
    \A p \in Photo :
        (status[p] = "pending" /\ p \in live)
            ~> (status[p] \in {"ready", "failed", "purged"} \/ p \notin live)
=============================================================================
