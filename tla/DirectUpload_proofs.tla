-------------------------- MODULE DirectUpload_proofs --------------------------
(***************************************************************************)
(* For any photos, nodes, contents, requests and mishaps: a row that knows *)
(* its sha has its original; and, as long as a photo is confirmed by one   *)
(* request at a time, an acknowledged upload stays, a duplicate has its    *)
(* twin, and a verdict stands while its session runs and no call fails.    *)
(* However many requests confirm it at a time, nothing but the answer      *)
(* "duplicate" to one of them takes an acknowledged upload away, and while *)
(* nothing fails every unsettled row is in somebody's care.                *)
(*                                                                         *)
(* The duplicate branch deletes a row.  What makes that safe is that a     *)
(* row with a sha has no staging object left and never gets one again, so  *)
(* that no confirm of it comes as far as that branch; with two confirms at *)
(* a time the second may already be beyond the staging object.             *)
(***************************************************************************)
EXTENDS DirectUpload, FiniteSetTheorems, TLAPS

\* A request that has promoted its object, and is to say so in the row.
OriginalFirst ==
    \A c \in Request : pc[c] \in {"unstage", "set"} => got[c] \in origs

\* What a request knows by the time it gets somewhere.
LocalsKnown ==
    \A c \in Request :
        /\ pc[c] \in {"dup", "orig", "copy", "unstage", "set"} =>
             got[c] \in Content
        /\ pc[c] \in {"end", "drop"} => why[c] \in Verdict \cup {"duplicate"}
        /\ pc[c] = "fail" => why[c] \in Verdict
        /\ pc[c] = "purge" => why[c] = "duplicate"
        /\ pc[c] \in {"idle", "open", "row"} =>
             seen[c] = Unread /\ why[c] = "none"

\* A photo without a row has nothing else.
AbsentIsBlank ==
    \A p \in Photo :
        /\ status[p] \in {"absent", "purged"} => sha[p] = None
        /\ status[p] = "absent" =>
             /\ session[p] = "none"
             /\ \A c \in Request : arg[c] # p

UploadInv ==
    /\ TypeOK
    /\ UploadedHasOriginal
    /\ OriginalFirst
    /\ LocalsKnown
    /\ AbsentIsBlank

-----------------------------------------------------------------------------
(* What else holds when a photo is confirmed by one request at a time *)

OneRequest ==
    \A c, d \in Request : arg[c] # None /\ arg[c] = arg[d] => c = d

\* The sha of a row is what the browser sent, and its staging object is gone,
\* as it is when a request is about to record the sha.
ShaIsSent ==
    \A p \in Photo :
        /\ sha[p] # None => staging[p] = None /\ sha[p] = sent[p]
        /\ staging[p] # None => staging[p] = sent[p]
        /\ \A c \in Request :
             pc[c] = "set" /\ arg[c] = p => staging[p] = None

\* So is what a request has read back.
GotIsSent ==
    \A c \in Request :
        pc[c] \in {"dup", "orig", "copy", "unstage", "set"} =>
            got[c] = sent[arg[c]]

\* A request that has seen the staging object, or is withdrawing a duplicate,
\* is about a row that has no sha.
NotYetUploaded ==
    \A c \in Request :
        \/ pc[c] \in {"read", "dup", "orig", "copy", "unstage", "set"}
        \/ why[c] = "duplicate"
        => sha[arg[c]] = None

\* What the pool or the status takes for uploaded has a sha,
TakenIsUploaded ==
    \A p \in Photo :
        (p \in queued \cup working \/ status[p] \in {"processing", "ready"})
            => sha[p] # None

\* and so has what a request has recorded, or has seen developed.
SeenIsUploaded ==
    \A c \in Request :
        \/ pc[c] \in {"close", "enqueue"}
        \/ seen[c][1] \in {"processing", "ready"}
        => sha[arg[c]] # None

HasTwin(p) ==
    \E q \in Photo : NodeOf[q] = NodeOf[p] /\ sha[q] # None /\ sha[q] = sent[p]

\* What has been answered is so,
AnswersBacked ==
    \A p \in Photo : /\ "ok" \in answers[p] => sha[p] # None
                     /\ "duplicate" \in answers[p] => HasTwin(p)

\* and so is what is about to be answered.
TwinFound ==
    \A c \in Request :
        why[c] = "duplicate" =>
            pc[c] \in {"end", "drop", "purge"} /\ HasTwin(arg[c])

KeepInv ==
    /\ OneRequest
    /\ ShaIsSent
    /\ GotIsSent
    /\ NotYetUploaded
    /\ TakenIsUploaded
    /\ SeenIsUploaded
    /\ AnswersBacked
    /\ TwinFound

-----------------------------------------------------------------------------
(* Whatever overlaps: UploadInv *)

LEMMA InitUploadInv == Init => UploadInv
  BY UploadAssumption
     DEF Init, PoolInit, UploadInv, TypeOK, StoredTypes, RequestTypes,
     UploadedHasOriginal, OriginalFirst, LocalsKnown, AbsentIsBlank, Exists,
     Reason, Answer, Verdict, Unread

\* What a request is left with when it ends.
LEMMA LeaveKnown ==
    ASSUME RequestTypes, OriginalFirst, LocalsKnown, NEW c \in Request,
           Leave(c), origs \subseteq origs'
    PROVE  RequestTypes' /\ OriginalFirst' /\ LocalsKnown'
<1>1. RequestTypes'
  BY UploadAssumption DEF RequestTypes, Leave, Unread, Reason
<1>2. OriginalFirst'
  BY DEF RequestTypes, OriginalFirst, Leave
<1>3. LocalsKnown'
  BY DEF RequestTypes, LocalsKnown, Leave, Unread
<1>4. QED
  BY <1>1, <1>2, <1>3

\* A final answer is one of the answers.
LEMMA ReplyTypes ==
    ASSUME StoredTypes, RequestTypes, NEW c \in Request, NEW a \in Answer,
           Reply(c, a)
    PROVE  answers' \in [Photo -> SUBSET Answer]
  BY DEF StoredTypes, RequestTypes, Reply

\* Presign and Confirm, which start a request.
LEMMA StartUploadInv ==
    ASSUME UploadInv, NEW c \in Request,
           Presign(c) \/ (\E p \in Photo : Confirm(c, p))
    PROVE  UploadInv'
<1>1. StoredTypes'
  BY DEF UploadInv, TypeOK, StoredTypes, Presign, Confirm, rowVars,
     sessionVars, blobVars, poolVars, reapVars
<1>2. RequestTypes'
  <2>1. PICK p \in Photo, s \in {"open", "row"} :
          arg' = [arg EXCEPT ![c] = p] /\ pc' = [pc EXCEPT ![c] = s]
    BY DEF Presign, Confirm
  <2>2. UNCHANGED localVars
    BY DEF Presign, Confirm
  <2>3. QED
    BY <2>1, <2>2, UploadAssumption DEF UploadInv, TypeOK, RequestTypes,
       localVars
<1>3. UploadedHasOriginal' /\ OriginalFirst' /\ LocalsKnown'
  BY DEF UploadInv, TypeOK, StoredTypes, RequestTypes, UploadedHasOriginal,
     OriginalFirst, LocalsKnown, AbsentIsBlank, Exists, Presign, Confirm,
     localVars, rowVars, blobVars
<1>4. AbsentIsBlank'
  BY DEF UploadInv, TypeOK, StoredTypes, RequestTypes, AbsentIsBlank, Presign,
     Confirm, rowVars, sessionVars
<1>5. QED
  BY <1>1, <1>2, <1>3, <1>4 DEF UploadInv, TypeOK

\* The calls of ConfirmUpload that only read.
Reading(c) ==
    \/ ReadRow(c)
    \/ ReadSession(c)
    \/ StatStaging(c)
    \/ ReadStaging(c)
    \/ FindDuplicate(c)
    \/ StatOrig(c)

LEMMA ReadingUploadInv ==
    ASSUME UploadInv, NEW c \in Request, Reading(c)
    PROVE  UploadInv'
<1>1. UNCHANGED <<rowVars, sessionVars, blobVars, poolVars, reapVars, mishaps>>
  BY DEF Reading, ReadRow, ReadSession, StatStaging, ReadStaging,
     FindDuplicate, StatOrig
<1>2. answers' \in [Photo -> SUBSET Answer]
  <2>1. CASE ReadSession(c) /\ Reply(c, Standing(seen[c]))
    <3>1. Standing(seen[c]) \in Answer
      BY DEF Standing, VerdictOf, Answer, Verdict
    <3>2. QED
      BY <2>1, <3>1, ReplyTypes DEF UploadInv, TypeOK
  <2>2. CASE UNCHANGED answers
    BY <2>2 DEF UploadInv, TypeOK, StoredTypes
  <2>3. QED
    BY <2>1, <2>2 DEF Reading, ReadRow, ReadSession, StatStaging, ReadStaging,
       FindDuplicate, StatOrig, GiveUp, Goto, ReplyRetry
<1>3. StoredTypes'
  BY <1>1, <1>2 DEF UploadInv, TypeOK, StoredTypes, rowVars, sessionVars,
     blobVars, poolVars, reapVars
<1>4. UploadedHasOriginal'
  BY <1>1 DEF UploadInv, UploadedHasOriginal, Exists, rowVars, blobVars
<1>5. arg' = arg \/ Leave(c)
  BY DEF Reading, ReadRow, ReadSession, StatStaging, ReadStaging,
     FindDuplicate, StatOrig, GiveUp, Goto, Reply, ReplyRetry
<1>6. AbsentIsBlank'
  BY <1>1, <1>5, UploadAssumption DEF UploadInv, TypeOK, RequestTypes,
     AbsentIsBlank, Leave, rowVars, sessionVars
<1>7. RequestTypes' /\ OriginalFirst' /\ LocalsKnown'
  <2>1. CASE Leave(c)
    BY <1>1, <2>1, LeaveKnown DEF UploadInv, TypeOK, blobVars
  <2>2. CASE \E a \in Verdict \cup {"duplicate"} : GiveUp(c, a)
    <3>1. PICK a \in Verdict \cup {"duplicate"} : GiveUp(c, a)
      BY <2>2
    <3>2. /\ pc' = [pc EXCEPT ![c] = "end"]
          /\ why' = [why EXCEPT ![c] = a]
          /\ UNCHANGED <<arg, seen, got, origs>>
          /\ pc[c] # "idle"
      BY <1>1, <3>1 DEF GiveUp, Goto, blobVars, Reading, ReadRow, ReadSession,
         StatStaging, ReadStaging, FindDuplicate, StatOrig
    <3>3. RequestTypes'
      BY <3>2 DEF UploadInv, TypeOK, RequestTypes, Answer
    <3>4. QED
      BY <3>2, <3>3 DEF UploadInv, TypeOK, RequestTypes, OriginalFirst,
         LocalsKnown
  <2>3. CASE ReadRow(c) /\ ~Leave(c)
    <3>1. <<status[arg[c]], reason[arg[c]]>> \in
            {"none", "pending", "processing", "ready", "failed"} \X Reason
      BY <2>3 DEF UploadInv, TypeOK, StoredTypes, RequestTypes, ReadRow,
         Visible, Exists, ReplyRetry
    <3>2. QED
      BY <1>1, <2>3, <3>1 DEF UploadInv, TypeOK, RequestTypes, OriginalFirst,
         LocalsKnown, ReadRow, ReplyRetry, Goto, blobVars
  <2>4. CASE pc[c] = "session" /\ Goto(c, "stat") /\ UNCHANGED <<got, why>> /\
             seen' = [seen EXCEPT ![c] = Unread]
    BY <1>1, <2>4 DEF UploadInv, TypeOK, RequestTypes, OriginalFirst,
       LocalsKnown, Goto, Unread, Reason, blobVars
  <2>5. CASE pc[c] = "stat" /\ Goto(c, "read") /\ UNCHANGED localVars
    BY <1>1, <2>5 DEF UploadInv, TypeOK, RequestTypes, OriginalFirst,
       LocalsKnown, Goto, localVars, blobVars
  <2>6. CASE /\ pc[c] = "read" /\ Goto(c, "dup") /\ UNCHANGED <<seen, why>>
             /\ \E o \in Image : got' = [got EXCEPT ![c] = o]
    BY <1>1, <2>6, UploadAssumption DEF UploadInv, TypeOK, RequestTypes,
       OriginalFirst, LocalsKnown, Goto, blobVars
  <2>7. CASE pc[c] = "dup" /\ Goto(c, "orig") /\ UNCHANGED localVars
    BY <1>1, <2>7 DEF UploadInv, TypeOK, RequestTypes, OriginalFirst,
       LocalsKnown, Goto, localVars, blobVars
  <2>8. CASE StatOrig(c)
    BY <1>1, <2>8 DEF UploadInv, TypeOK, RequestTypes, OriginalFirst,
       LocalsKnown, StatOrig, Goto, localVars, blobVars
  <2>9. QED
    BY <2>1, <2>2, <2>3, <2>4, <2>5, <2>6, <2>7, <2>8 DEF Reading, ReadRow,
       ReadSession, StatStaging, ReadStaging, FindDuplicate, Reply,
       ReplyRetry, Verdict, Rejection
<1>8. QED
  BY <1>3, <1>4, <1>6, <1>7 DEF UploadInv, TypeOK

\* A request that goes on: it keeps its locals, and its row may lose no sha.
LEMMA GotoKnown ==
    ASSUME RequestTypes, OriginalFirst, LocalsKnown, NEW c \in Request,
           NEW s \in {"unstage", "set", "close", "enqueue", "fail", "drop",
                      "purge"},
           pc[c] # "idle", Goto(c, s), UNCHANGED localVars,
           origs \subseteq origs',
           s \in {"unstage", "set"} =>
               got[c] \in origs' /\ pc[c] \in {"copy", "unstage"},
           s = "drop" => why[c] \in Verdict \cup {"duplicate"},
           s = "fail" => why[c] \in Verdict,
           s = "purge" => why[c] = "duplicate"
    PROVE  RequestTypes' /\ OriginalFirst' /\ LocalsKnown'
<1>1. RequestTypes'
  BY DEF RequestTypes, Goto, localVars
<1>2. OriginalFirst'
  BY DEF RequestTypes, OriginalFirst, Goto, localVars
<1>3. LocalsKnown'
  BY DEF RequestTypes, LocalsKnown, Goto, localVars
<1>4. QED
  BY <1>1, <1>2, <1>3

\* OpenSession, and the ends of a request that change no row.
LEMMA SessionUploadInv ==
    ASSUME UploadInv, NEW c \in Request,
           OpenSession(c) \/ CloseSession(c) \/ EndSession(c)
    PROVE  UploadInv'
<1>1. UNCHANGED <<rowVars, blobVars, poolVars, reapVars, late, sent, answers>>
      /\ mishaps' \in Nat
  BY DEF UploadInv, TypeOK, StoredTypes, OpenSession, CloseSession, EndSession,
     SetSessionState, Goto, ReplyRetry, Mishap, sessionVars
<1>2. arg[c] \in Photo
  BY DEF UploadInv, TypeOK, RequestTypes, OpenSession, CloseSession, EndSession
<1>3. \/ session' = session
      \/ \E t \in {"issued", "confirmed", "expired", "aborted"} :
           session' = [session EXCEPT ![arg[c]] = t]
  BY DEF OpenSession, CloseSession, EndSession, SetSessionState, sessionVars
<1>4. StoredTypes'
  BY <1>1, <1>3 DEF UploadInv, TypeOK, StoredTypes, rowVars, blobVars,
     poolVars, reapVars
<1>5. UploadedHasOriginal'
  BY <1>1 DEF UploadInv, UploadedHasOriginal, Exists, rowVars, blobVars
<1>6. arg' = arg \/ Leave(c)
  BY DEF OpenSession, CloseSession, EndSession, Goto, ReplyRetry
<1>7. AbsentIsBlank'
  BY <1>1, <1>2, <1>3, <1>6, UploadAssumption DEF UploadInv, TypeOK,
     StoredTypes, RequestTypes, AbsentIsBlank, Leave, rowVars
<1>8. RequestTypes' /\ OriginalFirst' /\ LocalsKnown'
  <2>1. CASE OpenSession(c)
    BY <1>1, <2>1, LeaveKnown DEF UploadInv, TypeOK, OpenSession, ReplyRetry,
       blobVars
  <2>2. CASE CloseSession(c)
    BY <1>1, <2>2, GotoKnown DEF UploadInv, TypeOK, CloseSession, blobVars
  <2>3. CASE EndSession(c)
    <3>1. why[c] \in Verdict \cup {"duplicate"}
      BY <2>3 DEF UploadInv, LocalsKnown, EndSession
    <3>2. QED
      BY <1>1, <2>3, <3>1, GotoKnown DEF UploadInv, TypeOK, EndSession,
         blobVars
  <2>4. QED
    BY <2>1, <2>2, <2>3
<1>9. QED
  BY <1>4, <1>5, <1>7, <1>8 DEF UploadInv, TypeOK

\* The two halves of the s3 Rename, and what drops a staging object.
LEMMA ObjectUploadInv ==
    ASSUME UploadInv, NEW c \in Request,
           CopyStaging(c) \/ Unstage(c) \/ DropObject(c)
    PROVE  UploadInv'
<1>1. UNCHANGED <<rowVars, sessionVars, poolVars, reapVars>>
      /\ mishaps' \in Nat
  BY DEF UploadInv, TypeOK, StoredTypes, CopyStaging, Unstage, DropObject,
     Mishap
<1>2. arg[c] \in Photo
  BY DEF UploadInv, TypeOK, RequestTypes, CopyStaging, Unstage, DropObject
<1>3. /\ origs \subseteq origs' /\ origs' \subseteq Content
      /\ staging' \in [Photo -> Content \cup {None}]
  BY DEF UploadInv, TypeOK, StoredTypes, LocalsKnown, CopyStaging, Promoted,
     Unstage, DropObject, DropStaging, blobVars
<1>4. answers' \in [Photo -> SUBSET Answer]
  <2>1. CASE DropObject(c) /\ Reply(c, why[c])
    <3>1. why[c] \in Answer
      BY <2>1 DEF UploadInv, LocalsKnown, DropObject, Answer
    <3>2. QED
      BY <2>1, <3>1, ReplyTypes DEF UploadInv, TypeOK
  <2>2. CASE UNCHANGED answers
    BY <2>2 DEF UploadInv, TypeOK, StoredTypes
  <2>3. QED
    BY <2>1, <2>2 DEF CopyStaging, Unstage, DropObject, Goto, ReplyRetry
<1>5. StoredTypes'
  BY <1>1, <1>3, <1>4 DEF UploadInv, TypeOK, StoredTypes, rowVars,
     sessionVars, poolVars, reapVars
<1>6. UploadedHasOriginal'
  BY <1>1, <1>3 DEF UploadInv, UploadedHasOriginal, Exists, rowVars
<1>7. arg' = arg \/ Leave(c)
  BY DEF CopyStaging, Unstage, DropObject, Goto, Reply, ReplyRetry
<1>8. AbsentIsBlank'
  BY <1>1, <1>7, UploadAssumption DEF UploadInv, TypeOK, RequestTypes,
     AbsentIsBlank, Leave, rowVars, sessionVars
<1>9. RequestTypes' /\ OriginalFirst' /\ LocalsKnown'
  <2>1. CASE Leave(c)
    BY <1>3, <2>1, LeaveKnown DEF UploadInv, TypeOK
  <2>2. CASE CopyStaging(c) /\ ~Leave(c)
    <3>1. got[c] \in origs' /\ Goto(c, "unstage") /\ UNCHANGED localVars
      BY <2>2 DEF CopyStaging, ReplyRetry, Promoted
    <3>2. QED
      BY <1>3, <2>2, <3>1, GotoKnown DEF UploadInv, TypeOK, CopyStaging
  <2>3. CASE Unstage(c)
    <3>1. got[c] \in origs'
      BY <1>3, <2>3 DEF UploadInv, OriginalFirst, Unstage
    <3>2. QED
      BY <1>3, <2>3, <3>1, GotoKnown DEF UploadInv, TypeOK, Unstage
  <2>4. CASE DropObject(c) /\ ~Leave(c)
    <3>1. why[c] = "duplicate" /\ Goto(c, "purge") /\ UNCHANGED localVars
      BY <2>4 DEF DropObject, Reply
    <3>2. QED
      BY <1>3, <2>4, <3>1, GotoKnown DEF UploadInv, TypeOK, DropObject
  <2>5. QED
    BY <2>1, <2>2, <2>3, <2>4
<1>10. QED
  BY <1>5, <1>6, <1>8, <1>9 DEF UploadInv, TypeOK

\* MarkPhotoFailed, by whomever.
LEMMA FailUploadInv ==
    ASSUME UploadInv, NEW p \in Photo, NEW r \in Reason, MarkPhotoFailed(p, r),
           UNCHANGED <<session, origs>>
    PROVE  /\ status' \in [Photo -> {"absent", "pending", "processing",
                                     "ready", "failed", "purged"}]
           /\ reason' \in [Photo -> Reason]
           /\ UNCHANGED <<sha, live>>
           /\ UploadedHasOriginal'
           /\ \A q \in Photo : (status'[q] \in {"absent", "purged"})
                                  <=> (status[q] \in {"absent", "purged"})
           /\ \A q \in Photo : status'[q] = "absent" <=> status[q] = "absent"
  BY DEF UploadInv, TypeOK, StoredTypes, UploadedHasOriginal, MarkPhotoFailed,
     Exists

LEMMA FailRowUploadInv ==
    ASSUME UploadInv, NEW c \in Request, FailRow(c)
    PROVE  UploadInv'
<1>1. UNCHANGED <<sessionVars, blobVars, poolVars, localVars, reapVars, arg,
                  answers>>
  BY DEF FailRow, Goto
<1>2. arg[c] \in Photo /\ why[c] \in Verdict /\ pc[c] = "fail"
  BY DEF UploadInv, TypeOK, RequestTypes, LocalsKnown, FailRow
<1>3. ReasonOf(why[c]) \in Reason
  BY <1>2 DEF ReasonOf, Verdict, Reason
<1>4. /\ status' \in [Photo -> {"absent", "pending", "processing", "ready",
                                "failed", "purged"}]
      /\ reason' \in [Photo -> Reason]
      /\ UNCHANGED <<sha, live>>
      /\ UploadedHasOriginal'
      /\ \A q \in Photo : (status'[q] \in {"absent", "purged"})
                             <=> (status[q] \in {"absent", "purged"})
      /\ \A q \in Photo : status'[q] = "absent" <=> status[q] = "absent"
  <2>1. CASE MarkPhotoFailed(arg[c], ReasonOf(why[c]))
    BY <1>1, <1>2, <1>3, <2>1, FailUploadInv DEF sessionVars, blobVars
  <2>2. CASE UNCHANGED rowVars
    BY <1>1, <2>2 DEF UploadInv, TypeOK, StoredTypes, UploadedHasOriginal,
       Exists, rowVars, blobVars
  <2>3. QED
    BY <2>1, <2>2 DEF FailRow
<1>5. StoredTypes'
  BY <1>1, <1>4, UploadAssumption DEF UploadInv, TypeOK, StoredTypes, FailRow,
     Mishap, sessionVars, blobVars, poolVars, reapVars
<1>6. AbsentIsBlank'
  BY <1>1, <1>4 DEF UploadInv, AbsentIsBlank, sessionVars
<1>7. RequestTypes' /\ OriginalFirst' /\ LocalsKnown'
  BY <1>1, <1>2, GotoKnown DEF UploadInv, TypeOK, FailRow, blobVars
<1>8. QED
  BY <1>4, <1>5, <1>6, <1>7 DEF UploadInv, TypeOK

LEMMA SetUploadedUploadInv ==
    ASSUME UploadInv, NEW c \in Request, SetUploaded(c)
    PROVE  UploadInv'
<1>1. /\ arg[c] \in Photo /\ pc[c] = "set"
      /\ got[c] \in Content /\ got[c] \in origs
  BY DEF UploadInv, TypeOK, RequestTypes, LocalsKnown, OriginalFirst,
     SetUploaded
<1>2. UNCHANGED <<sessionVars, blobVars, poolVars, reapVars, mishaps, answers>>
  BY DEF SetUploaded, Goto, ReplyRetry
<1>3. CASE Leave(c) /\ UNCHANGED rowVars
  <2>1. RequestTypes' /\ OriginalFirst' /\ LocalsKnown'
    BY <1>2, <1>3, LeaveKnown DEF UploadInv, TypeOK, blobVars
  <2>2. StoredTypes' /\ UploadedHasOriginal'
    BY <1>2, <1>3 DEF UploadInv, TypeOK, StoredTypes, UploadedHasOriginal,
       Exists, rowVars, sessionVars, blobVars, poolVars, reapVars
  <2>3. AbsentIsBlank'
    BY <1>2, <1>3, UploadAssumption DEF UploadInv, TypeOK, RequestTypes,
       AbsentIsBlank, Leave, rowVars, sessionVars
  <2>4. QED
    BY <2>1, <2>2, <2>3 DEF UploadInv, TypeOK
<1>4. CASE /\ Visible(arg[c])
           /\ sha' = [sha EXCEPT ![arg[c]] = got[c]]
           /\ status' = [status EXCEPT ![arg[c]] = "pending"]
           /\ Goto(c, "close")
           /\ UNCHANGED <<reason, live, localVars>>
  <2>1. RequestTypes' /\ OriginalFirst' /\ LocalsKnown'
    BY <1>1, <1>2, <1>4, GotoKnown DEF UploadInv, TypeOK, blobVars
  <2>2. StoredTypes' /\ UploadedHasOriginal'
    BY <1>1, <1>2, <1>4 DEF UploadInv, TypeOK, StoredTypes,
       UploadedHasOriginal, Exists, sessionVars, blobVars, poolVars, reapVars
  <2>3. AbsentIsBlank'
    BY <1>1, <1>2, <1>4 DEF UploadInv, TypeOK, StoredTypes, AbsentIsBlank,
       Goto, sessionVars
  <2>4. QED
    BY <2>1, <2>2, <2>3 DEF UploadInv, TypeOK
<1>5. QED
  BY <1>3, <1>4 DEF SetUploaded, ReplyRetry

\* HardDeletePhotos of one row that succeeds.
Gone(q) ==
    /\ status' = [p \in Photo |-> IF p = q THEN "purged" ELSE status[p]]
    /\ sha' = [p \in Photo |-> IF p = q THEN None ELSE sha[p]]
    /\ live' = live \ {q}
    /\ session' = [p \in Photo |-> IF p = q THEN "none" ELSE session[p]]

LEMMA PurgeRowUploadInv ==
    ASSUME UploadInv, NEW c \in Request, PurgeRow(c)
    PROVE  UploadInv'
<1>1. /\ \/ UNCHANGED <<status, sha, live, session>>
         \/ Gone(arg[c])
      /\ UNCHANGED <<reason, late, sent, blobVars, poolVars, reapVars>>
      /\ mishaps' \in Nat
      /\ Leave(c)
  BY DEF UploadInv, TypeOK, StoredTypes, PurgeRow, Withdrawn, Gone, Reply,
         Mishap
<1>2. answers' \in [Photo -> SUBSET Answer]
  BY ReplyTypes DEF UploadInv, TypeOK, PurgeRow, Answer
<1>3. StoredTypes'
  BY <1>1, <1>2 DEF UploadInv, TypeOK, StoredTypes, Gone, blobVars, poolVars,
     reapVars
<1>4. UploadedHasOriginal'
  BY <1>1 DEF UploadInv, UploadedHasOriginal, Exists, Gone, blobVars
<1>5. AbsentIsBlank'
  BY <1>1, UploadAssumption DEF UploadInv, TypeOK, RequestTypes, AbsentIsBlank,
     Leave, Gone
<1>6. RequestTypes' /\ OriginalFirst' /\ LocalsKnown'
  BY <1>1, LeaveKnown DEF UploadInv, TypeOK, blobVars
<1>7. QED
  BY <1>3, <1>4, <1>5, <1>6 DEF UploadInv, TypeOK

\* Enqueue, by HandOver or by a request that was cut off before it.
LEMMA PoolUploadInv ==
    ASSUME UploadInv, NEW c \in Request, HandOver(c) \/ Abandon(c)
    PROVE  UploadInv'
<1>1. /\ UNCHANGED <<rowVars, sessionVars, blobVars, reapVars>>
      /\ mishaps' \in Nat
      /\ Leave(c)
  BY DEF UploadInv, TypeOK, StoredTypes, HandOver, Abandon, Mishap, Reply,
     ReplyRetry
<1>2. queued' \subseteq Photo /\ working' \subseteq Photo \ queued'
  BY DEF UploadInv, TypeOK, StoredTypes, RequestTypes, HandOver, Abandon,
     Enqueue, Pooled, poolVars
<1>3. answers' \in [Photo -> SUBSET Answer]
  <2>1. CASE Reply(c, "ok")
    BY <2>1, ReplyTypes DEF UploadInv, TypeOK, Answer
  <2>2. CASE UNCHANGED answers
    BY <2>2 DEF UploadInv, TypeOK, StoredTypes
  <2>3. QED
    BY <2>1, <2>2 DEF HandOver, Abandon, ReplyRetry
<1>4. StoredTypes' /\ UploadedHasOriginal'
  BY <1>1, <1>2, <1>3 DEF UploadInv, TypeOK, StoredTypes, UploadedHasOriginal,
     Exists, rowVars, sessionVars, blobVars, reapVars
<1>5. AbsentIsBlank'
  BY <1>1, UploadAssumption DEF UploadInv, TypeOK, RequestTypes, AbsentIsBlank,
     Leave, rowVars, sessionVars
<1>6. RequestTypes' /\ OriginalFirst' /\ LocalsKnown'
  BY <1>1, LeaveKnown DEF UploadInv, TypeOK, blobVars
<1>7. QED
  BY <1>4, <1>5, <1>6 DEF UploadInv, TypeOK

\* What the browser, time, owners, the reaper and the pool do: no request moves
\* and no photo comes or goes.
LEMMA QuietUploadInv ==
    ASSUME UploadInv, StoredTypes',
           UNCHANGED <<pc, arg, localVars, sha, origs>>,
           \A p \in Photo : status[p] \in {"absent", "purged"} <=>
                              status'[p] \in {"absent", "purged"},
           \A p \in Photo : status'[p] = "absent" =>
                              status[p] = "absent" /\ session'[p] = session[p]
    PROVE  UploadInv'
<1>1. RequestTypes'
  BY DEF UploadInv, TypeOK, RequestTypes, localVars
<1>2. UploadedHasOriginal' /\ OriginalFirst' /\ LocalsKnown' /\ AbsentIsBlank'
  BY DEF UploadInv, UploadedHasOriginal, OriginalFirst, LocalsKnown,
     AbsentIsBlank, Exists, localVars
<1>3. QED
  BY <1>1, <1>2 DEF UploadInv, TypeOK

LEMMA ClientUploadInv ==
    ASSUME UploadInv, NEW p \in Photo, Put(p) \/ Expire(p) \/ Hide(p)
    PROVE  UploadInv'
<1>1. UNCHANGED <<pc, arg, localVars, status, sha, session, origs>>
  BY DEF Put, Expire, Hide, rowVars, sessionVars, blobVars
<1>2. StoredTypes'
  <2>1. CASE Put(p)
    <3>1. PICK o \in MayPut[p] : /\ sent' = [sent EXCEPT ![p] = o]
                                /\ staging' = [staging EXCEPT ![p] = o]
      BY <2>1 DEF Put
    <3>2. o \in Content
      BY UploadAssumption
    <3>3. QED
      BY <2>1, <3>1, <3>2 DEF UploadInv, TypeOK, StoredTypes, Put, rowVars,
         poolVars, reapVars
  <2>2. CASE Expire(p)
    BY <2>2 DEF UploadInv, TypeOK, StoredTypes, Expire, rowVars, blobVars,
       poolVars, reapVars
  <2>3. CASE Hide(p)
    BY <2>3 DEF UploadInv, TypeOK, StoredTypes, Hide, Mishap, sessionVars,
       blobVars, poolVars, reapVars
  <2>4. QED
    BY <2>1, <2>2, <2>3
<1>3. QED
  BY <1>1, <1>2, QuietUploadInv

\* Only a row that is there is claimed or marked, or its sha is None.
LEMMA WorkerUploadInv ==
    ASSUME UploadInv, NEW p \in Photo, Claim(p) \/ Settle(p)
    PROVE  UploadInv'
<1>1. UNCHANGED <<pc, arg, localVars, sha, live, sessionVars, blobVars,
                  reapVars, answers, mishaps>>
  BY DEF Claim, Settle, MarkPhotoFailed, rowVars
<1>2. queued' \subseteq Photo /\ working' \subseteq Photo \ queued'
  BY DEF UploadInv, TypeOK, StoredTypes, Claim, Settle,
     Take, Skip, Finish
<1>3. /\ \/ status' = status
         \/ \E s \in {"processing", "ready", "failed"} :
              status' = [status EXCEPT ![p] = s]
      /\ \/ reason' = reason
         \/ \E r \in Reason : reason' = [reason EXCEPT ![p] = r]
  BY DEF Claim, Settle, MarkPhotoFailed, Reason, rowVars
<1>4. StoredTypes'
  BY <1>1, <1>2, <1>3 DEF UploadInv, TypeOK, StoredTypes, sessionVars,
     blobVars, reapVars
<1>5. RequestTypes' /\ OriginalFirst' /\ LocalsKnown'
  BY <1>1 DEF UploadInv, TypeOK, RequestTypes, OriginalFirst, LocalsKnown,
     localVars, blobVars
<1>6. UploadedHasOriginal' /\ AbsentIsBlank'
  BY <1>1, <1>3 DEF UploadInv, TypeOK, StoredTypes, UploadedHasOriginal,
     AbsentIsBlank, Exists, sessionVars, blobVars
<1>7. QED
  BY <1>4, <1>5, <1>6 DEF UploadInv, TypeOK

LEMMA ReapUploadInv ==
    ASSUME UploadInv, Reap
    PROVE  UploadInv'
<1>1. UNCHANGED <<pc, arg, localVars, sha, live, origs, poolVars, answers>>
      /\ mishaps' \in Nat
  BY DEF UploadInv, TypeOK, StoredTypes, Reap, ReapScan, ReapSession, ReapRow,
     ReapObject, MarkPhotoFailed, SetSessionState, DropStaging, Mishap, rowVars,
     blobVars
<1>2. CASE ReapScan
  <2>1. StoredTypes'
    BY <1>2 DEF UploadInv, TypeOK, StoredTypes, ReapScan, Overdue, rowVars,
       sessionVars, blobVars, poolVars
  <2>2. QED
    BY <1>1, <1>2, <2>1, QuietUploadInv DEF ReapScan, rowVars, sessionVars
<1>3. CASE ReapSession
  <2>1. PICK p \in listed :
          /\ SetSessionState(p, "expired") \/ UNCHANGED sessionVars
          /\ reaping' \in {p, None, reaping}
          /\ listed' = listed \ {p}
    BY <1>3 DEF ReapSession
  <2>2. p \in Photo
    BY DEF UploadInv, TypeOK, StoredTypes
  <2>3. StoredTypes'
    BY <1>1, <1>3, <2>1, <2>2 DEF UploadInv, TypeOK, StoredTypes, ReapSession,
       SetSessionState, rowVars, sessionVars, blobVars, poolVars
  <2>4. \A q \in Photo : session[q] = "none" => session'[q] = session[q]
    BY <2>1 DEF UploadInv, TypeOK, StoredTypes, SetSessionState, sessionVars
  <2>5. QED
    BY <1>1, <1>3, <2>3, <2>4, QuietUploadInv DEF UploadInv, AbsentIsBlank,
       ReapSession, rowVars
<1>4. CASE ReapRow
  <2>1. /\ reaping \in Photo
        /\ MarkPhotoFailed(reaping, "incomplete") \/ UNCHANGED rowVars
    BY <1>4 DEF UploadInv, TypeOK, StoredTypes, ReapRow
  <2>2. UNCHANGED <<sessionVars, blobVars>>
    BY <1>4 DEF ReapRow
  <2>3. /\ status' \in [Photo -> {"absent", "pending", "processing", "ready",
                                  "failed", "purged"}]
        /\ reason' \in [Photo -> Reason]
        /\ \A q \in Photo : (status'[q] \in {"absent", "purged"})
                               <=> (status[q] \in {"absent", "purged"})
        /\ \A q \in Photo : status'[q] = "absent" <=> status[q] = "absent"
    BY <2>1, <2>2, FailUploadInv DEF UploadInv, TypeOK, StoredTypes, Reason,
       rowVars, sessionVars, blobVars
  <2>4. StoredTypes'
    BY <1>1, <1>4, <2>3 DEF UploadInv, TypeOK, StoredTypes, ReapRow,
       sessionVars, blobVars, poolVars
  <2>5. QED
    BY <1>1, <2>2, <2>3, <2>4, QuietUploadInv DEF sessionVars
<1>5. CASE ReapObject
  <2>1. StoredTypes'
    BY <1>1, <1>5 DEF UploadInv, TypeOK, StoredTypes, ReapObject, DropStaging,
       rowVars, sessionVars, blobVars, poolVars
  <2>2. QED
    BY <1>1, <1>5, <2>1, QuietUploadInv DEF ReapObject, rowVars, sessionVars
<1>6. QED
  BY <1>2, <1>3, <1>4, <1>5 DEF Reap

LEMMA RescanUploadInv ==
    ASSUME UploadInv, Rescan
    PROVE  UploadInv'
<1>1. StoredTypes'
  BY DEF UploadInv, TypeOK, StoredTypes, Rescan, Stuck, Enqueue,
     Pooled, rowVars, sessionVars,
     blobVars, reapVars
<1>2. QED
  BY <1>1, QuietUploadInv DEF Rescan, rowVars, sessionVars, blobVars

\* A crash and no step at all.
LEMMA CrashUploadInv ==
    ASSUME UploadInv, Crash \/ UNCHANGED vars
    PROVE  UploadInv'
<1>1. CASE Crash
  <2>1. StoredTypes'
    BY <1>1 DEF UploadInv, TypeOK, StoredTypes, Crash, Lose, Mishap, rowVars,
       sessionVars, blobVars
  <2>2. RequestTypes'
    BY <1>1, UploadAssumption DEF RequestTypes, Crash, Unread, Reason
  <2>3. UploadedHasOriginal' /\ OriginalFirst' /\ LocalsKnown'
    BY <1>1 DEF UploadInv, UploadedHasOriginal, OriginalFirst, LocalsKnown,
       Exists, Crash, rowVars, blobVars
  <2>4. AbsentIsBlank'
    BY <1>1, UploadAssumption DEF UploadInv, AbsentIsBlank, Crash, rowVars,
       sessionVars
  <2>5. QED
    BY <2>1, <2>2, <2>3, <2>4 DEF UploadInv, TypeOK
<1>2. CASE UNCHANGED vars
  BY <1>2 DEF UploadInv, TypeOK, StoredTypes, RequestTypes,
     UploadedHasOriginal, OriginalFirst, LocalsKnown, AbsentIsBlank, Exists,
     vars, rowVars, sessionVars, blobVars, poolVars, reapVars, localVars
<1>3. QED
  BY <1>1, <1>2

LEMMA UploadStepInv == UploadInv /\ [Next]_vars => UploadInv'
<1> SUFFICES ASSUME UploadInv, [Next]_vars PROVE UploadInv'
  OBVIOUS
<1>1. ASSUME NEW c \in Request,
             \/ Presign(c)
             \/ OpenSession(c)
             \/ \E p \in Photo : Confirm(c, p)
             \/ ConfirmStep(c)
             \/ Abandon(c)
      PROVE  UploadInv'
  BY <1>1, StartUploadInv, ReadingUploadInv, SessionUploadInv, ObjectUploadInv,
     FailRowUploadInv, SetUploadedUploadInv, PurgeRowUploadInv, PoolUploadInv
     DEF ConfirmStep, Reading
<1>2. ASSUME NEW p \in Photo,
             Put(p) \/ Expire(p) \/ Hide(p) \/ Claim(p) \/ Settle(p)
      PROVE  UploadInv'
  BY <1>2, ClientUploadInv, WorkerUploadInv
<1>3. CASE Reap \/ Rescan
  BY <1>3, ReapUploadInv, RescanUploadInv
<1>4. CASE Crash \/ UNCHANGED vars
  BY <1>4, CrashUploadInv
<1>5. QED
  BY <1>1, <1>2, <1>3, <1>4 DEF Next

\* The inductive invariant of direct uploads, whatever overlaps.
THEOREM UploadInvariant == Spec => []UploadInv
<1>1. QED
  BY InitUploadInv, UploadStepInv, PTL DEF Spec

\* Type correctness of direct uploads.
THEOREM UploadTypeCorrect == Spec => []TypeOK
<1>1. UploadInv => TypeOK
  BY DEF UploadInv
<1>2. QED
  BY <1>1, UploadInvariant, PTL

\* "Blob first, database last" (design document, line 168) for direct uploads: a
\* row with a sha has its original, whatever call failed, whoever was
\* cut off and however confirms, reaper and pool interleave.
THEOREM UploadOriginals == Spec => []UploadedHasOriginal
<1>1. UploadInv => UploadedHasOriginal
  BY DEF UploadInv
<1>2. QED
  BY <1>1, UploadInvariant, PTL

\* Uploads do with the pool only what the pool allows: PhotoPool's promises
\* are all they rely on, and WorkerPool keeps them.
THEOREM UploadUsesPool == Spec => PoolSpec
<1>1. Init => PoolInit
  BY DEF Init
<1>2. ASSUME UploadInv, [Next]_vars
      PROVE  [PoolNext]_poolVars
  <2>1. ASSUME NEW c \in Request,
               \/ Presign(c)
               \/ OpenSession(c)
               \/ \E p \in Photo : Confirm(c, p)
               \/ ConfirmStep(c)
        PROVE  UNCHANGED poolVars \/ HandOver(c)
    BY <2>1 DEF Presign, OpenSession, Confirm, ConfirmStep, ReadRow,
       ReadSession, StatStaging, ReadStaging, FindDuplicate, StatOrig,
       CopyStaging, Unstage, SetUploaded, CloseSession, EndSession, FailRow,
       DropObject, PurgeRow
  <2>2. ASSUME NEW c \in Request, HandOver(c) \/ Abandon(c)
        PROVE  [PoolNext]_poolVars
    <3>1. arg[c] \in Photo
      BY <1>2, <2>2, UploadAssumption
         DEF UploadInv, TypeOK, RequestTypes, HandOver, Abandon
    <3> QED
      BY <2>2, <3>1 DEF HandOver, Abandon, PoolNext
  <2>3. ASSUME NEW p \in Photo,
               Put(p) \/ Expire(p) \/ Hide(p) \/ Claim(p) \/ Settle(p)
        PROVE  [PoolNext]_poolVars
    BY <2>3 DEF Put, Expire, Hide, Claim, Settle, PoolNext
  <2>4. CASE Reap
    BY <2>4 DEF Reap, ReapScan, ReapSession, ReapRow, ReapObject
  <2>5. CASE Rescan \/ Crash
    <3>1. Stuck \subseteq Photo
      BY <1>2 DEF UploadInv, TypeOK, StoredTypes, Stuck
    <3> QED
      BY <2>5, <3>1 DEF Rescan, Crash, PoolNext
  <2>6. CASE UNCHANGED vars
    BY <2>6 DEF vars
  <2> QED
    BY <1>2, <2>1, <2>2, <2>3, <2>4, <2>5, <2>6 DEF Next
<1> QED
  BY <1>1, <1>2, UploadInvariant, PTL DEF Spec, PoolSpec

-----------------------------------------------------------------------------
(* One confirm at a time: KeepInv *)

LEMMA InitKeepInv == Init => KeepInv
  BY DEF Init, PoolInit, KeepInv, OneRequest, ShaIsSent, GotIsSent,
     NotYetUploaded,
     TakenIsUploaded, SeenIsUploaded, AnswersBacked, TwinFound, Unread

\* A request that ends takes its obligations along.
LEMMA LeaveKeep ==
    ASSUME UploadInv, KeepInv, NEW c \in Request, Leave(c),
           UNCHANGED <<sha, sent>>,
           \A p \in Photo : staging'[p] \in {staging[p], None},
           TakenIsUploaded', AnswersBacked'
    PROVE  KeepInv'
<1>1. OneRequest' /\ GotIsSent' /\ NotYetUploaded' /\ SeenIsUploaded'
  BY DEF UploadInv, TypeOK, RequestTypes, KeepInv, OneRequest, GotIsSent,
     NotYetUploaded, SeenIsUploaded, Leave, Unread
<1>2. ShaIsSent'
  BY DEF UploadInv, TypeOK, RequestTypes, KeepInv, ShaIsSent, Leave
<1>3. TwinFound'
  BY DEF UploadInv, TypeOK, RequestTypes, KeepInv, TwinFound, HasTwin, Leave
<1>4. QED
  BY <1>1, <1>2, <1>3 DEF KeepInv

\* What was answered stays so while shas and PUTs do.
LEMMA ReplyKeep ==
    ASSUME UploadInv, KeepInv, NEW c \in Request, arg[c] # None,
           NEW a \in Answer, Reply(c, a), UNCHANGED <<sha, sent>>,
           a = "ok" => sha[arg[c]] # None, a = "duplicate" => HasTwin(arg[c])
    PROVE  AnswersBacked'
<1>1. \A p \in Photo : HasTwin(p)' = HasTwin(p)
  BY DEF HasTwin
<1>2. answers' = [answers EXCEPT ![arg[c]] = @ \cup {a}]
  BY DEF Reply
<1>3. QED
  BY <1>1, <1>2 DEF UploadInv, TypeOK, StoredTypes, KeepInv, AnswersBacked

LEMMA StartKeep ==
    ASSUME ~Overlapping, UploadInv, KeepInv, NEW c \in Request,
           Presign(c) \/ (\E p \in Photo : Confirm(c, p))
    PROVE  KeepInv'
<1>1. PICK p \in Photo, s \in {"open", "row"} :
        /\ arg' = [arg EXCEPT ![c] = p]
        /\ pc' = [pc EXCEPT ![c] = s]
        /\ \A d \in Request : arg[d] # p
        /\ status' = status \/ status' = [status EXCEPT ![p] = "pending"]
  BY DEF UploadInv, AbsentIsBlank, Presign, Confirm, rowVars
<1>2. UNCHANGED <<sha, sent, staging, poolVars, localVars, answers>>
  BY DEF Presign, Confirm, rowVars, sessionVars, blobVars
<1>3. pc[c] = "idle" /\ seen[c] = Unread /\ why[c] = "none"
  BY DEF UploadInv, LocalsKnown, Presign, Confirm
<1>4. OneRequest' /\ ShaIsSent' /\ GotIsSent'
  BY <1>1, <1>2 DEF UploadInv, TypeOK, RequestTypes, KeepInv, OneRequest,
     ShaIsSent, GotIsSent, localVars
<1>5. NotYetUploaded' /\ SeenIsUploaded'
  BY <1>1, <1>2, <1>3 DEF UploadInv, TypeOK, RequestTypes, KeepInv,
     NotYetUploaded, SeenIsUploaded, Unread, localVars
<1>6. TakenIsUploaded'
  BY <1>1, <1>2 DEF UploadInv, TypeOK, StoredTypes, KeepInv, TakenIsUploaded,
     poolVars
<1>7. AnswersBacked' /\ TwinFound'
  BY <1>1, <1>2, <1>3 DEF UploadInv, TypeOK, RequestTypes, KeepInv,
     AnswersBacked, TwinFound, HasTwin, localVars
<1>8. QED
  BY <1>4, <1>5, <1>6, <1>7 DEF KeepInv

LEMMA ReadingKeep ==
    ASSUME UploadInv, KeepInv, NEW c \in Request, Reading(c)
    PROVE  KeepInv'
<1>1. UNCHANGED <<rowVars, sessionVars, blobVars, poolVars>>
  BY DEF Reading, ReadRow, ReadSession, StatStaging, ReadStaging,
     FindDuplicate, StatOrig
<1>2. arg[c] \in Photo /\ arg[c] # None
  BY UploadAssumption DEF UploadInv, TypeOK, RequestTypes, Reading, ReadRow,
     ReadSession, StatStaging, ReadStaging, FindDuplicate, StatOrig
<1>3. TakenIsUploaded'
  BY <1>1 DEF KeepInv, TakenIsUploaded, rowVars, poolVars
<1>4. ASSUME UNCHANGED answers PROVE AnswersBacked'
  BY <1>1, <1>4 DEF KeepInv, AnswersBacked, HasTwin, rowVars, sessionVars
<1>5. CASE Leave(c)
  <2>1. CASE ReadSession(c) /\ Reply(c, Standing(seen[c]))
    <3>1. /\ Standing(seen[c]) \in Answer \ {"duplicate"}
          /\ Standing(seen[c]) = "ok" => sha[arg[c]] # None
      BY DEF KeepInv, SeenIsUploaded, Standing, VerdictOf, Answer, Verdict,
         Rejection
    <3>2. AnswersBacked'
      BY <1>1, <1>2, <2>1, <3>1, ReplyKeep DEF rowVars, sessionVars
    <3>3. QED
      BY <1>1, <1>3, <1>5, <3>2, LeaveKeep DEF rowVars, sessionVars, blobVars
  <2>2. CASE UNCHANGED answers
    BY <1>1, <1>3, <1>4, <1>5, <2>2, LeaveKeep DEF rowVars, sessionVars,
       blobVars
  <2>3. QED
    BY <2>1, <2>2 DEF Reading, ReadRow, ReadSession, StatStaging, ReadStaging,
       FindDuplicate, StatOrig, GiveUp, Goto, ReplyRetry
<1>6. CASE ~Leave(c)
  <2>1. UNCHANGED <<arg, answers>>
    BY <1>6 DEF Reading, ReadRow, ReadSession, StatStaging, ReadStaging,
       FindDuplicate, StatOrig, GiveUp, Goto, Reply, ReplyRetry
  <2>2. PICK s \in {"session", "stat", "read", "dup", "orig", "copy", "unstage",
                    "end"} :
          pc' = [pc EXCEPT ![c] = s]
    BY <1>6 DEF Reading, ReadRow, ReadSession, StatStaging, ReadStaging,
       FindDuplicate, StatOrig, GiveUp, Goto, Reply, ReplyRetry
  <2>3. OneRequest' /\ ShaIsSent' /\ AnswersBacked'
    BY <1>1, <1>4, <2>1, <2>2 DEF UploadInv, TypeOK, RequestTypes, KeepInv,
       OneRequest, ShaIsSent, rowVars, sessionVars, blobVars
  <2>4. \A d \in Request \ {c} : /\ pc'[d] = pc[d] /\ seen'[d] = seen[d]
                                 /\ got'[d] = got[d] /\ why'[d] = why[d]
    BY <1>6 DEF UploadInv, TypeOK, RequestTypes, Reading, ReadRow,
       ReadSession, StatStaging, ReadStaging, FindDuplicate, StatOrig, GiveUp,
       Goto, Reply, ReplyRetry, localVars
  <2>5. s \in {"dup", "orig", "copy", "unstage"} => got'[c] = sent[arg[c]]
    <3>1. CASE ReadStaging(c)
      BY <1>2, <1>6, <2>2, <3>1, UploadAssumption DEF UploadInv, TypeOK,
         RequestTypes, KeepInv, ShaIsSent, ReadStaging, GiveUp, Goto,
         ReplyRetry
    <3>2. CASE FindDuplicate(c) \/ StatOrig(c)
      BY <2>2, <3>2 DEF UploadInv, TypeOK, RequestTypes, KeepInv, GotIsSent,
         FindDuplicate, StatOrig, GiveUp, Goto, localVars
    <3>3. CASE ReadRow(c) \/ ReadSession(c) \/ StatStaging(c)
      BY <1>6, <2>2, <3>3 DEF UploadInv, TypeOK, RequestTypes, ReadRow,
         ReadSession, StatStaging, GiveUp, Goto, Reply, ReplyRetry
    <3>4. QED
      BY <3>1, <3>2, <3>3 DEF Reading
  <2>6. \/ s \in {"read", "dup", "orig", "copy", "unstage"}
        \/ why'[c] = "duplicate"
        => sha[arg[c]] = None
    <3>1. CASE StatStaging(c)
      BY <1>2, <1>6, <2>2, <3>1, UploadAssumption DEF UploadInv, TypeOK,
         RequestTypes, KeepInv, ShaIsSent, NotYetUploaded, StatStaging,
         GiveUp, Goto, ReplyRetry, localVars
    <3>2. CASE ReadStaging(c) \/ FindDuplicate(c) \/ StatOrig(c)
      BY <3>2 DEF KeepInv, NotYetUploaded, ReadStaging, FindDuplicate, StatOrig
    <3>3. CASE ReadRow(c) \/ ReadSession(c)
      BY <1>6, <2>2, <3>3 DEF UploadInv, TypeOK, RequestTypes, KeepInv,
         NotYetUploaded, ReadRow, ReadSession, GiveUp, Goto, Reply, ReplyRetry
    <3>4. QED
      BY <3>1, <3>2, <3>3 DEF Reading
  <2>7. seen'[c][1] \in {"processing", "ready"} => sha[arg[c]] # None
    BY <1>2, <1>6 DEF UploadInv, TypeOK, RequestTypes, KeepInv,
       TakenIsUploaded, SeenIsUploaded, Reading, ReadRow, ReadSession,
       StatStaging, ReadStaging, FindDuplicate, StatOrig, GiveUp, Goto, Reply,
       ReplyRetry, Unread, localVars
  <2>8. why'[c] = "duplicate" => s = "end" /\ HasTwin(arg[c])
    <3>1. CASE FindDuplicate(c) /\ Twins(arg[c], got[c]) # {}
      <4>1. HasTwin(arg[c])
        BY <3>1, UploadAssumption DEF UploadInv, LocalsKnown, KeepInv,
           GotIsSent, FindDuplicate, Twins, HasTwin
      <4>2. pc'[c] = "end"
        BY <3>1 DEF UploadInv, TypeOK, RequestTypes, FindDuplicate, GiveUp, Goto
      <4>3. QED
        BY <2>2, <4>1, <4>2 DEF UploadInv, TypeOK, RequestTypes
    <3>2. CASE ~(FindDuplicate(c) /\ Twins(arg[c], got[c]) # {})
      BY <1>6, <3>2 DEF UploadInv, TypeOK, RequestTypes, KeepInv, TwinFound,
         Reading, ReadRow, ReadSession, StatStaging, ReadStaging,
         FindDuplicate, StatOrig, GiveUp, Goto, Reply, ReplyRetry, localVars
    <3>3. QED
      BY <3>1, <3>2
  <2>9. GotIsSent' /\ NotYetUploaded' /\ SeenIsUploaded'
    BY <1>1, <2>1, <2>2, <2>4, <2>5, <2>6, <2>7 DEF UploadInv, TypeOK,
       RequestTypes, KeepInv, GotIsSent, NotYetUploaded, SeenIsUploaded,
       rowVars, sessionVars
  <2>10. TwinFound'
    BY <1>1, <2>1, <2>2, <2>4, <2>8 DEF UploadInv, TypeOK, RequestTypes,
       KeepInv, TwinFound, HasTwin, rowVars, sessionVars
  <2>11. QED
    BY <1>3, <2>3, <2>9, <2>10 DEF KeepInv
<1>7. QED
  BY <1>5, <1>6

\* So does one that goes on, provided that its next call finds what it needs.
LEMMA GotoKeep ==
    ASSUME UploadInv, KeepInv, NEW c \in Request,
           NEW s \in {"unstage", "set", "enqueue", "fail", "drop", "purge"},
           Goto(c, s), UNCHANGED localVars, UNCHANGED <<sha, sent>>,
           \A p \in Photo : staging'[p] \in {staging[p], None},
           s \in {"unstage", "set"} => pc[c] \in {"copy", "unstage"},
           s = "set" => staging'[arg[c]] = None,
           s = "enqueue" => sha[arg[c]] # None,
           why[c] = "duplicate" => s \in {"drop", "purge"},
           TakenIsUploaded'
    PROVE  KeepInv'
<1>1. OneRequest' /\ AnswersBacked'
  BY DEF KeepInv, OneRequest, AnswersBacked, HasTwin, Goto
<1>2. ShaIsSent'
  BY DEF UploadInv, TypeOK, RequestTypes, KeepInv, ShaIsSent, Goto
<1>3. GotIsSent' /\ NotYetUploaded' /\ SeenIsUploaded'
  BY DEF UploadInv, TypeOK, RequestTypes, KeepInv, GotIsSent, NotYetUploaded,
     SeenIsUploaded, Goto, localVars
<1>4. TwinFound'
  BY DEF UploadInv, TypeOK, RequestTypes, KeepInv, TwinFound, HasTwin, Goto,
     localVars
<1>5. QED
  BY <1>1, <1>2, <1>3, <1>4 DEF KeepInv

\* A step of somebody else.
LEMMA QuietKeep ==
    ASSUME KeepInv, UNCHANGED <<pc, arg, localVars, sha, sent, answers>>,
           \A p \in Photo : staging'[p] \in {staging[p], None},
           TakenIsUploaded'
    PROVE  KeepInv'
<1>1. OneRequest' /\ GotIsSent' /\ NotYetUploaded' /\ SeenIsUploaded'
  BY DEF KeepInv, OneRequest, GotIsSent, NotYetUploaded, SeenIsUploaded,
     localVars
<1>2. ShaIsSent'
  BY DEF KeepInv, ShaIsSent
<1>3. AnswersBacked' /\ TwinFound'
  BY DEF KeepInv, AnswersBacked, TwinFound, HasTwin, localVars
<1>4. QED
  BY <1>1, <1>2, <1>3 DEF KeepInv

\* Of what is taken for uploaded, only a row with a sha joins.
LEMMA SameTaken ==
    ASSUME KeepInv, UNCHANGED <<sha, status>>,
           \A p \in Photo : p \in queued' \cup working' =>
                                p \in queued \cup working \/ sha[p] # None
    PROVE  TakenIsUploaded'
  BY DEF KeepInv, TakenIsUploaded

LEMMA SessionKeep ==
    ASSUME UploadInv, KeepInv, NEW c \in Request,
           OpenSession(c) \/ CloseSession(c) \/ EndSession(c)
    PROVE  KeepInv'
<1>1. UNCHANGED <<rowVars, blobVars, poolVars, sent, answers>>
  BY DEF OpenSession, CloseSession, EndSession, SetSessionState, Goto,
     ReplyRetry, sessionVars
<1>2. TakenIsUploaded'
  BY <1>1, SameTaken DEF rowVars, poolVars
<1>3. AnswersBacked'
  BY <1>1 DEF KeepInv, AnswersBacked, HasTwin, rowVars
<1>4. CASE OpenSession(c)
  BY <1>1, <1>2, <1>3, <1>4, LeaveKeep DEF OpenSession, ReplyRetry, rowVars,
     blobVars
<1>5. CASE CloseSession(c)
  <2>1. sha[arg[c]] # None /\ why[c] # "duplicate"
    BY <1>5 DEF KeepInv, SeenIsUploaded, TwinFound, CloseSession
  <2>2. QED
    BY <1>1, <1>2, <1>5, <2>1, GotoKeep DEF CloseSession, rowVars, blobVars
<1>6. CASE EndSession(c)
  BY <1>1, <1>2, <1>6, GotoKeep DEF EndSession, rowVars, blobVars
<1>7. QED
  BY <1>4, <1>5, <1>6

LEMMA ObjectKeep ==
    ASSUME UploadInv, KeepInv, NEW c \in Request,
           CopyStaging(c) \/ Unstage(c) \/ DropObject(c)
    PROVE  KeepInv'
<1>1. UNCHANGED <<rowVars, poolVars, sent>>
  BY DEF CopyStaging, Unstage, DropObject, sessionVars
<1>2. arg[c] \in Photo /\ arg[c] # None
  BY UploadAssumption DEF UploadInv, TypeOK, RequestTypes, CopyStaging,
     Unstage, DropObject
<1>3. TakenIsUploaded'
  BY <1>1, SameTaken DEF rowVars, poolVars
<1>4. /\ \A p \in Photo : staging'[p] \in {staging[p], None}
      /\ Unstage(c) => staging'[arg[c]] = None
  BY <1>2 DEF UploadInv, TypeOK, StoredTypes, CopyStaging, Unstage,
     DropObject, DropStaging, blobVars
<1>5. ASSUME UNCHANGED answers PROVE AnswersBacked'
  BY <1>1, <1>5 DEF KeepInv, AnswersBacked, HasTwin, rowVars
<1>6. CASE CopyStaging(c)
  <2>1. CASE ReplyRetry(c)
    BY <1>1, <1>3, <1>4, <1>5, <2>1, LeaveKeep DEF ReplyRetry, rowVars
  <2>2. CASE Goto(c, "unstage") /\ UNCHANGED localVars
    <3>1. why[c] # "duplicate"
      BY <1>6 DEF KeepInv, TwinFound, CopyStaging
    <3>2. QED
      BY <1>1, <1>3, <1>4, <1>6, <2>2, <3>1, GotoKeep DEF CopyStaging, rowVars
  <2>3. QED
    BY <1>6, <2>1, <2>2 DEF CopyStaging
<1>7. CASE Unstage(c)
  <2>1. why[c] # "duplicate"
    BY <1>7 DEF KeepInv, TwinFound, Unstage
  <2>2. QED
    BY <1>1, <1>3, <1>4, <1>7, <2>1, GotoKeep DEF Unstage, rowVars
<1>8. CASE DropObject(c)
  <2>1. why[c] \in Verdict \cup {"duplicate"}
    BY <1>8 DEF UploadInv, LocalsKnown, DropObject
  <2>2. CASE why[c] = "duplicate"
    BY <1>1, <1>3, <1>4, <1>8, <2>2, GotoKeep DEF DropObject, rowVars
  <2>3. CASE why[c] \in Verdict
    <3>1. /\ Reply(c, why[c]) /\ why[c] \in Answer
          /\ why[c] \notin {"ok", "duplicate"}
      BY <1>8, <2>3 DEF DropObject, Verdict, Rejection, Answer
    <3>2. AnswersBacked'
      BY <1>1, <1>2, <3>1, ReplyKeep DEF rowVars
    <3>3. QED
      BY <1>1, <1>3, <1>4, <3>1, <3>2, LeaveKeep DEF Reply, rowVars
  <2>4. QED
    BY <2>1, <2>2, <2>3
<1>9. QED
  BY <1>6, <1>7, <1>8

\* A row that is marked failed is no longer taken for uploaded by its status.
LEMMA FailedTaken ==
    ASSUME UploadInv, KeepInv, NEW p \in Photo, NEW r, MarkPhotoFailed(p, r),
           queued' \cup working' \subseteq queued \cup working
    PROVE  TakenIsUploaded'
<1>1. sha' = sha /\ \A q \in Photo : status'[q] \in {status[q], "failed"}
  BY DEF UploadInv, TypeOK, StoredTypes, MarkPhotoFailed
<1>2. QED
  BY <1>1 DEF KeepInv, TakenIsUploaded

LEMMA FailRowKeep ==
    ASSUME UploadInv, KeepInv, NEW c \in Request, FailRow(c)
    PROVE  KeepInv'
<1>1. UNCHANGED <<sha, sent, staging, poolVars>>
  BY DEF FailRow, MarkPhotoFailed, rowVars, sessionVars, blobVars
<1>2. arg[c] \in Photo /\ why[c] # "duplicate"
  BY DEF UploadInv, TypeOK, RequestTypes, KeepInv, TwinFound, FailRow
<1>3. TakenIsUploaded'
  <2>1. CASE MarkPhotoFailed(arg[c], ReasonOf(why[c]))
    BY <1>1, <1>2, <2>1, FailedTaken DEF poolVars
  <2>2. CASE UNCHANGED rowVars
    BY <1>1, <2>2, SameTaken DEF rowVars, poolVars
  <2>3. QED
    BY <2>1, <2>2 DEF FailRow
<1>4. QED
  BY <1>1, <1>2, <1>3, GotoKeep DEF FailRow

\* The row learns its sha: it had none, its staging object is gone, and no
\* other request is about it.
LEMMA SetUploadedKeep ==
    ASSUME UploadInv, KeepInv, NEW c \in Request, SetUploaded(c)
    PROVE  KeepInv'
<1>1. pc[c] = "set" /\ UNCHANGED <<sent, staging, poolVars>>
  BY DEF SetUploaded, sessionVars, blobVars
<1>2. CASE ReplyRetry(c) /\ UNCHANGED rowVars
  <2>1. TakenIsUploaded' /\ AnswersBacked'
    BY <1>1, <1>2, SameTaken DEF KeepInv, AnswersBacked, HasTwin, ReplyRetry,
       rowVars, poolVars
  <2>2. QED
    BY <1>1, <1>2, <2>1, LeaveKeep DEF ReplyRetry, rowVars
<1>3. CASE ~(ReplyRetry(c) /\ UNCHANGED rowVars)
  <2> DEFINE p == arg[c]
  <2>1. p \in Photo /\ p # None
    BY <1>1, UploadAssumption DEF UploadInv, TypeOK, RequestTypes
  <2>2. /\ sha' = [sha EXCEPT ![p] = got[c]]
        /\ status' = [status EXCEPT ![p] = "pending"]
        /\ pc' = [pc EXCEPT ![c] = "close"]
        /\ UNCHANGED <<arg, answers, localVars>>
    BY <1>3 DEF SetUploaded, Goto
  <2>3. /\ sha[p] = None /\ staging[p] = None
        /\ got[c] = sent[p] /\ got[c] # None
        /\ why[c] # "duplicate"
    BY <1>1, <2>1, UploadAssumption DEF UploadInv, LocalsKnown, KeepInv,
       NotYetUploaded, ShaIsSent, GotIsSent, TwinFound
  <2>4. \A d \in Request : arg[d] = p => d = c
    BY <2>1 DEF KeepInv, OneRequest
  <2>5. /\ sha'[p] = sent[p] /\ sha'[p] # None
        /\ \A q \in Photo \ {p} : sha'[q] = sha[q]
    BY <2>1, <2>2, <2>3 DEF UploadInv, TypeOK, StoredTypes
  <2>6. /\ pc'[c] = "close"
        /\ \A d \in Request \ {c} : pc'[d] = pc[d]
    BY <2>2 DEF UploadInv, TypeOK, RequestTypes
  <2>7. \A d \in Request : pc[d] # "idle" => arg[d] \in Photo
    BY DEF UploadInv, TypeOK, RequestTypes
  <2>8. \A q \in Photo : HasTwin(q) => HasTwin(q)'
    BY <1>1, <2>3, <2>5 DEF HasTwin
  <2>9. OneRequest' /\ GotIsSent'
    BY <1>1, <2>2, <2>6 DEF KeepInv, OneRequest, GotIsSent, localVars
  <2>10. ShaIsSent'
    BY <1>1, <2>2, <2>3, <2>5, <2>6 DEF KeepInv, ShaIsSent
  <2>11. NotYetUploaded' /\ SeenIsUploaded'
    <3>1. NotYetUploaded'
      <4> SUFFICES ASSUME NEW d \in Request,
                          \/ pc'[d] \in {"read", "dup", "orig", "copy",
                                         "unstage", "set"}
                          \/ why'[d] = "duplicate"
                   PROVE  sha'[arg'[d]] = None
        BY DEF NotYetUploaded
      <4>1. d # c
        BY <2>2, <2>3, <2>6 DEF localVars
      <4>2. sha[arg[d]] = None /\ pc[d] # "idle"
        BY <2>2, <2>6, <4>1 DEF KeepInv, NotYetUploaded, TwinFound, localVars
      <4>3. QED
        BY <2>2, <2>4, <2>5, <2>7, <4>1, <4>2
    <3>2. SeenIsUploaded'
      <4> SUFFICES ASSUME NEW d \in Request,
                          \/ pc'[d] \in {"close", "enqueue"}
                          \/ seen'[d][1] \in {"processing", "ready"}
                   PROVE  sha'[arg'[d]] # None
        BY DEF SeenIsUploaded
      <4>1. CASE arg[d] = p
        BY <2>2, <2>5, <4>1
      <4>2. CASE arg[d] # p
        <5>1. sha[arg[d]] # None
          BY <2>2, <2>6, <4>2 DEF KeepInv, SeenIsUploaded, localVars
        <5>2. arg[d] \in Photo
          <6>1. pc[d] # "idle"
            BY <2>2, <2>6, <4>2 DEF UploadInv, LocalsKnown, Unread, localVars
          <6>2. QED
            BY <2>7, <6>1
        <5>3. QED
          BY <2>2, <2>5, <4>2, <5>1, <5>2
      <4>3. QED
        BY <4>1, <4>2
    <3>3. QED
      BY <3>1, <3>2
  <2>12. TakenIsUploaded'
    BY <1>1, <2>1, <2>2, <2>5 DEF UploadInv, TypeOK, StoredTypes, KeepInv,
       TakenIsUploaded, poolVars
  <2>13. AnswersBacked'
    BY <2>2, <2>5, <2>8 DEF KeepInv, AnswersBacked
  <2>14. TwinFound'
    <3> SUFFICES ASSUME NEW d \in Request, why'[d] = "duplicate"
                 PROVE  pc'[d] \in {"end", "drop", "purge"} /\ HasTwin(arg[d])'
      BY DEF TwinFound, HasTwin
    <3>1. d # c /\ pc[d] \in {"end", "drop", "purge"} /\ HasTwin(arg[d])
      BY <2>2, <2>3 DEF KeepInv, TwinFound, localVars
    <3>2. arg[d] \in Photo /\ arg' = arg
      BY <2>2, <2>7, <3>1
    <3>3. QED
      BY <2>6, <2>8, <3>1, <3>2 DEF HasTwin
  <2>15. QED
    BY <2>9, <2>10, <2>11, <2>12, <2>13, <2>14 DEF KeepInv
<1>4. QED
  BY <1>2, <1>3

\* The row that goes has no sha: nobody's twin, and never acknowledged.
LEMMA PurgeRowKeep ==
    ASSUME UploadInv, KeepInv, NEW c \in Request, PurgeRow(c)
    PROVE  KeepInv'
<1>1. why[c] = "duplicate" /\ arg[c] \in Photo /\ arg[c] # None
  BY UploadAssumption DEF UploadInv, TypeOK, RequestTypes, LocalsKnown, PurgeRow
<1>2. sha[arg[c]] = None
  BY <1>1 DEF KeepInv, NotYetUploaded
<1>3. sha' = sha \/ sha' = [p \in Photo |-> IF p = arg[c] THEN None ELSE sha[p]]
  BY DEF PurgeRow, Withdrawn
<1>4. sha' = sha
  BY <1>2, <1>3 DEF UploadInv, TypeOK, StoredTypes
<1>5. UNCHANGED <<sent, staging, poolVars>> /\ Reply(c, "duplicate")
  BY DEF PurgeRow, blobVars
<1>6. \A p \in Photo : status'[p] \in {status[p], "purged"}
  BY DEF PurgeRow
<1>7. TakenIsUploaded'
  BY <1>4, <1>5, <1>6 DEF KeepInv, TakenIsUploaded, poolVars
<1>8. HasTwin(arg[c])
  BY <1>1 DEF KeepInv, TwinFound
<1>9. AnswersBacked'
  BY <1>1, <1>4, <1>5, <1>8, ReplyKeep DEF Answer
<1>10. QED
  BY <1>4, <1>5, <1>7, <1>9, LeaveKeep DEF Reply

\* HandOver and Abandon, which may leave the photo to the pool.
LEMMA PoolKeep ==
    ASSUME UploadInv, KeepInv, NEW c \in Request, HandOver(c) \/ Abandon(c)
    PROVE  KeepInv'
<1>1. UNCHANGED <<rowVars, sent, staging, working>>
  BY DEF HandOver, Abandon, Enqueue, sessionVars, blobVars, poolVars
<1>2. arg[c] \in Photo /\ arg[c] # None
  BY UploadAssumption DEF UploadInv, TypeOK, RequestTypes, HandOver, Abandon
<1>3. pc[c] \in {"close", "enqueue"} => sha[arg[c]] # None
  BY DEF KeepInv, SeenIsUploaded
<1>4. \A p \in queued' : p \in queued \/ sha[p] # None
  BY <1>3 DEF HandOver, Abandon, Enqueue, Pooled, poolVars
<1>5. TakenIsUploaded'
  BY <1>1, <1>4, SameTaken DEF rowVars
<1>6. AnswersBacked'
  <2>1. CASE HandOver(c) /\ Reply(c, "ok")
    BY <1>1, <1>2, <1>3, <2>1, ReplyKeep DEF HandOver, Answer, rowVars
  <2>2. CASE UNCHANGED answers
    BY <1>1, <2>2 DEF KeepInv, AnswersBacked, HasTwin, rowVars
  <2>3. QED
    BY <2>1, <2>2 DEF HandOver, Abandon, ReplyRetry
<1>7. QED
  BY <1>1, <1>5, <1>6, LeaveKeep DEF HandOver, Abandon, Reply, ReplyRetry,
     rowVars

\* A browser PUTs once: nothing was read back of the photo before.
LEMMA PutKeep ==
    ASSUME UploadInv, KeepInv, NEW p \in Photo, Put(p)
    PROVE  KeepInv'
<1>1. PICK o \in MayPut[p] : /\ sent' = [sent EXCEPT ![p] = o]
                             /\ staging' = [staging EXCEPT ![p] = o]
  BY DEF Put
<1>2. UNCHANGED <<sha, status, poolVars, pc, arg, localVars, answers>>
  BY DEF Put, rowVars
<1>3. sent[p] = None /\ o # None
  BY <1>1, UploadAssumption DEF Put
<1>4. /\ sent'[p] = o /\ staging'[p] = o
      /\ \A q \in Photo \ {p} : sent'[q] = sent[q] /\ staging'[q] = staging[q]
  BY <1>1 DEF UploadInv, TypeOK, StoredTypes
<1>5. \A c \in Request :
        pc[c] \in {"dup", "orig", "copy", "unstage", "set"} =>
          got[c] # None /\ arg[c] \in Photo \ {p}
  BY <1>3, UploadAssumption DEF UploadInv, TypeOK, RequestTypes, LocalsKnown,
     KeepInv, GotIsSent
<1>6. sha[p] = None /\ ~HasTwin(p)
  BY <1>3 DEF KeepInv, ShaIsSent, HasTwin
<1>7. \A q \in Photo \ {p} : HasTwin(q)' = HasTwin(q)
  BY <1>2, <1>4 DEF HasTwin
<1>8. OneRequest' /\ NotYetUploaded' /\ SeenIsUploaded' /\ TakenIsUploaded'
  BY <1>2 DEF KeepInv, OneRequest, NotYetUploaded, SeenIsUploaded,
     TakenIsUploaded, localVars, poolVars
<1>9. GotIsSent'
  BY <1>2, <1>4, <1>5 DEF KeepInv, GotIsSent, localVars
<1>10. ShaIsSent'
  BY <1>2, <1>4, <1>5, <1>6 DEF KeepInv, ShaIsSent
<1>11. AnswersBacked'
  BY <1>2, <1>6, <1>7 DEF KeepInv, AnswersBacked
<1>12. TwinFound'
  <2> SUFFICES ASSUME NEW c \in Request, why[c] = "duplicate"
               PROVE  pc[c] \in {"end", "drop", "purge"} /\ HasTwin(arg[c])'
    BY <1>2 DEF TwinFound, HasTwin, localVars
  <2>1. pc[c] \in {"end", "drop", "purge"} /\ HasTwin(arg[c])
    BY DEF KeepInv, TwinFound
  <2>2. arg[c] \in Photo \ {p}
    BY <1>6, <2>1 DEF UploadInv, TypeOK, RequestTypes
  <2>3. QED
    BY <1>2, <1>7, <2>1, <2>2 DEF HasTwin
<1>13. QED
  BY <1>8, <1>9, <1>10, <1>11, <1>12 DEF KeepInv

\* The passing of time, a delete, and the pool.
LEMMA OtherKeep ==
    ASSUME UploadInv, KeepInv, NEW p \in Photo,
           Expire(p) \/ Hide(p) \/ Claim(p) \/ Settle(p)
    PROVE  KeepInv'
<1>1. UNCHANGED <<pc, arg, localVars, sha, sent, staging, answers>>
  BY DEF Expire, Hide, Claim, Settle, MarkPhotoFailed, rowVars, sessionVars,
     blobVars
<1>2. CASE Expire(p) \/ Hide(p)
  <2>1. UNCHANGED <<status, poolVars>>
    BY <1>2 DEF Expire, Hide, rowVars
  <2>2. QED
    BY <1>1, <2>1, SameTaken, QuietKeep DEF poolVars
<1>3. CASE Claim(p) \/ Settle(p)
  <2>1. sha[p] # None
    BY <1>3 DEF KeepInv, TakenIsUploaded, Claim, Settle,
       Take, Skip, Finish
  <2>2. /\ \A q \in Photo \ {p} : status'[q] = status[q]
        /\ queued' \subseteq queued
        /\ working' \subseteq working \cup {p}
    BY <1>3 DEF UploadInv, TypeOK, StoredTypes, Claim, Settle,
       Take, Skip, Finish,
       MarkPhotoFailed, rowVars
  <2>3. TakenIsUploaded'
    BY <1>1, <2>1, <2>2 DEF KeepInv, TakenIsUploaded
  <2>4. QED
    BY <1>1, <2>3, QuietKeep
<1>4. QED
  BY <1>2, <1>3

LEMMA ReapKeep ==
    ASSUME UploadInv, KeepInv, Reap
    PROVE  KeepInv'
<1>1. UNCHANGED <<pc, arg, localVars, sha, sent, poolVars, answers>>
  BY DEF Reap, ReapScan, ReapSession, ReapRow, ReapObject, MarkPhotoFailed,
     SetSessionState, rowVars, sessionVars
<1>2. \A p \in Photo : staging'[p] \in {staging[p], None}
  BY DEF UploadInv, TypeOK, StoredTypes, Reap, ReapScan, ReapSession, ReapRow,
     ReapObject, DropStaging, blobVars
<1>3. TakenIsUploaded'
  <2>1. CASE ReapRow
    <3>1. /\ reaping \in Photo
          /\ MarkPhotoFailed(reaping, "incomplete") \/ UNCHANGED rowVars
      BY <2>1 DEF UploadInv, TypeOK, StoredTypes, ReapRow
    <3>2. QED
      BY <1>1, <3>1, FailedTaken, SameTaken DEF rowVars, poolVars
  <2>2. CASE status' = status
    BY <1>1, <2>2, SameTaken DEF poolVars
  <2>3. QED
    BY <2>1, <2>2 DEF Reap, ReapScan, ReapSession, ReapObject, rowVars
<1>4. QED
  BY <1>1, <1>2, <1>3, QuietKeep

\* A recovery scan, which queues only what has a sha, and no step at all.
LEMMA RescanKeep ==
    ASSUME KeepInv, Rescan \/ UNCHANGED vars
    PROVE  KeepInv'
<1>1. UNCHANGED <<pc, arg, localVars, rowVars, sent, staging, answers>>
  BY DEF Rescan, vars, sessionVars, blobVars
<1>2. working' = working /\ \A p \in queued' : p \in queued \/ sha[p] # None
  BY DEF Rescan, Enqueue, Pooled, Stuck, vars, poolVars
<1>3. TakenIsUploaded'
  BY <1>1, <1>2, SameTaken DEF rowVars
<1>4. QED
  BY <1>1, <1>3, QuietKeep DEF rowVars

LEMMA CrashKeep ==
    ASSUME KeepInv, Crash
    PROVE  KeepInv'
<1>1. OneRequest' /\ GotIsSent' /\ NotYetUploaded' /\ SeenIsUploaded'
  BY DEF OneRequest, GotIsSent, NotYetUploaded, SeenIsUploaded, Crash, Unread
<1>2. ShaIsSent' /\ TakenIsUploaded'
  BY DEF KeepInv, ShaIsSent, TakenIsUploaded, Crash, Lose, rowVars, sessionVars,
     blobVars
<1>3. AnswersBacked' /\ TwinFound'
  BY DEF KeepInv, AnswersBacked, TwinFound, HasTwin, Crash, rowVars,
     sessionVars
<1>4. QED
  BY <1>1, <1>2, <1>3 DEF KeepInv

LEMMA KeepStep ==
    ASSUME ~Overlapping, UploadInv, KeepInv, [Next]_vars
    PROVE  KeepInv'
<1>1. ASSUME NEW c \in Request,
             \/ Presign(c)
             \/ OpenSession(c)
             \/ \E p \in Photo : Confirm(c, p)
             \/ ConfirmStep(c)
             \/ Abandon(c)
      PROVE  KeepInv'
  BY <1>1, StartKeep, ReadingKeep, SessionKeep, ObjectKeep, FailRowKeep,
     SetUploadedKeep, PurgeRowKeep, PoolKeep DEF ConfirmStep, Reading
<1>2. ASSUME NEW p \in Photo,
             Put(p) \/ Expire(p) \/ Hide(p) \/ Claim(p) \/ Settle(p)
      PROVE  KeepInv'
  BY <1>2, PutKeep, OtherKeep
<1>3. CASE Reap \/ Rescan \/ UNCHANGED vars
  BY <1>3, ReapKeep, RescanKeep
<1>4. CASE Crash
  BY <1>4, CrashKeep
<1>5. QED
  BY <1>1, <1>2, <1>3, <1>4 DEF Next

\* With one confirm of a photo at a time, the rest of the invariant.
THEOREM UploadKeepInvariant ==
    ASSUME ~Overlapping
    PROVE  Spec => [](UploadInv /\ KeepInv)
<1>1. Init => UploadInv /\ KeepInv
  BY InitUploadInv, InitKeepInv
<1>2. UploadInv /\ KeepInv /\ [Next]_vars => (UploadInv /\ KeepInv)'
  BY UploadStepInv, KeepStep
<1>3. QED
  BY <1>1, <1>2, PTL DEF Spec

\* "No photo is ever lost" (design document, line 13): an upload confirmed
\* with success stays in the database, as what the browser sent, through any
\* crash, failing call, delete, reaping and later confirm, and no duplicate
\* purges it.
THEOREM UploadConfirmedIsKept ==
    ASSUME ~Overlapping
    PROVE  Spec => []ConfirmedIsKept
<1>1. UploadInv /\ KeepInv => ConfirmedIsKept
  BY DEF UploadInv, KeepInv, AbsentIsBlank, ShaIsSent, AnswersBacked,
     ConfirmedIsKept, Exists
<1>2. QED
  BY <1>1, UploadKeepInvariant, PTL

\* README, note 11: what is thrown away as a duplicate has a twin in its node,
\* with its original.
THEOREM UploadDuplicateHasTwin ==
    ASSUME ~Overlapping
    PROVE  Spec => []DuplicateHasTwin
<1>1. ASSUME UploadInv, KeepInv, NEW p \in Photo, "duplicate" \in answers[p]
      PROVE  /\ sent[p] \in origs
             /\ \E q \in Photo : /\ Exists(q)
                                /\ NodeOf[q] = NodeOf[p]
                                /\ sha[q] = sent[p]
  <2>1. PICK q \in Photo : NodeOf[q] = NodeOf[p] /\ sha[q] # None
                           /\ sha[q] = sent[p]
    BY <1>1 DEF KeepInv, AnswersBacked, HasTwin
  <2>2. Exists(q)
    BY <1>1, <2>1 DEF UploadInv, AbsentIsBlank, Exists
  <2>3. QED
    BY <1>1, <2>1, <2>2 DEF UploadInv, UploadedHasOriginal
<1>2. UploadInv /\ KeepInv => DuplicateHasTwin
  BY <1>1 DEF DuplicateHasTwin
<1>3. QED
  BY <1>2, UploadKeepInvariant, PTL

-----------------------------------------------------------------------------
(* Without mishaps, and while the session runs, a verdict stands *)

\* Where a request c that has found the session open stands with it: no answer
\* has been given yet, and a rejection is in the row before it is answered.
UnderWay(c) ==
    LET p == arg[c] IN
    /\ pc[c] = "open" => answers[p] = {} /\ Exists(p)
    /\ pc[c] \in {"stat", "read", "dup", "orig", "copy", "unstage", "set",
                  "close", "end"} => session[p] = "issued"
    /\ pc[c] \in {"enqueue", "fail", "drop", "purge"} => session[p] # "issued"
    /\ why[c] \in Rejection =>
         /\ pc[c] \in {"end", "fail", "drop"}
         /\ answers[p] = {} /\ Exists(p) /\ sha[p] = None
         /\ pc[c] = "drop" => status[p] = "failed" /\ reason[p] = why[c]
    /\ pc[c] = "session" /\ seen[c][2] \in Rejection =>
         answers[p] \cap Rejection # {}

\* Photo p has been rejected as v, and whoever asks again will read so.
RejectedAs(p, v) ==
    /\ answers[p] = {v}
    /\ status[p] = "failed" /\ reason[p] = v /\ sha[p] = None
    /\ session[p] # "issued"
    /\ \A c \in Request :
         arg[c] = p => \/ pc[c] = "row"
                       \/ pc[c] = "session" /\ seen[c] = <<"failed", v>>

VerdictAt(p) ==
    /\ status[p] = "absent" => answers[p] = {}
    /\ session[p] = "issued" => answers[p] = {} /\ Exists(p)
    /\ \A c \in Request : arg[c] = p => UnderWay(c)
    /\ answers[p] \cap Rejection # {} => \E v \in Rejection : RejectedAs(p, v)
    /\ reason[p] \in Rejection =>
         \/ answers[p] \cap Rejection # {}
         \/ \E c \in Request :
              arg[c] = p /\ pc[c] = "drop" /\ why[c] = reason[p]

\* The reaper is about sessions that have run out.
ReapsLate == listed \subseteq late /\ (reaping # None => reaping \in late)

VerdictInv ==
    mishaps = 0 => ReapsLate /\ \A p \in Photo \ late : VerdictAt(p)

LEMMA InitVerdict == Init => VerdictInv
  BY DEF Init, VerdictInv, ReapsLate, VerdictAt, UnderWay, RejectedAs,
     Rejection

\* What others do leaves the verdict on p alone: a row without a sha is
\* nothing to the pool.
LEMMA OthersVerdict ==
    ASSUME NEW p \in Photo, VerdictAt(p),
           \A c \in Request : arg[c] = p \/ arg'[c] = p =>
               /\ arg'[c] = arg[c] /\ pc'[c] = pc[c]
               /\ seen'[c] = seen[c] /\ why'[c] = why[c],
           answers'[p] = answers[p], session'[p] = session[p],
           sha'[p] = sha[p], Exists(p)' = Exists(p),
           status'[p] = "absent" => status[p] = "absent",
           sha[p] = None => status'[p] = status[p] /\ reason'[p] = reason[p],
           reason'[p] = reason[p] \/ reason'[p] \notin Rejection
    PROVE  VerdictAt(p)'
<1>1. \A c \in Request : arg'[c] = p => arg[c] = p
  OBVIOUS
<1>2. ASSUME NEW c \in Request, arg'[c] = p PROVE UnderWay(c)'
  BY <1>1, <1>2 DEF VerdictAt, UnderWay
<1>3. ASSUME NEW v \in Rejection, RejectedAs(p, v) PROVE RejectedAs(p, v)'
  BY <1>1, <1>3 DEF RejectedAs
<1>4. QED
  BY <1>2, <1>3 DEF VerdictAt

\* The verdict on the photo of a request, from where the request stands next.
LEMMA OwnVerdict ==
    ASSUME NEW p \in Photo, NEW c \in Request,
           \A d \in Request : arg'[d] = p => d = c,
           status'[p] = "absent" => answers'[p] = {},
           session'[p] = "issued" => answers'[p] = {} /\ Exists(p)',
           arg'[c] = p => UnderWay(c)',
           reason'[p] \in Rejection =>
               \/ answers'[p] \cap Rejection # {}
               \/ arg'[c] = p /\ pc'[c] = "drop" /\ why'[c] = reason'[p],
           answers'[p] \cap Rejection # {} =>
               \E v \in Rejection :
                 /\ answers'[p] = {v}
                 /\ status'[p] = "failed" /\ reason'[p] = v
                 /\ sha'[p] = None /\ session'[p] # "issued"
                 /\ arg'[c] = p =>
                      \/ pc'[c] = "row"
                      \/ pc'[c] = "session" /\ seen'[c] = <<"failed", v>>
    PROVE  VerdictAt(p)'
  BY DEF VerdictAt, RejectedAs

\* A step of request c writes to no photo but its own.
LEMMA ElseAlone ==
    ASSUME UploadInv, NEW c \in Request,
           \/ Presign(c)
           \/ OpenSession(c)
           \/ \E p \in Photo : Confirm(c, p)
           \/ ConfirmStep(c),
           NEW q \in Photo, q # arg[c], q # arg'[c], VerdictAt(q)
    PROVE  VerdictAt(q)'
<1> DEFINE Same(d) == /\ arg'[d] = arg[d] /\ pc'[d] = pc[d]
                      /\ seen'[d] = seen[d] /\ why'[d] = why[d]
<1>1. \A d \in Request \ {c} : Same(d)
  <2>1. RequestTypes
    BY DEF UploadInv, TypeOK
  <2>2. ASSUME Leave(c) PROVE \A d \in Request \ {c} : Same(d)
    BY <2>1, <2>2 DEF RequestTypes, Leave
  <2>3. ASSUME NEW a, GiveUp(c, a) PROVE \A d \in Request \ {c} : Same(d)
    BY <2>1, <2>3 DEF RequestTypes, GiveUp, Goto
  <2>4. ASSUME NEW s, Goto(c, s), UNCHANGED localVars
        PROVE  \A d \in Request \ {c} : Same(d)
    BY <2>1, <2>4 DEF RequestTypes, Goto, localVars
  <2> HIDE DEF Same
  <2>5. CASE OpenSession(c) \/ HandOver(c) \/ PurgeRow(c)
    BY <2>2, <2>5 DEF OpenSession, HandOver, PurgeRow, Reply, ReplyRetry
  <2>6. CASE StatStaging(c)
    BY <2>2, <2>3, <2>4, <2>6 DEF StatStaging, ReplyRetry
  <2>7. CASE FindDuplicate(c)
    BY <2>3, <2>4, <2>7 DEF FindDuplicate
  <2>8. CASE StatOrig(c) \/ Unstage(c) \/ CloseSession(c) \/ EndSession(c) \/
             FailRow(c)
    BY <2>4, <2>8 DEF StatOrig, Unstage, CloseSession, EndSession, FailRow
  <2>9. CASE CopyStaging(c) \/ SetUploaded(c) \/ DropObject(c)
    BY <2>2, <2>4, <2>9
       DEF CopyStaging, SetUploaded, DropObject, ReplyRetry, Reply
  <2>10. CASE ReadRow(c)
    BY <2>1, <2>2, <2>10 DEF RequestTypes, ReadRow, Goto, ReplyRetry, Same
  <2>11. CASE ReadSession(c)
    BY <2>1, <2>2, <2>3, <2>11
       DEF RequestTypes, ReadSession, Goto, Reply, Same
  <2>12. CASE ReadStaging(c)
    BY <2>1, <2>2, <2>3, <2>12
       DEF RequestTypes, ReadStaging, Goto, ReplyRetry, Same
  <2>13. CASE Presign(c) \/ (\E p \in Photo : Confirm(c, p))
    BY <2>1, <2>13 DEF RequestTypes, Presign, Confirm, Same, localVars
  <2>14. QED
    BY <2>5, <2>6, <2>7, <2>8, <2>9, <2>10, <2>11, <2>12, <2>13
       DEF ConfirmStep
<1>2. answers' = answers \/ \E a : answers' = [answers EXCEPT ![arg[c]] = a]
  BY DEF Presign, OpenSession, Confirm, ConfirmStep, ReadRow, ReadSession,
     StatStaging, ReadStaging, FindDuplicate, StatOrig, CopyStaging, Unstage,
     SetUploaded, CloseSession, HandOver, EndSession, FailRow, DropObject,
     PurgeRow, GiveUp, Goto, Reply, ReplyRetry
<1>3. answers'[q] = answers[q]
  <2>1. CASE \E a : answers' = [answers EXCEPT ![arg[c]] = a]
    BY <2>1 DEF UploadInv, TypeOK, StoredTypes
  <2>2. QED
    BY <1>2, <2>1
<1>4. /\ session'[q] = session[q] /\ sha'[q] = sha[q]
      /\ status'[q] = status[q] /\ reason'[q] = reason[q]
  <2> DEFINE Row == /\ session'[q] = session[q] /\ sha'[q] = sha[q]
                    /\ status'[q] = status[q] /\ reason'[q] = reason[q]
  <2>1. StoredTypes /\ RequestTypes
    BY DEF UploadInv, TypeOK
  <2>2. CASE Presign(c)
    BY <2>1, <2>2
       DEF StoredTypes, RequestTypes, Presign, sessionVars
  <2>3. CASE OpenSession(c) \/ CloseSession(c) \/ EndSession(c)
    BY <2>1, <2>3 DEF StoredTypes, OpenSession, CloseSession, EndSession,
       SetSessionState, rowVars, sessionVars
  <2>4. CASE SetUploaded(c) \/ FailRow(c)
    BY <2>1, <2>4 DEF StoredTypes, SetUploaded, FailRow, MarkPhotoFailed,
       rowVars, sessionVars
  <2>5. CASE PurgeRow(c)
    BY <2>1, <2>5 DEF StoredTypes, PurgeRow, Withdrawn
  <2>6. CASE \/ \E p \in Photo : Confirm(c, p)
             \/ ReadRow(c) \/ ReadSession(c) \/ StatStaging(c)
             \/ ReadStaging(c) \/ FindDuplicate(c) \/ StatOrig(c)
             \/ CopyStaging(c) \/ Unstage(c) \/ HandOver(c) \/ DropObject(c)
    BY <2>6 DEF Confirm, ReadRow, ReadSession, StatStaging, ReadStaging,
       FindDuplicate, StatOrig, CopyStaging, Unstage, HandOver, DropObject,
       rowVars, sessionVars
  <2>7. QED
    BY <2>2, <2>3, <2>4, <2>5, <2>6 DEF ConfirmStep
<1>5. QED
  BY <1>1, <1>3, <1>4, OthersVerdict DEF Exists

\* A request begins.
LEMMA StartVerdict ==
    ASSUME UploadInv, KeepInv', NEW c \in Request, NEW p \in Photo,
           Presign(c) \/ (\E q \in Photo : Confirm(c, q)),
           p = arg'[c], VerdictAt(p)
    PROVE  VerdictAt(p)'
<1>1. \A d \in Request : arg'[d] = p => d = c
  BY UploadAssumption DEF KeepInv, OneRequest
<1>2. UNCHANGED <<session, answers, why, seen, sha, reason>>
  BY DEF Presign, Confirm, sessionVars, localVars, rowVars
<1>3. why[c] = "none" /\ arg[c] # p
  BY UploadAssumption DEF UploadInv, TypeOK, RequestTypes, LocalsKnown,
     Presign, Confirm
<1>4. reason[p] \in Rejection => answers[p] \cap Rejection # {}
  <2>1. \A d \in Request : arg[d] = p => arg'[d] = p
    BY <1>3 DEF UploadInv, TypeOK, RequestTypes, Presign, Confirm
  <2>2. QED
    BY <1>1, <1>3, <2>1 DEF VerdictAt
<1>5. CASE Presign(c)
  <2>1. /\ status[p] = "absent" /\ session[p] = "none"
        /\ status'[p] = "pending" /\ pc'[c] = "open"
    BY <1>5 DEF UploadInv, TypeOK, StoredTypes, RequestTypes, AbsentIsBlank,
       Presign
  <2>2. answers[p] = {}
    BY <2>1 DEF VerdictAt
  <2>3. UnderWay(c)'
    BY <1>2, <1>3, <2>1, <2>2 DEF UnderWay, Rejection, Exists
  <2>4. QED
    BY <1>1, <1>2, <1>4, <2>1, <2>2, <2>3, OwnVerdict
<1>6. CASE \E q \in Photo : Confirm(c, q)
  <2>1. status' = status /\ pc'[c] = "row"
    BY <1>6 DEF UploadInv, TypeOK, RequestTypes, Confirm, rowVars
  <2>2. UnderWay(c)'
    BY <1>2, <1>3, <2>1 DEF UnderWay, Rejection
  <2>3. ASSUME answers[p] \cap Rejection # {}
        PROVE  \E v \in Rejection : RejectedAs(p, v)
    BY <2>3 DEF VerdictAt
  <2>4. QED
    BY <1>1, <1>2, <1>4, <2>1, <2>2, <2>3, OwnVerdict
       DEF VerdictAt, RejectedAs, Exists
<1>7. QED
  BY <1>5, <1>6

\* A request ends with no answer, or goes on.
LEMMA SilentVerdict ==
    ASSUME UploadInv, KeepInv, NEW c \in Request, NEW p \in Photo,
           p = arg[c], pc[c] # "drop", VerdictAt(p),
           UNCHANGED <<answers, rowVars, session>>,
           Leave(c) \/ arg' = arg,
           arg'[c] = p => UnderWay(c)',
           answers[p] \cap Rejection # {} =>
               \/ Leave(c)
               \/ pc'[c] = "session" /\
                  seen'[c] = <<status[p], reason[p]>>
    PROVE  VerdictAt(p)'
<1>1. \A d \in Request : arg'[d] = p => d = c
  BY UploadAssumption
     DEF UploadInv, TypeOK, RequestTypes, KeepInv, OneRequest, Leave
<1>2. Leave(c) => arg'[c] = None /\ arg'[c] # p
  BY UploadAssumption DEF UploadInv, TypeOK, RequestTypes, Leave
<1>3. ASSUME answers[p] \cap Rejection # {}
      PROVE  \E v \in Rejection : RejectedAs(p, v)
  BY <1>3 DEF VerdictAt
<1>4. reason[p] \in Rejection => answers[p] \cap Rejection # {}
  BY DEF VerdictAt, KeepInv, OneRequest, UploadInv, TypeOK, RequestTypes
<1>5. QED
  BY <1>1, <1>2, <1>3, <1>4, OwnVerdict
     DEF VerdictAt, RejectedAs, Exists, rowVars

\* The calls that only read find out, or pass on, what stands.
LEMMA ReadingVerdict ==
    ASSUME UploadInv, KeepInv, NEW c \in Request, NEW p \in Photo,
           p = arg[c], p \notin late, VerdictAt(p),
           StatStaging(c) \/ ReadStaging(c) \/ FindDuplicate(c) \/ StatOrig(c)
    PROVE  VerdictAt(p)'
<1>1. /\ UNCHANGED <<answers, rowVars, session>> /\ RequestTypes
      /\ pc[c] # "drop"
  BY DEF UploadInv, TypeOK, StatStaging, ReadStaging, FindDuplicate, StatOrig,
     GiveUp, Goto, ReplyRetry, sessionVars
<1>2. UnderWay(c)
  BY DEF VerdictAt
<1>3. session[p] = "issued" /\ answers[p] = {} /\ Exists(p)
  BY <1>2 DEF VerdictAt, UnderWay, StatStaging, ReadStaging, FindDuplicate,
     StatOrig
<1>4. why[c] \notin Rejection
  BY <1>2 DEF UnderWay, Rejection, StatStaging, ReadStaging, FindDuplicate,
     StatOrig
<1>5. CASE Leave(c)
  BY <1>1, <1>3, <1>5, SilentVerdict, UploadAssumption
     DEF RequestTypes, Leave
<1>6. ASSUME NEW s \in {"read", "dup", "orig", "copy", "unstage"},
             Goto(c, s), UNCHANGED why
      PROVE  VerdictAt(p)'
  <2>1. arg' = arg /\ pc'[c] = s
    BY <1>1, <1>6 DEF Goto, RequestTypes
  <2>2. UnderWay(c)'
    BY <1>1, <1>3, <1>4, <1>6, <2>1 DEF UnderWay, rowVars, Exists
  <2>3. QED
    BY <1>1, <1>3, <2>1, <2>2, SilentVerdict
<1>7. ASSUME NEW a \in Rejection \cup {"duplicate"}, GiveUp(c, a),
             a \in Rejection => sha[p] = None
      PROVE  VerdictAt(p)'
  <2>1. arg' = arg /\ pc'[c] = "end" /\ why'[c] = a
    BY <1>1, <1>7 DEF GiveUp, Goto, RequestTypes
  <2>2. UnderWay(c)'
    BY <1>1, <1>3, <1>7, <2>1 DEF UnderWay, rowVars, Exists
  <2>3. QED
    BY <1>1, <1>3, <2>1, <2>2, SilentVerdict
<1>8. CASE StatStaging(c) /\ ~Leave(c)
  <2>1. staging[p] # None => sha[p] = None
    BY DEF KeepInv, ShaIsSent
  <2>2. QED
    BY <1>6, <1>7, <1>8, <2>1, UploadAssumption
       DEF StatStaging, Rejection, ReplyRetry, localVars
<1>9. CASE ReadStaging(c) /\ ~Leave(c)
  <2>1. sha[p] = None
    BY <1>9 DEF KeepInv, NotYetUploaded, ReadStaging
  <2>2. QED
    BY <1>6, <1>7, <1>9, <2>1 DEF ReadStaging, Rejection, ReplyRetry
<1>10. CASE FindDuplicate(c)
  BY <1>6, <1>7, <1>10 DEF FindDuplicate, localVars, Rejection
<1>11. CASE StatOrig(c)
  BY <1>6, <1>11 DEF StatOrig, localVars
<1>12. QED
  BY <1>5, <1>8, <1>9, <1>10, <1>11

\* A photo is asked for again.
LEMMA AskedVerdict ==
    ASSUME UploadInv, KeepInv, NEW c \in Request, NEW p \in Photo,
           p = arg[c], p \notin late, VerdictAt(p),
           ReadRow(c) \/ ReadSession(c)
    PROVE  VerdictAt(p)'
<1>1. /\ UNCHANGED <<rowVars, session>> /\ RequestTypes
      /\ pc[c] # "drop"
  BY DEF UploadInv, TypeOK, ReadRow, ReadSession, sessionVars
<1>2. UnderWay(c)
  BY DEF VerdictAt
<1>3. why[c] \notin Rejection
  BY <1>2 DEF UnderWay, Rejection, ReadRow, ReadSession
<1>4. CASE Leave(c) /\ answers' = answers
  BY <1>1, <1>4, SilentVerdict, UploadAssumption DEF RequestTypes, Leave
<1>5. CASE ReadRow(c) /\ ~Leave(c)
  <2>1. /\ arg' = arg /\ pc'[c] = "session" /\ why' = why
        /\ answers' = answers /\ seen'[c] = <<status[p], reason[p]>>
    BY <1>1, <1>5 DEF ReadRow, Goto, ReplyRetry, RequestTypes
  <2>2. reason[p] \in Rejection => answers[p] \cap Rejection # {}
    <3>1. \A d \in Request : arg[d] = p => pc[d] = "row"
      BY <1>1, <1>5, UploadAssumption
         DEF RequestTypes, KeepInv, OneRequest, ReadRow
    <3>2. QED
      BY <3>1 DEF VerdictAt
  <2>3. UnderWay(c)'
    BY <1>1, <1>3, <2>1, <2>2 DEF UnderWay, rowVars
  <2>4. QED
    BY <1>1, <2>1, <2>3, SilentVerdict
<1>6. CASE ReadSession(c) /\ session[p] = "issued"
  <2>1. /\ arg' = arg /\ pc'[c] = "stat" /\ why' = why /\ answers' = answers
    BY <1>1, <1>6 DEF ReadSession, Goto, RequestTypes
  <2>2. UnderWay(c)'
    BY <1>1, <1>3, <1>6, <2>1 DEF UnderWay
  <2>3. answers[p] = {}
    BY <1>6 DEF VerdictAt
  <2>4. QED
    BY <1>1, <2>1, <2>2, <2>3, SilentVerdict
<1>7. CASE ReadSession(c) /\ session[p] # "issued"
  <2> DEFINE a == Standing(seen[c])
  <2>1. Leave(c) /\ answers' = [answers EXCEPT ![p] = @ \cup {a}]
    BY <1>7 DEF ReadSession, Reply
  <2>2. answers'[p] = answers[p] \cup {a}
    BY <2>1 DEF UploadInv, TypeOK, StoredTypes
  <2>3. \A d \in Request : arg'[d] # p
    BY <1>1, <2>1, UploadAssumption
       DEF RequestTypes, KeepInv, OneRequest, Leave
  <2>4. status[p] # "absent"
    BY DEF UploadInv, AbsentIsBlank
  <2>5. ASSUME answers[p] \cap Rejection # {}
        PROVE  \E v \in Rejection : /\ answers'[p] = {v}
                                    /\ status[p] = "failed" /\ reason[p] = v
                                    /\ sha[p] = None
    <3>1. PICK v \in Rejection : RejectedAs(p, v)
      BY <2>5 DEF VerdictAt
    <3>2. seen[c] = <<"failed", v>>
      BY <1>7, <3>1 DEF RejectedAs, ReadSession
    <3>3. a = v
      BY <3>2 DEF Standing, VerdictOf, Rejection
    <3>4. QED
      BY <2>2, <3>1, <3>3 DEF RejectedAs
  <2>6. a \in Rejection \/ reason[p] \in Rejection =>
          answers[p] \cap Rejection # {}
    <3>1. a \in Rejection => seen[c][2] = a
      BY DEF Standing, VerdictOf, Rejection
    <3>2. \A d \in Request : arg[d] = p => pc[d] = "session"
      BY <1>1, <1>7, UploadAssumption
         DEF RequestTypes, KeepInv, OneRequest, ReadSession
    <3>3. QED
      BY <1>2, <1>7, <3>1, <3>2 DEF UnderWay, VerdictAt, ReadSession
  <2>7. /\ reason' = reason /\ status' = status /\ sha' = sha
        /\ session' = session
    BY <1>1 DEF rowVars
  <2>8. answers'[p] \cap Rejection # {} => answers[p] \cap Rejection # {}
    BY <2>2, <2>6
  <2>9. reason'[p] \in Rejection => answers'[p] \cap Rejection # {}
    BY <2>2, <2>6, <2>7
  <2>10. answers'[p] \cap Rejection # {} =>
           \E v \in Rejection : /\ answers'[p] = {v}
                                /\ status'[p] = "failed" /\ reason'[p] = v
                                /\ sha'[p] = None /\ session'[p] # "issued"
    BY <1>7, <2>5, <2>7, <2>8
  <2>11. status'[p] # "absent" /\ session'[p] # "issued"
    BY <1>7, <2>4, <2>7
  <2>12. QED
    BY <2>3, <2>9, <2>10, <2>11, OwnVerdict
<1>8. QED
  BY <1>4, <1>5, <1>6, <1>7 DEF ReadRow, ReplyRetry, Goto

\* A request writes, along its way to the pool.
LEMMA PromoteVerdict ==
    ASSUME UploadInv, KeepInv, NEW c \in Request, NEW p \in Photo,
           p = arg[c], VerdictAt(p), p \notin late, ~Mishap,
           \/ OpenSession(c) \/ CopyStaging(c) \/ Unstage(c)
           \/ SetUploaded(c) \/ CloseSession(c) \/ HandOver(c)
    PROVE  VerdictAt(p)'
<1>1. StoredTypes /\ RequestTypes /\ UnderWay(c)
  BY DEF UploadInv, TypeOK, VerdictAt
<1>2. /\ \A d \in Request : arg[d] = p => d = c
      /\ p # None
  BY UploadAssumption DEF KeepInv, OneRequest
<1>3. why[c] \notin Rejection
  BY <1>1 DEF UnderWay, Rejection, OpenSession, CopyStaging, Unstage,
     SetUploaded, CloseSession, HandOver
<1>4. reason' = reason
  BY DEF OpenSession, CopyStaging, Unstage, SetUploaded, CloseSession,
     HandOver, rowVars
<1>5. CASE HandOver(c)
  <2>1. /\ Leave(c) /\ UNCHANGED <<rowVars, session>>
        /\ session[p] # "issued"
        /\ answers'[p] = answers[p] \/ answers'[p] = answers[p] \cup {"ok"}
    BY <1>1, <1>5 DEF HandOver, Reply, ReplyRetry, UnderWay, sessionVars,
       StoredTypes
  <2>2. \A d \in Request : arg'[d] # p
    BY <1>1, <1>2, <2>1 DEF RequestTypes, Leave
  <2>3. answers[p] \cap Rejection = {}
    BY <1>2, <1>5 DEF VerdictAt, RejectedAs, HandOver
  <2>4. reason[p] \notin Rejection
    BY <1>2, <1>5, <2>3 DEF VerdictAt, HandOver
  <2>5. answers'[p] \cap Rejection = {}
    BY <2>1, <2>3 DEF Rejection
  <2>6. status[p] # "absent"
    BY DEF UploadInv, AbsentIsBlank
  <2>7. status' = status /\ session' = session
    BY <2>1 DEF rowVars
  <2>8. QED
    BY <1>4, <2>1, <2>2, <2>4, <2>5, <2>6, <2>7, OwnVerdict
<1>6. CASE ~HandOver(c)
  <2>1. answers[p] = {} /\ answers' = answers /\ Exists(p)
    BY <1>1, <1>6 DEF VerdictAt, UnderWay, OpenSession, CopyStaging, Unstage,
       SetUploaded, CloseSession, Goto, ReplyRetry
  <2>2. Exists(p)'
    BY <1>1, <1>6, <2>1 DEF Exists, StoredTypes, OpenSession, CopyStaging,
       Unstage, SetUploaded, CloseSession, rowVars
  <2>3. reason[p] \notin Rejection
    BY <1>2, <1>6, <2>1 DEF VerdictAt, OpenSession, CopyStaging, Unstage,
       SetUploaded, CloseSession
  <2>4. arg' = arg \/ Leave(c)
    BY <1>6 DEF OpenSession, CopyStaging, Unstage, SetUploaded, CloseSession,
       Goto, ReplyRetry
  <2>5. \A d \in Request : arg'[d] = p => d = c
    BY <1>1, <1>2, <2>4 DEF RequestTypes, Leave
  <2>6. ASSUME arg'[c] = p PROVE UnderWay(c)'
    <3>1. ~Leave(c)
      BY <1>1, <1>2, <2>6 DEF RequestTypes, Leave
    <3>2. why'[c] \notin Rejection
      BY <1>3, <1>6, <3>1 DEF OpenSession, CopyStaging, Unstage, SetUploaded,
         CloseSession, Goto, ReplyRetry, localVars
    <3>3. CASE CloseSession(c)
      BY <1>1, <2>6, <3>2, <3>3 DEF CloseSession, Goto, SetSessionState,
         RequestTypes, StoredTypes, UnderWay
    <3>4. CASE CopyStaging(c) \/ Unstage(c) \/ SetUploaded(c)
      <4>1. session[p] = "issued" /\ session' = session
        BY <1>1, <3>4 DEF UnderWay, CopyStaging, Unstage, SetUploaded,
           sessionVars
      <4>2. pc'[c] \in {"unstage", "set", "close"}
        BY <1>1, <3>1, <3>4 DEF RequestTypes, CopyStaging, Unstage,
           SetUploaded, Goto, ReplyRetry
      <4>3. QED
        BY <2>6, <3>2, <4>1, <4>2 DEF UnderWay
    <3>5. QED
      BY <1>6, <3>1, <3>3, <3>4 DEF OpenSession, ReplyRetry
  <2>7. status'[p] # "absent" /\ answers'[p] = {}
    BY <2>1, <2>2 DEF Exists
  <2>8. QED
    BY <1>4, <2>2, <2>3, <2>5, <2>6, <2>7, OwnVerdict
<1>7. QED
  BY <1>5, <1>6

\* A request gives an upload up.
LEMMA GiveUpVerdict ==
    ASSUME UploadInv, KeepInv, NEW c \in Request, NEW p \in Photo,
           p = arg[c], VerdictAt(p), ~Mishap,
           EndSession(c) \/ FailRow(c) \/ DropObject(c) \/ PurgeRow(c)
    PROVE  VerdictAt(p)'
<1>1. StoredTypes /\ RequestTypes /\ UnderWay(c)
  BY DEF UploadInv, TypeOK, VerdictAt
<1>2. /\ \A d \in Request : arg[d] = p => d = c
      /\ p # None
  BY UploadAssumption DEF KeepInv, OneRequest
<1>3. answers[p] \cap Rejection = {}
  BY <1>2 DEF VerdictAt, RejectedAs, EndSession, FailRow, DropObject, PurgeRow
<1>4. status[p] # "absent"
  BY DEF UploadInv, AbsentIsBlank
<1>5. CASE EndSession(c)
  <2>1. /\ arg' = arg /\ pc'[c] \in {"drop", "fail"}
        /\ pc'[c] = "drop" => why[c] = "duplicate"
        /\ session'[p] # "issued" /\ why' = why /\ answers' = answers
        /\ UNCHANGED rowVars
    BY <1>1, <1>5 DEF EndSession, Goto, SetSessionState, StoredTypes,
       RequestTypes, localVars
  <2>2. reason[p] \notin Rejection
    BY <1>2, <1>3, <1>5 DEF VerdictAt, EndSession
  <2>3. UnderWay(c)'
    BY <1>1, <2>1 DEF UnderWay, Rejection, Exists, rowVars
  <2>4. \A d \in Request : arg'[d] = p => d = c
    BY <1>2, <2>1
  <2>5. status'[p] # "absent" /\ reason' = reason
    BY <1>4, <2>1 DEF rowVars
  <2>6. QED
    BY <1>3, <2>1, <2>2, <2>3, <2>4, <2>5, OwnVerdict
<1>6. CASE FailRow(c)
  <2>1. /\ arg' = arg /\ pc'[c] = "drop" /\ why' = why /\ answers' = answers
        /\ session' = session /\ sha' = sha
        /\ MarkPhotoFailed(p, ReasonOf(why[c]))
    BY <1>1, <1>6 DEF FailRow, Goto, RequestTypes, localVars, sessionVars,
       MarkPhotoFailed
  <2>2. Exists(p)' = Exists(p) /\ status'[p] # "absent"
    BY <1>1, <1>4, <2>1 DEF MarkPhotoFailed, StoredTypes, Exists
  <2>3. Exists(p) => status'[p] = "failed" /\ reason'[p] = ReasonOf(why[c])
    BY <1>1, <2>1 DEF MarkPhotoFailed, StoredTypes
  <2>4. session[p] # "issued"
    BY <1>1, <1>6 DEF UnderWay, FailRow
  <2>5. UnderWay(c)'
    BY <1>1, <1>6, <2>1, <2>2, <2>3, <2>4
       DEF UnderWay, Rejection, ReasonOf
  <2>6. \A d \in Request : arg'[d] = p => d = c
    BY <1>2, <2>1
  <2>7. reason'[p] \in Rejection => why'[c] = reason'[p]
    <3>1. CASE Exists(p)
      BY <1>1, <2>1, <2>3, <3>1 DEF Rejection, ReasonOf
    <3>2. CASE ~Exists(p)
      BY <1>2, <1>3, <1>6, <2>1, <3>2
         DEF MarkPhotoFailed, VerdictAt, FailRow
    <3>3. QED
      BY <3>1, <3>2
  <2>8. QED
    BY <1>3, <2>1, <2>2, <2>4, <2>5, <2>6, <2>7, OwnVerdict
<1>7. CASE DropObject(c) /\ why[c] = "duplicate"
  <2>1. /\ arg' = arg /\ pc'[c] = "purge" /\ why' = why /\ answers' = answers
        /\ UNCHANGED <<rowVars, session>>
    BY <1>1, <1>7 DEF DropObject, Goto, RequestTypes, localVars, sessionVars
  <2>2. session[p] # "issued"
    BY <1>1, <1>7 DEF UnderWay, DropObject
  <2>3. reason[p] \notin Rejection
    BY <1>2, <1>3, <1>7 DEF VerdictAt, Rejection
  <2>4. UnderWay(c)'
    BY <1>7, <2>1, <2>2 DEF UnderWay, Rejection
  <2>5. \A d \in Request : arg'[d] = p => d = c
    BY <1>2, <2>1
  <2>6. /\ status'[p] # "absent" /\ reason' = reason
        /\ session' = session
    BY <1>4, <2>1 DEF rowVars
  <2>7. QED
    BY <1>3, <2>1, <2>2, <2>3, <2>4, <2>5, <2>6, OwnVerdict
<1>8. CASE DropObject(c) /\ why[c] # "duplicate"
  <2>1. /\ Leave(c) /\ UNCHANGED <<rowVars, session>>
        /\ answers'[p] = answers[p] \cup {why[c]}
    BY <1>1, <1>8 DEF DropObject, Reply, StoredTypes, sessionVars
  <2>2. \A d \in Request : arg'[d] # p
    BY <1>1, <1>2, <2>1 DEF RequestTypes, Leave
  <2>3. session[p] # "issued"
    BY <1>1, <1>8 DEF UnderWay, DropObject
  <2>4. CASE why[c] \in Rejection
    <3>1. /\ answers[p] = {} /\ status[p] = "failed" /\ reason[p] = why[c]
          /\ sha[p] = None
      BY <1>1, <1>8, <2>4 DEF UnderWay, DropObject
    <3>2. QED
      BY <2>1, <2>2, <2>3, <2>4, <3>1, OwnVerdict DEF rowVars
  <2>5. CASE why[c] \notin Rejection
    <3>1. reason[p] \notin Rejection
      BY <1>2, <1>3, <2>5 DEF VerdictAt
    <3>2. /\ status'[p] # "absent" /\ reason' = reason
          /\ session' = session
      BY <1>4, <2>1 DEF rowVars
    <3>3. answers'[p] \cap Rejection = {}
      BY <1>3, <2>1, <2>5
    <3>4. QED
      BY <2>2, <2>3, <3>1, <3>2, <3>3, OwnVerdict
  <2>6. QED
    BY <2>4, <2>5
<1>9. CASE PurgeRow(c)
  <2>1. /\ Leave(c) /\ reason' = reason
        /\ answers'[p] = answers[p] \cup {"duplicate"}
        /\ status'[p] = "purged" /\ session'[p] = "none"
    BY <1>1, <1>9 DEF PurgeRow, Withdrawn, Reply, StoredTypes
  <2>2. \A d \in Request : arg'[d] # p
    BY <1>1, <1>2, <2>1 DEF RequestTypes, Leave
  <2>3. reason[p] \notin Rejection
    BY <1>2, <1>3, <1>9 DEF VerdictAt, PurgeRow
  <2>4. answers'[p] \cap Rejection = {}
    BY <1>3, <2>1 DEF Rejection
  <2>5. QED
    BY <2>1, <2>2, <2>3, <2>4, OwnVerdict
<1>10. QED
  BY <1>5, <1>6, <1>7, <1>8, <1>9

\* What goes on beside the requests: the browser, the pool, the reaper.
LEMMA BesideVerdict ==
    ASSUME UploadInv, KeepInv, ReapsLate, NEW p \in Photo, p \notin late',
           VerdictAt(p), ~Mishap,
           \/ \E q \in Photo : \/ Put(q) \/ Expire(q) \/ Hide(q)
                               \/ Claim(q) \/ Settle(q)
           \/ Reap \/ Rescan \/ Crash \/ UNCHANGED vars
           \/ \E c \in Request : Abandon(c)
    PROVE  VerdictAt(p)'
<1>1. StoredTypes
  BY DEF UploadInv, TypeOK
<1>2. /\ UNCHANGED <<pc, arg, seen, why, answers, sha>>
      /\ late \subseteq late'
  BY DEF Put, Expire, Hide, Claim, Settle, Reap, ReapScan, ReapSession,
     ReapRow, ReapObject, Rescan, Crash, Abandon, MarkPhotoFailed,
     SetSessionState, vars, localVars, rowVars, sessionVars
<1>3. /\ session'[p] = session[p]
      /\ sha[p] = None => status'[p] = status[p] /\ reason'[p] = reason[p]
      /\ reason'[p] = reason[p] \/ reason'[p] \notin Rejection
      /\ Exists(p)' = Exists(p)
      /\ status'[p] = "absent" => status[p] = "absent"
  <2>1. CASE \E q \in Photo : Put(q) \/ Expire(q) \/ Hide(q)
    BY <2>1 DEF Put, Expire, Hide, rowVars, Exists
  <2>2. ASSUME NEW q \in Photo, Claim(q) \/ Settle(q)
        PROVE  /\ session' = session
               /\ sha[q] # None
               /\ p # q => status'[p] = status[p] /\ reason'[p] = reason[p]
               /\ reason'[p] = reason[p] \/ reason'[p] \notin Rejection
               /\ Exists(p)' = Exists(p)
               /\ status'[p] = "absent" => status[p] = "absent"
    <3>1. sha[q] # None
      BY <2>2 DEF KeepInv, TakenIsUploaded, Claim, Settle,
         Take, Skip, Finish
    <3>2. Exists(q)
      BY <3>1 DEF UploadInv, AbsentIsBlank, Exists
    <3>3. QED
      BY <1>1, <2>2, <3>1, <3>2 DEF StoredTypes, Claim, Settle, Exists,
         MarkPhotoFailed, Rejection, rowVars, sessionVars
  <2>3. CASE Reap
    <3>1. p \notin listed /\ p # reaping
      BY <1>2, UploadAssumption DEF ReapsLate
    <3>2. CASE ReapSession
      BY <1>1, <3>1, <3>2 DEF StoredTypes, ReapSession, SetSessionState,
         rowVars, Exists
    <3>3. CASE ReapRow
      BY <1>1, <3>1, <3>3 DEF StoredTypes, ReapRow, MarkPhotoFailed,
         sessionVars, Exists
    <3>4. CASE ReapScan \/ ReapObject
      BY <3>4 DEF ReapScan, ReapObject, rowVars, sessionVars, Exists
    <3>5. QED
      BY <2>3, <3>2, <3>3, <3>4 DEF Reap
  <2>4. CASE Rescan \/ Crash \/ UNCHANGED vars \/ \E c \in Request : Abandon(c)
    BY <2>4 DEF Rescan, Crash, Abandon, vars, rowVars, sessionVars, Exists
  <2>5. QED
    BY <2>1, <2>2, <2>3, <2>4
<1>4. QED
  BY <1>2, <1>3, OthersVerdict

\* Nothing but a mishap is counted, sessions stay late, and only the reaper
\* or a crash touches the reaper's notes.
LEMMA Untouched ==
    ASSUME [Next]_vars
    PROVE  /\ mishaps' = mishaps \/ Mishap
           /\ late \subseteq late'
           /\ Reap \/ Mishap \/ UNCHANGED reapVars
<1> DEFINE Calm == /\ mishaps' = mishaps \/ Mishap
                   /\ late \subseteq late'
                   /\ Mishap \/ UNCHANGED reapVars
<1>1. ASSUME NEW c \in Request,
             \/ Presign(c) \/ OpenSession(c) \/ Abandon(c)
             \/ \E p \in Photo : Confirm(c, p)
      PROVE  Calm
  BY <1>1 DEF Presign, OpenSession, Abandon, Confirm, sessionVars
<1>2. ASSUME NEW c \in Request, ConfirmStep(c) PROVE Calm
  <2>1. CASE \/ CloseSession(c) \/ EndSession(c) \/ FailRow(c)
    BY <2>1 DEF CloseSession, EndSession, FailRow, SetSessionState,
       sessionVars
  <2>2. CASE \/ ReadRow(c) \/ ReadSession(c) \/ StatStaging(c)
             \/ ReadStaging(c) \/ FindDuplicate(c) \/ StatOrig(c)
    BY <2>2 DEF ReadRow, ReadSession, StatStaging, ReadStaging,
       FindDuplicate, StatOrig, sessionVars
  <2>3. CASE \/ CopyStaging(c) \/ Unstage(c) \/ SetUploaded(c)
             \/ HandOver(c) \/ DropObject(c) \/ PurgeRow(c)
    BY <2>3 DEF CopyStaging, Unstage, SetUploaded, HandOver, DropObject,
       PurgeRow, sessionVars
  <2>4. QED
    BY <1>2, <2>1, <2>2, <2>3 DEF ConfirmStep
<1>3. ASSUME NEW p \in Photo,
             Put(p) \/ Expire(p) \/ Hide(p) \/ Claim(p) \/ Settle(p)
      PROVE  Calm
  BY <1>3 DEF Put, Expire, Hide, Claim, Settle, sessionVars
<1>4. Reap => (mishaps' = mishaps \/ Mishap) /\ late \subseteq late'
  BY DEF Reap, ReapScan, ReapSession, ReapRow, ReapObject,
     SetSessionState, sessionVars
<1>5. CASE Rescan \/ Crash \/ UNCHANGED vars
  BY <1>5 DEF Rescan, Crash, vars, sessionVars, reapVars
<1>6. CASE ~Reap
  BY <1>1, <1>2, <1>3, <1>5, <1>6 DEF Next
<1>7. QED
  BY <1>4, <1>6

LEMMA VerdictStep ==
    ASSUME UploadInv, KeepInv, KeepInv', VerdictInv, [Next]_vars
    PROVE  VerdictInv'
<1> SUFFICES ASSUME mishaps' = 0
             PROVE  ReapsLate' /\ \A p \in Photo \ late' : VerdictAt(p)'
  BY DEF VerdictInv
<1>1. /\ mishaps = 0 /\ ~Mishap
      /\ late \subseteq late'
  <2>1. mishaps \in Nat
    BY DEF UploadInv, TypeOK, StoredTypes
  <2>2. ~Mishap
    BY <2>1 DEF Mishap
  <2>3. QED
    BY <2>2, Untouched
<1>2. ReapsLate /\ \A p \in Photo \ late : VerdictAt(p)
  BY <1>1 DEF VerdictInv
<1>3. ReapsLate'
  <2>1. CASE Reap
    BY <1>1, <1>2, <2>1, UploadAssumption DEF Reap, ReapScan, ReapSession,
       ReapRow, ReapObject, ReapsLate, Overdue, SetSessionState, sessionVars
  <2>2. CASE UNCHANGED reapVars
    BY <1>1, <1>2, <2>2 DEF ReapsLate, reapVars
  <2>3. QED
    BY <1>1, <2>1, <2>2, Untouched
<1>4. ASSUME NEW p \in Photo, p \notin late' PROVE VerdictAt(p)'
  <2>1. p \notin late /\ VerdictAt(p)
    BY <1>1, <1>2, <1>4
  <2>2. ASSUME NEW c \in Request,
               \/ Presign(c)
               \/ OpenSession(c)
               \/ \E q \in Photo : Confirm(c, q)
               \/ ConfirmStep(c)
        PROVE  VerdictAt(p)'
    <3>1. CASE p # arg[c] /\ p # arg'[c]
      BY <2>1, <2>2, <3>1, ElseAlone
    <3>2. CASE p = arg[c] /\ ~ Presign(c) /\ ~ \E q \in Photo : Confirm(c, q)
      BY <1>1, <2>1, <2>2, <3>2, ReadingVerdict, AskedVerdict, PromoteVerdict,
         GiveUpVerdict DEF ConfirmStep
    <3>3. CASE Presign(c) \/ \E q \in Photo : Confirm(c, q)
      <4>1. arg[c] # p
        BY <3>3, UploadAssumption
           DEF UploadInv, TypeOK, RequestTypes, Presign, Confirm
      <4>2. QED
        BY <2>1, <3>1, <3>3, <4>1, StartVerdict
    <3>4. CASE p = arg'[c] /\ p # arg[c]
      <4>1. CASE Presign(c) \/ \E q \in Photo : Confirm(c, q)
        BY <3>3, <4>1
      <4>2. CASE OpenSession(c) \/ ConfirmStep(c)
        <5>1. arg'[c] = arg[c] \/ arg'[c] = None
          BY <4>2 DEF UploadInv, TypeOK, RequestTypes, OpenSession,
             ConfirmStep, ReadRow, ReadSession, StatStaging, ReadStaging,
             FindDuplicate, StatOrig, CopyStaging, Unstage, SetUploaded,
             CloseSession, HandOver, EndSession, FailRow, DropObject,
             PurgeRow, GiveUp, Goto, Reply, ReplyRetry, Leave
        <5>2. QED
          BY <3>4, <5>1, UploadAssumption
      <4>3. QED
        BY <2>2, <4>1, <4>2
    <3>5. QED
      BY <2>2, <3>1, <3>2, <3>3, <3>4
  <2>3. QED
    BY <1>1, <1>2, <1>4, <2>1, <2>2, BesideVerdict DEF Next
<1>5. QED
  BY <1>3, <1>4

\* upload.go:36-44 and 234, for any number of photos, confirms and contents: an
\* upload that was rejected for its size, its read-back or its first bytes is
\* rejected again for the same reason, by all confirms that come before its
\* session runs out, as long as no call of the cleaning up fails.
THEOREM UploadSameVerdict ==
    ASSUME ~Overlapping
    PROVE  Spec => []SameVerdict
<1>1. Init => UploadInv /\ KeepInv /\ VerdictInv
  BY InitUploadInv, InitKeepInv, InitVerdict
<1>2. UploadInv /\ KeepInv /\ VerdictInv /\ [Next]_vars
        => (UploadInv /\ KeepInv /\ VerdictInv)'
  BY UploadStepInv, KeepStep, VerdictStep
<1>3. VerdictInv => SameVerdict
  <2> SUFFICES ASSUME VerdictInv, mishaps = 0, NEW p \in Photo \ late,
                      answers[p] \cap Rejection # {}
               PROVE  Cardinality(answers[p]) = 1
    BY DEF SameVerdict
  <2>1. \E v \in Rejection : answers[p] = {v}
    BY DEF VerdictInv, VerdictAt, RejectedAs
  <2>2. QED
    BY <2>1, FS_Singleton
<1>4. QED
  BY <1>1, <1>2, <1>3, PTL DEF Spec

-----------------------------------------------------------------------------
(* Whatever overlaps: what becomes of an acknowledged upload *)

\* The row has been given its sha, or has been purged.
Carried(p) == sha[p] # None \/ status[p] = "purged"

\* What a row and a staging object hold is what the browser sent, and a row
\* is purged with the answer "duplicate" only.
RowsAsSent ==
    \A p \in Photo :
        /\ sha[p] # None => sha[p] = sent[p]
        /\ staging[p] # None => staging[p] = sent[p]
        /\ p \in live => Exists(p)
        /\ status[p] = "purged" => "duplicate" \in answers[p]

\* What is in the pool, developed or acknowledged has been carried through,
TakenIsCarried ==
    \A p \in Photo :
        \/ p \in queued \cup working
        \/ status[p] \in {"processing", "ready"}
        \/ "ok" \in answers[p]
        => Carried(p)

\* and so has what a request has recorded, or has seen developed.
SeenIsCarried ==
    \A c \in Request :
        \/ pc[c] \in {"close", "enqueue"}
        \/ seen[c][1] \in {"processing", "ready"}
        => Carried(arg[c])

LossInv == RowsAsSent /\ GotIsSent /\ TakenIsCarried /\ SeenIsCarried

LEMMA InitLoss == Init => LossInv
  BY DEF Init, PoolInit, LossInv, RowsAsSent, GotIsSent, TakenIsCarried,
     SeenIsCarried, Unread

\* Rows that stay as they are.
LEMMA RowsStay ==
    ASSUME UploadInv, LossInv, UNCHANGED <<rowVars, sent>>,
           \A p \in Photo : /\ staging'[p] \in {staging[p], None}
                            /\ answers[p] \subseteq answers'[p]
    PROVE  RowsAsSent' /\ \A p \in Photo : Carried(p)' <=> Carried(p)
<1>1. \A p \in Photo : Carried(p)' <=> Carried(p)
  BY DEF Carried, rowVars
<1>2. RowsAsSent'
  BY DEF LossInv, RowsAsSent, Exists, rowVars
<1> QED
  BY <1>1, <1>2

\* A request that ends.
LEMMA LeaveLoss ==
    ASSUME UploadInv, LossInv, NEW c \in Request, Leave(c), UNCHANGED sent,
           \A p \in Photo : Carried(p) => Carried(p)'
    PROVE  GotIsSent' /\ SeenIsCarried'
<1>1. \A d \in Request \ {c} :
         /\ pc'[d] = pc[d] /\ arg'[d] = arg[d]
         /\ seen'[d] = seen[d] /\ got'[d] = got[d]
  BY DEF UploadInv, TypeOK, RequestTypes, Leave
<1>2. pc'[c] = "idle" /\ seen'[c] = Unread
  BY DEF UploadInv, TypeOK, RequestTypes, Leave
<1>3. \A d \in Request : pc[d] # "idle" => arg[d] \in Photo
  BY DEF UploadInv, TypeOK, RequestTypes
<1>4. \A d \in Request : pc[d] = "idle" => seen[d] = Unread
  BY DEF UploadInv, LocalsKnown
<1>5. GotIsSent'
  BY <1>1, <1>2 DEF LossInv, GotIsSent
<1>6. SeenIsCarried'
  BY <1>1, <1>2, <1>3, <1>4 DEF LossInv, SeenIsCarried, Unread
<1> QED
  BY <1>5, <1>6

\* A request that goes on, with what it needs.
LEMMA GoesLoss ==
    ASSUME UploadInv, LossInv, NEW c \in Request, NEW s,
           pc[c] # "idle", UNCHANGED <<arg, sent>>,
           pc' = [pc EXCEPT ![c] = s],
           \A d \in Request \ {c} : seen'[d] = seen[d] /\ got'[d] = got[d],
           s \in {"dup", "orig", "copy", "unstage", "set"} =>
              got'[c] = sent[arg[c]],
           s \in {"close", "enqueue"} => Carried(arg[c])',
           seen'[c][1] \in {"processing", "ready"} => Carried(arg[c])',
           \A p \in Photo : Carried(p) => Carried(p)'
    PROVE  GotIsSent' /\ SeenIsCarried'
<1>1. \A d \in Request \ {c} : pc'[d] = pc[d]
  BY DEF UploadInv, TypeOK, RequestTypes
<1>2. pc'[c] = s
  BY DEF UploadInv, TypeOK, RequestTypes
<1>3. \A d \in Request : pc[d] # "idle" => arg[d] \in Photo
  BY DEF UploadInv, TypeOK, RequestTypes
<1>4. \A d \in Request : pc[d] = "idle" => seen[d] = Unread
  BY DEF UploadInv, LocalsKnown
<1>5. GotIsSent'
  BY <1>1, <1>2 DEF LossInv, GotIsSent
<1>6. SeenIsCarried'
  <2>1. ASSUME NEW d \in Request \ {c},
               \/ pc[d] \in {"close", "enqueue"}
               \/ seen[d][1] \in {"processing", "ready"}
        PROVE  Carried(arg[d])'
    <3>1. Carried(arg[d]) /\ arg[d] \in Photo
      BY <1>3, <1>4, <2>1 DEF LossInv, SeenIsCarried, Unread
    <3> QED
      BY <3>1 DEF Carried
  <2> QED
    BY <1>1, <1>2, <2>1 DEF SeenIsCarried, Carried
<1> QED
  BY <1>5, <1>6

\* What is acknowledged, taken or developed while the rows stay.
LEMMA TakenStays ==
    ASSUME UploadInv, LossInv, UNCHANGED <<sha, status>>,
           \A p \in Photo :
              \/ p \in (queued' \cup working') \ (queued \cup working)
              \/ "ok" \in answers'[p] \ answers[p]
              => Carried(p)
    PROVE  TakenIsCarried'
  BY DEF LossInv, TakenIsCarried, Carried

\* A step of somebody else.
LEMMA QuietLoss ==
    ASSUME UploadInv, LossInv, UNCHANGED <<pc, arg, localVars, sent>>,
           \A p \in Photo : Carried(p) => Carried(p)'
    PROVE  GotIsSent' /\ SeenIsCarried'
<1>1. \A d \in Request : pc[d] # "idle" => arg[d] \in Photo
  BY DEF UploadInv, TypeOK, RequestTypes
<1>2. \A d \in Request : pc[d] = "idle" => seen[d] = Unread
  BY DEF UploadInv, LocalsKnown
<1>3. GotIsSent'
  BY DEF LossInv, GotIsSent, localVars
<1>4. SeenIsCarried'
  <2>1. ASSUME NEW d \in Request,
               \/ pc[d] \in {"close", "enqueue"}
               \/ seen[d][1] \in {"processing", "ready"}
        PROVE  Carried(arg[d])'
    <3>1. Carried(arg[d]) /\ arg[d] \in Photo
      BY <1>1, <1>2, <2>1 DEF LossInv, SeenIsCarried, Unread
    <3> QED
      BY <3>1 DEF Carried
  <2> QED
    BY <2>1 DEF SeenIsCarried, localVars, Carried
<1> QED
  BY <1>3, <1>4

\* Presign and Confirm.
LEMMA StartLoss ==
    ASSUME UploadInv, LossInv, NEW c \in Request,
           Presign(c) \/ (\E p \in Photo : Confirm(c, p))
    PROVE  LossInv'
<1>1. PICK p \in Photo, s \in {"open", "row"} :
        /\ pc[c] = "idle"
        /\ pc' = [pc EXCEPT ![c] = s]
        /\ arg' = [arg EXCEPT ![c] = p]
        /\ UNCHANGED <<sha, sent, staging, poolVars, localVars, answers>>
        /\ \/ status[p] = "absent" /\ live' = live \cup {p}
              /\ status' = [status EXCEPT ![p] = "pending"]
           \/ UNCHANGED <<status, live>>
  BY DEF Presign, Confirm, rowVars, sessionVars, blobVars
<1>2. \A q \in Photo : Carried(q)' <=> Carried(q)
  BY <1>1 DEF UploadInv, TypeOK, StoredTypes, Carried
<1>3. RowsAsSent'
  BY <1>1 DEF UploadInv, TypeOK, StoredTypes, LossInv, RowsAsSent, Exists
<1>4. TakenIsCarried'
  BY <1>1, <1>2 DEF UploadInv, TypeOK, StoredTypes, LossInv, TakenIsCarried,
     poolVars
<1>5. \A d \in Request \ {c} : pc'[d] = pc[d] /\ arg'[d] = arg[d]
  BY <1>1 DEF UploadInv, TypeOK, RequestTypes
<1>6. pc'[c] = s /\ seen'[c] = Unread
  BY <1>1 DEF UploadInv, TypeOK, RequestTypes, LocalsKnown, localVars
<1>7. GotIsSent'
  BY <1>1, <1>5, <1>6 DEF LossInv, GotIsSent, localVars
<1>8. SeenIsCarried'
  <2>1. \A d \in Request : pc[d] # "idle" => arg[d] \in Photo
    BY DEF UploadInv, TypeOK, RequestTypes
  <2>2. \A d \in Request : pc[d] = "idle" => seen[d] = Unread
    BY DEF UploadInv, LocalsKnown
  <2>3. ASSUME NEW d \in Request \ {c},
               \/ pc[d] \in {"close", "enqueue"}
               \/ seen[d][1] \in {"processing", "ready"}
        PROVE  Carried(arg[d])'
    BY <1>2, <1>5, <2>1, <2>2, <2>3 DEF LossInv, SeenIsCarried, Unread,
       Carried
  <2> QED
    BY <1>1, <1>5, <1>6, <2>3 DEF SeenIsCarried, Carried, Unread, localVars
<1> QED
  BY <1>3, <1>4, <1>7, <1>8 DEF LossInv

\* The calls of ConfirmUpload that only read.
LEMMA ReadingLoss ==
    ASSUME UploadInv, LossInv, NEW c \in Request, Reading(c)
    PROVE  LossInv'
<1>1. UNCHANGED <<rowVars, sessionVars, blobVars, poolVars>>
  BY DEF Reading, ReadRow, ReadSession, StatStaging, ReadStaging,
     FindDuplicate, StatOrig
<1>2. arg[c] \in Photo /\ pc[c] # "idle"
  BY DEF UploadInv, TypeOK, RequestTypes, Reading, ReadRow, ReadSession,
     StatStaging, ReadStaging, FindDuplicate, StatOrig
<1>3. \/ UNCHANGED answers
      \/ ReadSession(c) /\ Reply(c, Standing(seen[c]))
  BY DEF Reading, ReadRow, ReadSession, StatStaging, ReadStaging,
     FindDuplicate, StatOrig, GiveUp, Goto, ReplyRetry
<1>4. \A p \in Photo : /\ answers[p] \subseteq answers'[p]
                       /\ "ok" \in answers'[p] \ answers[p] => Carried(p)
  <2>1. CASE ReadSession(c) /\ Reply(c, Standing(seen[c]))
    <3>1. Standing(seen[c]) = "ok" => Carried(arg[c])
      BY DEF LossInv, SeenIsCarried, Standing, VerdictOf, Rejection
    <3>2. \A p \in Photo : answers'[p] =
             IF p = arg[c] THEN answers[p] \cup {Standing(seen[c])}
                           ELSE answers[p]
      BY <1>2, <2>1 DEF UploadInv, TypeOK, StoredTypes, Reply
    <3> QED
      BY <3>1, <3>2
  <2> QED
    BY <1>3, <2>1
<1>5. RowsAsSent' /\ \A p \in Photo : Carried(p)' <=> Carried(p)
  BY <1>1, <1>4, RowsStay DEF sessionVars, blobVars
<1>6. TakenIsCarried'
  BY <1>1, <1>4, TakenStays DEF rowVars, poolVars, Carried
<1>7. GotIsSent' /\ SeenIsCarried'
  <2>1. CASE Leave(c)
    BY <1>1, <1>5, <2>1, LeaveLoss DEF sessionVars
  <2>2. CASE \E a \in Verdict \cup {"duplicate"} : GiveUp(c, a)
    <3>1. pc' = [pc EXCEPT ![c] = "end"] /\ UNCHANGED <<arg, seen, got>>
      BY <2>2 DEF GiveUp, Goto
    <3>2. seen'[c][1] \in {"processing", "ready"} => Carried(arg[c])'
      BY <1>2, <1>5, <3>1 DEF LossInv, SeenIsCarried,
         Carried
    <3> QED
      BY <1>1, <1>2, <1>5, <3>1, <3>2, GoesLoss DEF sessionVars
  <2>3. CASE ReadRow(c) /\ ~Leave(c)
    <3>1. /\ pc' = [pc EXCEPT ![c] = "session"] /\ UNCHANGED <<arg, got>>
          /\ seen' = [seen EXCEPT ![c] = <<status[arg[c]], reason[arg[c]]>>]
      BY <2>3 DEF ReadRow, ReplyRetry, Goto
    <3>2. /\ \A d \in Request \ {c} : seen'[d] = seen[d]
          /\ seen'[c] = <<status[arg[c]], reason[arg[c]]>>
      BY <3>1 DEF UploadInv, TypeOK, RequestTypes
    <3>3. seen'[c][1] \in {"processing", "ready"} => Carried(arg[c])'
      <4>1. seen'[c][1] = status[arg[c]] /\ arg' = arg
        BY <3>1, <3>2
      <4>2. Carried(arg[c]) => Carried(arg[c])'
        BY <1>1, <4>1 DEF Carried, rowVars
      <4> QED
        BY <1>2, <4>1, <4>2 DEF LossInv, TakenIsCarried
    <3> QED
      BY <1>1, <1>2, <1>5, <3>1, <3>2, <3>3, GoesLoss DEF sessionVars
  <2>4. CASE pc[c] = "session" /\ Goto(c, "stat") /\ UNCHANGED <<got, why>> /\
             seen' = [seen EXCEPT ![c] = Unread]
    <3>1. /\ \A d \in Request \ {c} : seen'[d] = seen[d]
          /\ seen'[c] = Unread
          /\ pc' = [pc EXCEPT ![c] = "stat"] /\ UNCHANGED <<arg, got>>
      BY <2>4 DEF UploadInv, TypeOK, RequestTypes, Goto
    <3>2. seen'[c][1] \notin {"processing", "ready"}
      BY <3>1 DEF Unread
    <3> QED
      BY <1>1, <1>2, <1>5, <3>1, <3>2, GoesLoss DEF sessionVars
  <2>5. CASE \E s \in {"read", "orig", "unstage", "copy"} :
               /\ Goto(c, s) /\ UNCHANGED localVars
               /\ s # "read" => pc[c] \in {"dup", "orig"}
    <3>1. PICK s \in {"read", "orig", "unstage", "copy"} :
             /\ Goto(c, s) /\ UNCHANGED localVars
             /\ s # "read" => pc[c] \in {"dup", "orig"}
      BY <2>5
    <3>2. seen'[c][1] \in {"processing", "ready"} => Carried(arg[c])'
      BY <1>2, <1>5, <3>1 DEF LossInv, SeenIsCarried, localVars,
         Goto, Carried
    <3>3. s # "read" => got'[c] = sent[arg[c]]
      BY <3>1 DEF LossInv, GotIsSent, localVars
    <3> QED
      BY <1>1, <1>2, <1>5, <3>1, <3>2, <3>3, GoesLoss DEF sessionVars, Goto,
         localVars
  <2>6. CASE /\ pc[c] = "read" /\ Goto(c, "dup") /\ UNCHANGED <<seen, why>>
             /\ staging[arg[c]] \in Image
             /\ got' = [got EXCEPT ![c] = staging[arg[c]]]
    <3>1. /\ \A d \in Request \ {c} : got'[d] = got[d]
          /\ got'[c] = staging[arg[c]]
      BY <2>6 DEF UploadInv, TypeOK, RequestTypes
    <3>2. got'[c] = sent[arg[c]]
      BY <1>2, <2>6, <3>1, UploadAssumption DEF LossInv, RowsAsSent
    <3>3. seen'[c][1] \in {"processing", "ready"} => Carried(arg[c])'
      BY <1>2, <1>5, <2>6 DEF LossInv, SeenIsCarried, Goto,
         Carried
    <3> QED
      BY <1>1, <1>2, <1>5, <2>6, <3>1, <3>2, <3>3, GoesLoss DEF sessionVars,
         Goto
  <2>7. CASE StatOrig(c)
    BY <2>5, <2>7 DEF StatOrig
  <2> QED
    BY <2>1, <2>2, <2>3, <2>4, <2>5, <2>6, <2>7 DEF Reading, ReadRow,
       ReadSession, StatStaging, ReadStaging, FindDuplicate, Reply,
       ReplyRetry, Verdict, Rejection
<1> QED
  BY <1>5, <1>6, <1>7 DEF LossInv

\* What goes on, or ends, and changes no row but takes a staging object away
\* or a session along: OpenSession to DropObject.
LEMMA ObjectLoss ==
    ASSUME UploadInv, LossInv, NEW c \in Request,
           \/ OpenSession(c) \/ CloseSession(c) \/ EndSession(c)
           \/ CopyStaging(c) \/ Unstage(c) \/ DropObject(c)
    PROVE  LossInv'
<1>1. UNCHANGED <<rowVars, sent, poolVars>>
  BY DEF OpenSession, CloseSession, EndSession, SetSessionState, CopyStaging,
     Unstage, DropObject, sessionVars
<1>2. arg[c] \in Photo /\ pc[c] # "idle"
  BY DEF UploadInv, TypeOK, RequestTypes, OpenSession, CloseSession,
     EndSession, CopyStaging, Unstage, DropObject
<1>3. \A p \in Photo : staging'[p] \in {staging[p], None}
  BY DEF UploadInv, TypeOK, StoredTypes, OpenSession, CloseSession,
     EndSession, CopyStaging, Unstage, DropObject, DropStaging, blobVars
<1>4. UNCHANGED answers \/ (DropObject(c) /\ Reply(c, why[c]))
  BY DEF OpenSession, CloseSession, EndSession, CopyStaging, Unstage,
     DropObject, Goto, ReplyRetry
<1>5. \A p \in Photo : /\ answers[p] \subseteq answers'[p]
                       /\ "ok" \notin answers'[p] \ answers[p]
  <2>1. CASE DropObject(c) /\ Reply(c, why[c])
    <3>1. why[c] # "ok"
      BY <2>1 DEF UploadInv, LocalsKnown, DropObject, Verdict, Rejection
    <3>2. \A p \in Photo : answers'[p] =
             IF p = arg[c] THEN answers[p] \cup {why[c]} ELSE answers[p]
      BY <1>2, <2>1 DEF UploadInv, TypeOK, StoredTypes, Reply
    <3> QED
      BY <3>1, <3>2
  <2> QED
    BY <1>4, <2>1
<1>6. RowsAsSent' /\ \A p \in Photo : Carried(p)' <=> Carried(p)
  BY <1>1, <1>3, <1>5, RowsStay
<1>7. TakenIsCarried'
  BY <1>1, <1>5, TakenStays DEF rowVars, poolVars, Carried
<1>8. GotIsSent' /\ SeenIsCarried'
  <2>1. CASE Leave(c)
    BY <1>1, <1>6, <2>1, LeaveLoss
  <2>2. CASE \E s \in {"unstage", "set", "enqueue", "drop", "fail", "purge"} :
               /\ Goto(c, s) /\ UNCHANGED localVars
               /\ s \in {"unstage", "set"} => pc[c] \in {"copy", "unstage"}
               /\ s = "enqueue" => pc[c] = "close"
    <3>1. PICK s \in {"unstage", "set", "enqueue", "drop", "fail", "purge"} :
             /\ Goto(c, s) /\ UNCHANGED localVars
             /\ s \in {"unstage", "set"} => pc[c] \in {"copy", "unstage"}
             /\ s = "enqueue" => pc[c] = "close"
      BY <2>2
    <3>2. \/ s = "enqueue"
          \/ seen'[c][1] \in {"processing", "ready"}
          => Carried(arg[c])'
      BY <1>2, <1>6, <3>1 DEF LossInv, SeenIsCarried, localVars,
         Goto, Carried
    <3>3. s \in {"unstage", "set"} => got'[c] = sent[arg[c]]
      BY <3>1 DEF LossInv, GotIsSent, localVars
    <3> QED
      BY <1>1, <1>2, <1>6, <3>1, <3>2, <3>3, GoesLoss DEF Goto, localVars
  <2> QED
    BY <2>1, <2>2 DEF OpenSession, CloseSession, EndSession, CopyStaging,
       Unstage, DropObject, ReplyRetry, Reply
<1> QED
  BY <1>6, <1>7, <1>8 DEF LossInv

\* MarkPhotoFailed: the row keeps its sha, or is not there.
LEMMA FailedCarried ==
    ASSUME UploadInv, LossInv, NEW p \in Photo, NEW r, MarkPhotoFailed(p, r)
    PROVE  /\ UNCHANGED <<sha, live>>
           /\ \A q \in Photo :
                /\ Carried(q)' <=> Carried(q)
                /\ Exists(q)' <=> Exists(q)
                /\ status'[q] \in {status[q], "failed"}
                /\ status'[q] = "purged" => status[q] = "purged"
  BY DEF UploadInv, TypeOK, StoredTypes, MarkPhotoFailed, Carried, Exists

\* What is left of the photos when only statuses change.
LEMMA StatusLoss ==
    ASSUME UploadInv, LossInv, UNCHANGED <<sha, live, sent>>,
           \A p \in Photo :
              /\ staging'[p] \in {staging[p], None}
              /\ answers[p] \subseteq answers'[p]
              /\ Carried(p)' <=> Carried(p)
              /\ Exists(p)' <=> Exists(p)
              /\ status'[p] = "purged" => status[p] = "purged"
              /\ \/ p \in (queued' \cup working') \ (queued \cup working)
                 \/ "ok" \in answers'[p] \ answers[p]
                 \/ /\ status'[p] \in {"processing", "ready"}
                    /\ status'[p] # status[p]
                 => Carried(p)
    PROVE  RowsAsSent' /\ TakenIsCarried'
<1>1. RowsAsSent'
  BY DEF LossInv, RowsAsSent
<1>2. TakenIsCarried'
  BY DEF LossInv, TakenIsCarried
<1> QED
  BY <1>1, <1>2

LEMMA FailRowLoss ==
    ASSUME UploadInv, LossInv, NEW c \in Request, FailRow(c)
    PROVE  LossInv'
<1>1. /\ arg[c] \in Photo /\ pc[c] # "idle"
      /\ pc' = [pc EXCEPT ![c] = "drop"]
      /\ UNCHANGED <<arg, answers, sent, staging, poolVars, localVars>>
  BY DEF UploadInv, TypeOK, RequestTypes, FailRow, Goto, sessionVars, blobVars
<1>2. /\ UNCHANGED <<sha, live>>
      /\ \A q \in Photo :
           /\ Carried(q)' <=> Carried(q)
           /\ Exists(q)' <=> Exists(q)
           /\ status'[q] \in {status[q], "failed"}
           /\ status'[q] = "purged" => status[q] = "purged"
  <2>1. CASE UNCHANGED rowVars
    BY <2>1 DEF Carried, Exists, rowVars
  <2>2. CASE MarkPhotoFailed(arg[c], ReasonOf(why[c]))
    BY <1>1, <2>2, FailedCarried
  <2> QED
    BY <2>1, <2>2 DEF FailRow
<1>3. RowsAsSent' /\ TakenIsCarried'
  BY <1>1, <1>2, StatusLoss DEF poolVars
<1>4. seen'[c][1] \in {"processing", "ready"} => Carried(arg[c])'
  <2>1. Carried(arg[c]) => Carried(arg[c])'
    BY <1>1, <1>2 DEF Carried
  <2> QED
    BY <1>1, <2>1 DEF LossInv, SeenIsCarried, localVars
<1>5. GotIsSent' /\ SeenIsCarried'
  BY <1>1, <1>2, <1>4, GoesLoss DEF localVars
<1> QED
  BY <1>3, <1>5 DEF LossInv

\* SetPhotoUploaded records what was read back, which is what was sent.
LEMMA SetUploadedLoss ==
    ASSUME UploadInv, LossInv, NEW c \in Request, SetUploaded(c)
    PROVE  LossInv'
<1>1. /\ arg[c] \in Photo /\ pc[c] = "set"
      /\ UNCHANGED <<sent, staging, poolVars>>
  BY DEF UploadInv, TypeOK, RequestTypes, SetUploaded, sessionVars, blobVars
<1>2. CASE ReplyRetry(c) /\ UNCHANGED rowVars
  <2>1. RowsAsSent' /\ \A p \in Photo : Carried(p)' <=> Carried(p)
    BY <1>1, <1>2, RowsStay DEF ReplyRetry
  <2>2. TakenIsCarried'
    BY <1>1, <1>2, TakenStays DEF ReplyRetry, rowVars, poolVars
  <2>3. GotIsSent' /\ SeenIsCarried'
    BY <1>1, <1>2, <2>1, LeaveLoss DEF ReplyRetry
  <2> QED
    BY <2>1, <2>2, <2>3 DEF LossInv
<1>3. CASE /\ Visible(arg[c])
           /\ sha' = [sha EXCEPT ![arg[c]] = got[c]]
           /\ status' = [status EXCEPT ![arg[c]] = "pending"]
           /\ Goto(c, "close")
           /\ UNCHANGED <<reason, live, localVars>>
  <2>1. got[c] = sent[arg[c]] /\ got[c] # None
    BY <1>1, UploadAssumption DEF LossInv, GotIsSent, UploadInv, LocalsKnown
  <2>2. \A p \in Photo \ {arg[c]} : sha'[p] = sha[p] /\ status'[p] = status[p]
    BY <1>3 DEF UploadInv, TypeOK, StoredTypes
  <2>3. sha'[arg[c]] = got[c] /\ status'[arg[c]] = "pending"
    BY <1>1, <1>3 DEF UploadInv, TypeOK, StoredTypes
  <2>4. \A p \in Photo : Carried(p) => Carried(p)'
    BY <2>1, <2>2, <2>3 DEF Carried
  <2>5. Carried(arg[c])'
    BY <1>3, <2>1, <2>3 DEF Carried, Goto
  <2>6. RowsAsSent'
    BY <1>1, <1>3, <2>1, <2>2, <2>3 DEF LossInv, RowsAsSent, Exists, Goto
  <2>7. TakenIsCarried'
    BY <1>1, <1>3, <2>2, <2>3, <2>4 DEF LossInv, TakenIsCarried, Goto,
       poolVars
  <2>8. GotIsSent' /\ SeenIsCarried'
    BY <1>1, <1>3, <2>4, <2>5, GoesLoss DEF Goto, localVars
  <2> QED
    BY <2>6, <2>7, <2>8 DEF LossInv
<1> QED
  BY <1>2, <1>3 DEF SetUploaded

\* The duplicate branch says "duplicate" of the row it deletes.
LEMMA PurgeRowLoss ==
    ASSUME UploadInv, LossInv, NEW c \in Request, PurgeRow(c)
    PROVE  LossInv'
<1>0. Reply(c, "duplicate")
  BY DEF PurgeRow
<1>1. arg[c] \in Photo /\ UNCHANGED <<sent, staging, queued, working>>
  BY DEF UploadInv, TypeOK, RequestTypes, PurgeRow, blobVars, poolVars
<1>2. \/ UNCHANGED <<sha, status, live>>
      \/ /\ \A p \in Photo \ {arg[c]} :
              sha'[p] = sha[p] /\ status'[p] = status[p]
         /\ sha'[arg[c]] = None /\ status'[arg[c]] = "purged"
         /\ live' = live \ {arg[c]}
  BY <1>1 DEF PurgeRow, Withdrawn
<1>3. \A p \in Photo : answers'[p] =
         IF p = arg[c] THEN answers[p] \cup {"duplicate"} ELSE answers[p]
  BY <1>1, <1>0 DEF UploadInv, TypeOK, StoredTypes, Reply
<1>4. \A p \in Photo : Carried(p) => Carried(p)'
  BY <1>2 DEF Carried
<1>5. RowsAsSent'
  BY <1>1, <1>2, <1>3 DEF LossInv, RowsAsSent, Exists
<1>6. TakenIsCarried'
  <2>1. ASSUME NEW p \in Photo,
               \/ p \in queued' \cup working'
               \/ status'[p] \in {"processing", "ready"}
               \/ "ok" \in answers'[p]
        PROVE  Carried(p)
    <3>0. p \in queued' \cup working' => p \in queued \cup working
      BY <1>1
    <3>1. "ok" \in answers'[p] => "ok" \in answers[p]
      <4>1. answers'[p] \subseteq answers[p] \cup {"duplicate"}
        BY <1>3
      <4> QED
        BY <4>1
    <3>2. status'[p] \in {"processing", "ready"} => status'[p] = status[p]
      BY <1>2
    <3> QED
      BY <2>1, <3>0, <3>1, <3>2 DEF LossInv, TakenIsCarried
  <2> QED
    BY <1>4, <2>1 DEF TakenIsCarried
<1>7. GotIsSent' /\ SeenIsCarried'
  BY <1>1, <1>4, <1>0, LeaveLoss DEF Reply
<1> QED
  BY <1>5, <1>6, <1>7 DEF LossInv

\* HandOver, and an abandoned request's Enqueue.
LEMMA HandOverLoss ==
    ASSUME UploadInv, LossInv, NEW c \in Request, HandOver(c) \/ Abandon(c)
    PROVE  LossInv'
<1>1. /\ arg[c] \in Photo
      /\ Leave(c)
      /\ UNCHANGED <<rowVars, sent, staging>>
  BY DEF UploadInv, TypeOK, RequestTypes, HandOver, Abandon, Reply,
     ReplyRetry, sessionVars, blobVars
<1>2. \A p \in (queued' \cup working') \ (queued \cup working) : Carried(p)
  BY DEF HandOver, Abandon, Enqueue, Pooled, LossInv, SeenIsCarried, poolVars
<1>3. \A p \in Photo : /\ answers[p] \subseteq answers'[p]
                       /\ "ok" \in answers'[p] \ answers[p] => Carried(p)
  <2>1. CASE Reply(c, "ok") /\ pc[c] = "enqueue"
    <3>1. Carried(arg[c])
      BY <2>1 DEF LossInv, SeenIsCarried
    <3>2. \A p \in Photo : answers'[p] =
             IF p = arg[c] THEN answers[p] \cup {"ok"} ELSE answers[p]
      BY <1>1, <2>1 DEF UploadInv, TypeOK, StoredTypes, Reply
    <3> QED
      BY <3>1, <3>2
  <2> QED
    BY <2>1 DEF HandOver, Abandon, ReplyRetry
<1>4. RowsAsSent' /\ \A p \in Photo : Carried(p)' <=> Carried(p)
  BY <1>1, <1>3, RowsStay
<1>5. TakenIsCarried'
  BY <1>1, <1>2, <1>3, TakenStays DEF rowVars
<1>6. GotIsSent' /\ SeenIsCarried'
  BY <1>1, <1>4, LeaveLoss
<1> QED
  BY <1>4, <1>5, <1>6 DEF LossInv

\* The browser, the owner and the clock.
LEMMA ClientLoss ==
    ASSUME UploadInv, LossInv, NEW p \in Photo,
           Put(p) \/ Expire(p) \/ Hide(p)
    PROVE  LossInv'
<1>1. /\ UNCHANGED <<sha, status, poolVars, pc, arg, localVars, answers>>
      /\ live' \subseteq live
  BY DEF Put, Expire, Hide, rowVars
<1>2. \A q \in Photo : /\ Carried(q)' <=> Carried(q)
                       /\ Exists(q)' <=> Exists(q)
  BY <1>1 DEF Carried, Exists
<1>3. TakenIsCarried'
  BY <1>1, TakenStays DEF poolVars
<1>4. CASE UNCHANGED <<sent, staging>>
  <2>1. RowsAsSent'
    BY <1>1, <1>2, <1>4 DEF LossInv, RowsAsSent
  <2>2. GotIsSent' /\ SeenIsCarried'
    BY <1>1, <1>2, <1>4, QuietLoss
  <2> QED
    BY <1>3, <2>1, <2>2 DEF LossInv
<1>5. CASE Put(p)
  <2>1. PICK o \in Content : /\ sent' = [sent EXCEPT ![p] = o]
                             /\ staging' = [staging EXCEPT ![p] = o]
    BY <1>5, UploadAssumption DEF Put
  <2>2. /\ sent[p] = None
        /\ sent'[p] = o /\ staging'[p] = o
        /\ \A q \in Photo \ {p} : sent'[q] = sent[q] /\ staging'[q] = staging[q]
    BY <1>5, <2>1 DEF UploadInv, TypeOK, StoredTypes, Put
  <2>3. RowsAsSent'
    BY <1>1, <1>2, <2>2 DEF LossInv, RowsAsSent
  <2>4. GotIsSent'
    <3>1. ASSUME NEW c \in Request,
                 pc[c] \in {"dup", "orig", "copy", "unstage", "set"}
          PROVE  got[c] = sent'[arg[c]]
      <4>1. arg[c] \in Photo /\ got[c] # None
        BY <3>1, UploadAssumption
           DEF UploadInv, TypeOK, RequestTypes, LocalsKnown
      <4>2. got[c] = sent[arg[c]]
        BY <3>1 DEF LossInv, GotIsSent
      <4> QED
        BY <2>2, <4>1, <4>2
    <3> QED
      BY <1>1, <3>1 DEF GotIsSent, localVars
  <2>5. SeenIsCarried'
    BY <1>1 DEF LossInv, SeenIsCarried, Carried, localVars
  <2> QED
    BY <1>3, <2>3, <2>4, <2>5 DEF LossInv
<1> QED
  BY <1>4, <1>5 DEF Expire, Hide, sessionVars, blobVars

\* What the pool takes has been carried through, and what it has developed.
LEMMA WorkerLoss ==
    ASSUME UploadInv, LossInv, NEW p \in Photo, Claim(p) \/ Settle(p)
    PROVE  LossInv'
<1>1. /\ UNCHANGED <<sent, staging, pc, arg, localVars, answers>>
      /\ p \in queued \cup working
      /\ queued' \cup working' \subseteq queued \cup working
  BY DEF Claim, Settle, Take, Skip, Finish, sessionVars, blobVars
<1>2. Carried(p)
  BY <1>1 DEF LossInv, TakenIsCarried
<1>3. /\ UNCHANGED <<sha, live>>
      /\ \A q \in Photo :
           /\ Carried(q)' <=> Carried(q)
           /\ Exists(q)' <=> Exists(q)
           /\ status'[q] = "purged" => status[q] = "purged"
           /\ q # p => status'[q] = status[q]
  <2>1. CASE MarkPhotoFailed(p, "other")
    <3>1. \A q \in Photo \ {p} : status'[q] = status[q]
      BY <2>1 DEF UploadInv, TypeOK, StoredTypes, MarkPhotoFailed
    <3> QED
      BY <2>1, <3>1, FailedCarried
  <2>2. CASE /\ p \in live /\ UNCHANGED <<sha, live>>
             /\ \E s \in {"processing", "ready"} :
                  status' = [status EXCEPT ![p] = s]
    <3>1. status[p] \notin {"absent", "purged"}
      BY <2>2 DEF LossInv, RowsAsSent, Exists
    <3>2. /\ status'[p] \notin {"absent", "purged"}
          /\ \A q \in Photo \ {p} : status'[q] = status[q]
      BY <2>2 DEF UploadInv, TypeOK, StoredTypes
    <3> QED
      BY <2>2, <3>1, <3>2 DEF Carried, Exists
  <2>3. CASE UNCHANGED <<status, sha, live>>
    BY <2>3 DEF Carried, Exists
  <2> QED
    BY <2>1, <2>2, <2>3 DEF Claim, Settle, rowVars
<1>4. RowsAsSent' /\ TakenIsCarried'
  BY <1>1, <1>2, <1>3, StatusLoss
<1>5. GotIsSent' /\ SeenIsCarried'
  BY <1>1, <1>3, QuietLoss
<1> QED
  BY <1>4, <1>5 DEF LossInv

LEMMA ReapLoss ==
    ASSUME UploadInv, LossInv, Reap
    PROVE  LossInv'
<1>1. UNCHANGED <<sent, poolVars, pc, arg, localVars, answers>>
  BY DEF Reap, ReapScan, ReapSession, ReapRow, ReapObject, SetSessionState,
     sessionVars
<1>2. \A q \in Photo : staging'[q] \in {staging[q], None}
  BY DEF UploadInv, TypeOK, StoredTypes, Reap, ReapScan, ReapSession, ReapRow,
     ReapObject, DropStaging, blobVars
<1>3. /\ UNCHANGED <<sha, live>>
      /\ \A q \in Photo :
           /\ Carried(q)' <=> Carried(q)
           /\ Exists(q)' <=> Exists(q)
           /\ status'[q] \in {status[q], "failed"}
           /\ status'[q] = "purged" => status[q] = "purged"
  <2>1. CASE UNCHANGED rowVars
    BY <2>1 DEF Carried, Exists, rowVars
  <2>2. CASE ReapRow
    <3>1. /\ reaping \in Photo
          /\ MarkPhotoFailed(reaping, "incomplete") \/ UNCHANGED rowVars
      BY <2>2 DEF UploadInv, TypeOK, StoredTypes, ReapRow
    <3> QED
      BY <2>1, <3>1, FailedCarried
  <2> QED
    BY <2>1, <2>2 DEF Reap, ReapScan, ReapSession, ReapObject
<1>4. RowsAsSent' /\ TakenIsCarried'
  BY <1>1, <1>2, <1>3, StatusLoss DEF poolVars
<1>5. GotIsSent' /\ SeenIsCarried'
  BY <1>1, <1>3, QuietLoss
<1> QED
  BY <1>4, <1>5 DEF LossInv

\* A stuck photo has its sha.
LEMMA RescanLoss ==
    ASSUME UploadInv, LossInv, Rescan
    PROVE  LossInv'
<1>1. UNCHANGED <<rowVars, sent, staging, pc, arg, localVars, answers>>
  BY DEF Rescan, sessionVars, blobVars
<1>2. \A p \in (queued' \cup working') \ (queued \cup working) : Carried(p)
  BY DEF Rescan, Enqueue, Pooled, Stuck, Carried
<1>3. RowsAsSent' /\ \A p \in Photo : Carried(p)' <=> Carried(p)
  BY <1>1, RowsStay
<1>4. TakenIsCarried'
  BY <1>1, <1>2, TakenStays DEF rowVars
<1>5. GotIsSent' /\ SeenIsCarried'
  BY <1>1, <1>3, QuietLoss
<1> QED
  BY <1>3, <1>4, <1>5 DEF LossInv

LEMMA CrashLoss ==
    ASSUME UploadInv, LossInv, Crash
    PROVE  LossInv'
<1>1. UNCHANGED <<rowVars, sent, staging, answers>>
  BY DEF Crash, sessionVars, blobVars
<1>2. queued' = {} /\ working' = {}
  BY DEF Crash, Lose
<1>3. RowsAsSent'
  BY <1>1, RowsStay
<1>4. TakenIsCarried'
  BY <1>1, <1>2, TakenStays DEF rowVars
<1>5. \A c \in Request : pc'[c] = "idle" /\ seen'[c] = Unread
  BY DEF Crash
<1>6. GotIsSent' /\ SeenIsCarried'
  BY <1>5 DEF GotIsSent, SeenIsCarried, Unread
<1> QED
  BY <1>3, <1>4, <1>6 DEF LossInv

LEMMA LossStep == UploadInv /\ LossInv /\ [Next]_vars => LossInv'
<1> SUFFICES ASSUME UploadInv, LossInv, [Next]_vars
             PROVE  LossInv'
  OBVIOUS
<1>1. ASSUME NEW c \in Request,
             \/ Presign(c) \/ OpenSession(c) \/ (\E p \in Photo : Confirm(c, p))
             \/ ConfirmStep(c) \/ Abandon(c)
      PROVE  LossInv'
  BY <1>1, StartLoss, ReadingLoss, ObjectLoss, FailRowLoss, SetUploadedLoss,
     PurgeRowLoss, HandOverLoss DEF ConfirmStep, Reading
<1>2. ASSUME NEW p \in Photo,
             Put(p) \/ Expire(p) \/ Hide(p) \/ Claim(p) \/ Settle(p)
      PROVE  LossInv'
  BY <1>2, ClientLoss, WorkerLoss
<1>3. CASE UNCHANGED vars
  <2>1. RowsAsSent' /\ \A p \in Photo : Carried(p)' <=> Carried(p)
    BY <1>3, RowsStay DEF vars, sessionVars, blobVars
  <2>2. TakenIsCarried'
    BY <1>3, TakenStays DEF vars, rowVars, poolVars
  <2>3. GotIsSent' /\ SeenIsCarried'
    BY <1>3, <2>1, QuietLoss DEF vars, sessionVars
  <2> QED
    BY <2>1, <2>2, <2>3 DEF LossInv
<1> QED
  BY <1>1, <1>2, <1>3, ReapLoss, RescanLoss, CrashLoss DEF Next

\* The inductive invariant, whatever overlaps.
THEOREM UploadLossInvariant == Spec => []LossInv
<1>1. Init => LossInv
  BY InitLoss
<1>2. UploadInv /\ LossInv /\ [Next]_vars => LossInv'
  BY LossStep
<1> QED
  BY <1>1, <1>2, UploadInvariant, PTL DEF Spec

\* An acknowledged upload is there, with what the browser sent, unless another
\* confirm of it has been answered "duplicate": the second of two overlapping
\* confirms, finding the first one's row, is the only thing that can take an
\* acknowledged upload away (upload.go:293).
LostOnlyAsDuplicate ==
    \A p \in Photo :
        "ok" \in answers[p] =>
            \/ Exists(p) /\ sha[p] # None /\ sha[p] = sent[p]
            \/ "duplicate" \in answers[p]

\* However many requests confirm a photo at a time, and whatever crashes: the
\* only way an acknowledged upload is lost is the answer "duplicate" to
\* another confirm of it.
THEOREM UploadLostOnlyAsDuplicate == Spec => []LostOnlyAsDuplicate
<1>1. UploadInv /\ LossInv => LostOnlyAsDuplicate
  <2> SUFFICES ASSUME UploadInv, LossInv, NEW p \in Photo, "ok" \in answers[p],
                      "duplicate" \notin answers[p]
               PROVE  Exists(p) /\ sha[p] # None /\ sha[p] = sent[p]
    BY DEF LostOnlyAsDuplicate
  <2>1. sha[p] # None
    BY DEF LossInv, TakenIsCarried, RowsAsSent, Carried
  <2> QED
    BY <2>1 DEF LossInv, RowsAsSent, UploadInv, AbsentIsBlank, Exists
<1> QED
  BY <1>1, UploadInvariant, UploadLossInvariant, PTL

-----------------------------------------------------------------------------
(* Whatever overlaps: nobody's photo *)

\* The request is about to fail the row of its photo, or to delete it.
Closing(c) ==
    pc[c] = "fail" \/ (pc[c] \in {"drop", "purge"} /\ why[c] = "duplicate")

\* Somebody will look at the photo again: the confirm of an open session or the
\* reaper, the recovery scan, or a request that is at it right now.
Cared(p) ==
    \/ session[p] = "issued"
    \/ p \in Stuck
    \/ reaping = p /\ rstep = "fail"
    \/ \E c \in Request : arg[c] = p /\ (pc[c] = "open" \/ Closing(c))

Unsettled(p) == p \in live /\ status[p] \in {"pending", "processing"}

\* As long as no call fails and nobody deletes or dies, a visible photo that is
\* neither developed nor failed is always in somebody's care: an open session
\* that the reaper will end (maintenance.go:36), or a row that RecoverStuck
\* will find (maintenance.go:17).  It is why EveryUploadSettles can hold at all.
InCare == mishaps = 0 => \A p \in Photo : Unsettled(p) => Cared(p)

\* A step of a request is about its own photo, and forgets no care.
LEMMA RequestCare ==
    ASSUME UploadInv, InCare, NEW c \in Request,
           UNCHANGED <<reapVars, mishaps>>,
           pc[c] # "open" /\ ~Closing(c),
           \A d \in Request \ {c} :
              pc'[d] = pc[d] /\ arg'[d] = arg[d] /\ why'[d] = why[d],
           \A p \in Photo :
              Unsettled(p)' =>
                 \/ Cared(p)'
                 \/ /\ Unsettled(p) /\ status'[p] = status[p]
                    /\ session'[p] = session[p] /\ sha'[p] = sha[p]
    PROVE  InCare'
<1> SUFFICES ASSUME mishaps = 0, NEW p \in Photo, Unsettled(p)',
                    Unsettled(p), status'[p] = status[p],
                    session'[p] = session[p], sha'[p] = sha[p]
             PROVE  Cared(p)'
  BY DEF InCare
<1>1. Cared(p)
  BY DEF InCare
<1>2. CASE \E d \in Request : arg[d] = p /\ (pc[d] = "open" \/ Closing(d))
  <2>1. PICK d \in Request : arg[d] = p /\ (pc[d] = "open" \/ Closing(d))
    BY <1>2
  <2>2. d # c
    BY <2>1
  <2> QED
    BY <2>1, <2>2 DEF Cared, Closing
<1>3. CASE ~\E d \in Request : arg[d] = p /\ (pc[d] = "open" \/ Closing(d))
  BY <1>1, <1>3 DEF Cared, Stuck, Unsettled, reapVars
<1> QED
  BY <1>2, <1>3

\* A step of somebody else.
LEMMA OthersCare ==
    ASSUME InCare, UNCHANGED <<pc, arg, why, mishaps>>,
           \A p \in Photo :
              Unsettled(p)' =>
                 \/ Cared(p)'
                 \/ /\ Unsettled(p)
                    /\ session'[p] = session[p] /\ sha'[p] = sha[p]
                    /\ status'[p] = status[p]
                    /\ reaping = p /\ rstep = "fail" =>
                          reaping' = p /\ rstep' = "fail"
    PROVE  InCare'
<1> SUFFICES ASSUME mishaps = 0, NEW p \in Photo, Unsettled(p)',
                    Unsettled(p), status'[p] = status[p],
                    session'[p] = session[p], sha'[p] = sha[p],
                    reaping = p /\ rstep = "fail" =>
                       reaping' = p /\ rstep' = "fail"
             PROVE  Cared(p)'
  BY DEF InCare
<1>1. Cared(p)
  BY DEF InCare
<1> QED
  BY <1>1 DEF Cared, Closing, Stuck, Unsettled

\* Only mishaps count down from nothing.
LEMMA MishapCare == ASSUME UploadInv, Mishap PROVE InCare'
  BY DEF UploadInv, TypeOK, StoredTypes, Mishap, InCare

\* Presign, which puts the row in its own care, and OpenSession, which leaves
\* it to the session.
LEMMA StartCare ==
    ASSUME UploadInv, InCare, NEW c \in Request,
           Presign(c) \/ OpenSession(c) \/ (\E p \in Photo : Confirm(c, p))
    PROVE  InCare'
<1>1. CASE Presign(c)
  <2>1. PICK p \in Photo : /\ status' = [status EXCEPT ![p] = "pending"]
                           /\ live' = live \cup {p}
                           /\ arg' = [arg EXCEPT ![c] = p]
    BY <1>1 DEF Presign
  <2>2. /\ pc[c] = "idle" /\ pc' = [pc EXCEPT ![c] = "open"]
        /\ UNCHANGED <<sha, session, why, reapVars, mishaps>>
    BY <1>1 DEF Presign, sessionVars, localVars
  <2>3. arg'[c] = p /\ pc'[c] = "open"
    BY <2>1, <2>2 DEF UploadInv, TypeOK, RequestTypes
  <2>4. Cared(p)'
    BY <2>3 DEF Cared
  <2>5. \A q \in Photo \ {p} : /\ status'[q] = status[q]
                               /\ q \in live' <=> q \in live
    BY <2>1 DEF UploadInv, TypeOK, StoredTypes
  <2>6. \A d \in Request \ {c} :
           pc'[d] = pc[d] /\ arg'[d] = arg[d] /\ why'[d] = why[d]
    BY <2>1, <2>2 DEF UploadInv, TypeOK, RequestTypes
  <2>7. \A q \in Photo : Unsettled(q)' =>
           \/ Cared(q)'
           \/ /\ Unsettled(q) /\ status'[q] = status[q]
              /\ session'[q] = session[q] /\ sha'[q] = sha[q]
    BY <2>2, <2>4, <2>5 DEF Unsettled
  <2> QED
    BY <2>2, <2>6, <2>7, RequestCare DEF Closing
<1>2. CASE \E p \in Photo : Confirm(c, p)
  <2>1. /\ pc[c] = "idle"
        /\ UNCHANGED <<rowVars, session, why, reapVars, mishaps>>
        /\ pc' = [pc EXCEPT ![c] = "row"]
        /\ \A d \in Request \ {c} : arg'[d] = arg[d]
    BY <1>2 DEF UploadInv, TypeOK, RequestTypes, Confirm, sessionVars,
       localVars
  <2>2. \A d \in Request \ {c} : pc'[d] = pc[d]
    BY <2>1 DEF UploadInv, TypeOK, RequestTypes
  <2> QED
    BY <2>1, <2>2, RequestCare DEF Closing, Unsettled, rowVars
<1>3. CASE OpenSession(c)
  <2>1. arg[c] \in Photo /\ pc[c] = "open"
    BY <1>3 DEF UploadInv, TypeOK, RequestTypes, OpenSession
  <2>2. /\ session'[arg[c]] = "issued"
        /\ \A q \in Photo \ {arg[c]} : session'[q] = session[q]
    BY <1>3, <2>1 DEF UploadInv, TypeOK, StoredTypes, OpenSession
  <2>3. \A d \in Request \ {c} :
           pc'[d] = pc[d] /\ arg'[d] = arg[d] /\ why'[d] = why[d]
    BY <1>3 DEF UploadInv, TypeOK, RequestTypes, OpenSession, ReplyRetry, Leave
  <2>4. UNCHANGED <<rowVars, reapVars, mishaps>>
    BY <1>3 DEF OpenSession
  <2>5. ASSUME mishaps = 0, NEW q \in Photo, Unsettled(q)'
        PROVE  Cared(q)'
    <3>1. CASE q = arg[c]
      BY <2>2, <3>1 DEF Cared
    <3>2. CASE q # arg[c]
      <4>1. Unsettled(q) /\ Cared(q)
        BY <2>4, <2>5 DEF InCare, Unsettled, rowVars
      <4>2. CASE \E d \in Request :
                    arg[d] = q /\ (pc[d] = "open" \/ Closing(d))
        BY <2>3, <3>2, <4>2 DEF Cared, Closing
      <4>3. CASE ~\E d \in Request :
                    arg[d] = q /\ (pc[d] = "open" \/ Closing(d))
        BY <2>2, <2>4, <3>2, <4>1, <4>3 DEF Cared, Stuck, rowVars, reapVars
      <4> QED
        BY <4>2, <4>3
    <3> QED
      BY <3>1, <3>2
  <2> QED
    BY <2>4, <2>5 DEF InCare
<1> QED
  BY <1>1, <1>2, <1>3

\* A request that changes neither rows nor sessions.
LEMMA PassingCare ==
    ASSUME UploadInv, InCare, ~Mishap, NEW c \in Request,
           \/ Reading(c) \/ CopyStaging(c) \/ Unstage(c) \/ HandOver(c)
           \/ DropObject(c) /\ why[c] # "duplicate"
    PROVE  InCare'
<1>1. UNCHANGED <<rowVars, session, reapVars, mishaps>>
  BY DEF Reading, ReadRow, ReadSession, StatStaging, ReadStaging,
     FindDuplicate, StatOrig, CopyStaging, Unstage, HandOver, DropObject,
     sessionVars
<1>2. pc[c] # "open" /\ ~Closing(c)
  BY DEF Closing, Reading, ReadRow, ReadSession, StatStaging, ReadStaging,
     FindDuplicate, StatOrig, CopyStaging, Unstage, HandOver, DropObject
<1>3. \/ Leave(c)
      \/ UNCHANGED arg /\ (\E s : pc' = [pc EXCEPT ![c] = s])
         /\ (UNCHANGED why \/ \E a : why' = [why EXCEPT ![c] = a])
  BY DEF Reading, ReadRow, ReadSession, StatStaging, ReadStaging,
     FindDuplicate, StatOrig, CopyStaging, Unstage, HandOver, DropObject,
     GiveUp, Goto, Reply, ReplyRetry, localVars
<1>4. \A d \in Request \ {c} :
         pc'[d] = pc[d] /\ arg'[d] = arg[d] /\ why'[d] = why[d]
  BY <1>3 DEF UploadInv, TypeOK, RequestTypes, Leave
<1> QED
  BY <1>1, <1>2, <1>4, RequestCare DEF Unsettled, rowVars

\* SetPhotoUploaded and the end of the session: what is recorded will be found.
LEMMA RecordedCare ==
    ASSUME UploadInv, LossInv, InCare, ~Mishap, NEW c \in Request,
           SetUploaded(c) \/ CloseSession(c)
    PROVE  InCare'
<1>1. /\ arg[c] \in Photo
      /\ UNCHANGED <<live, reapVars, mishaps>>
      /\ pc[c] # "open" /\ ~Closing(c)
  BY DEF UploadInv, TypeOK, RequestTypes, SetUploaded, CloseSession, Closing,
     rowVars
<1>2. \A d \in Request \ {c} :
         pc'[d] = pc[d] /\ arg'[d] = arg[d] /\ why'[d] = why[d]
  BY DEF UploadInv, TypeOK, RequestTypes, SetUploaded, CloseSession,
     ReplyRetry, Leave, Goto, localVars
<1>3. \A q \in Photo \ {arg[c]} : /\ status'[q] = status[q]
                                  /\ sha'[q] = sha[q]
                                  /\ session'[q] = session[q]
  BY DEF UploadInv, TypeOK, StoredTypes, SetUploaded, CloseSession,
     SetSessionState, rowVars, sessionVars
<1>4. CASE UNCHANGED <<rowVars, session>>
  BY <1>1, <1>2, <1>4, RequestCare DEF Unsettled, rowVars
<1>5. CASE ~UNCHANGED <<rowVars, session>>
  <2>1. sha'[arg[c]] # None \/ status'[arg[c]] = "purged"
    <3>1. CASE SetUploaded(c)
      <4>1. sha' = [sha EXCEPT ![arg[c]] = got[c]] /\ pc[c] = "set"
        BY <1>5, <3>1 DEF SetUploaded, sessionVars
      <4>2. got[c] # None
        BY <4>1, UploadAssumption DEF UploadInv, LocalsKnown
      <4> QED
        BY <1>1, <4>1, <4>2 DEF UploadInv, TypeOK, StoredTypes
    <3>2. CASE CloseSession(c)
      BY <3>2 DEF CloseSession, LossInv, SeenIsCarried, Carried, rowVars
    <3> QED
      BY <3>1, <3>2
  <2>2. UNCHANGED arg
    BY <1>5 DEF SetUploaded, CloseSession, Goto, sessionVars
  <2>3. Unsettled(arg[c])' => Cared(arg[c])'
    BY <1>1, <2>1, <2>2 DEF Unsettled, Cared, Stuck
  <2>4. \A q \in Photo : Unsettled(q)' =>
           \/ Cared(q)'
           \/ /\ Unsettled(q) /\ status'[q] = status[q]
              /\ session'[q] = session[q] /\ sha'[q] = sha[q]
    BY <1>1, <1>3, <2>2, <2>3 DEF Unsettled, Cared, Stuck
  <2> QED
    BY <1>1, <1>2, <2>4, RequestCare
<1> QED
  BY <1>4, <1>5

\* Giving up: the request that has ended the session fails or deletes the row.
LEMMA GivingUpCare ==
    ASSUME UploadInv, LossInv, InCare, ~Mishap, NEW c \in Request,
           \/ EndSession(c) \/ FailRow(c) \/ PurgeRow(c)
           \/ DropObject(c) /\ why[c] = "duplicate"
    PROVE  InCare'
<1>1. arg[c] \in Photo /\ UNCHANGED reapVars
  BY DEF UploadInv, TypeOK, RequestTypes, EndSession, FailRow, PurgeRow,
     DropObject
<1>2. \A d \in Request \ {c} :
         pc'[d] = pc[d] /\ arg'[d] = arg[d] /\ why'[d] = why[d]
  BY DEF UploadInv, TypeOK, RequestTypes, EndSession, FailRow, PurgeRow,
     DropObject, Reply, Leave, Goto, localVars
<1>3. \A q \in Photo \ {arg[c]} : /\ status'[q] = status[q]
                                  /\ sha'[q] = sha[q]
                                  /\ session'[q] = session[q]
                                  /\ q \in live' <=> q \in live
  BY <1>1 DEF UploadInv, TypeOK, StoredTypes, EndSession, FailRow, PurgeRow,
     DropObject, SetSessionState, MarkPhotoFailed, Withdrawn, rowVars,
     sessionVars
<1>4. ASSUME UNCHANGED mishaps, mishaps = 0, NEW q \in Photo, Unsettled(q)',
             q # arg[c]
      PROVE  Cared(q)'
  <2>1. Unsettled(q) /\ Cared(q)
    BY <1>3, <1>4 DEF InCare, Unsettled
  <2>2. CASE \E d \in Request : arg[d] = q /\ (pc[d] = "open" \/ Closing(d))
    BY <1>2, <1>4, <2>2 DEF Cared, Closing
  <2>3. CASE ~\E d \in Request : arg[d] = q /\ (pc[d] = "open" \/ Closing(d))
    BY <1>1, <1>3, <1>4, <2>1, <2>3 DEF Cared, Stuck, Unsettled, reapVars
  <2> QED
    BY <2>2, <2>3
<1>5. CASE EndSession(c) \/ (DropObject(c) /\ why[c] = "duplicate")
  <2>1. UNCHANGED <<mishaps, arg, why>>
    BY <1>5 DEF EndSession, DropObject, Goto, localVars
  <2>2. \/ pc'[c] = "fail"
        \/ pc'[c] \in {"drop", "purge"} /\ why[c] = "duplicate"
    BY <1>5 DEF UploadInv, TypeOK, RequestTypes, EndSession, DropObject, Goto
  <2>3. Cared(arg[c])'
    BY <2>1, <2>2 DEF Cared, Closing
  <2> QED
    BY <1>4, <2>1, <2>3 DEF InCare
<1>6. CASE FailRow(c) /\ MarkPhotoFailed(arg[c], ReasonOf(why[c])) /\
           UNCHANGED mishaps
  <2>1. arg' = arg
    BY <1>6 DEF FailRow, Goto
  <2>2. status'[arg[c]] = "failed" \/ arg[c] \notin live'
    BY <1>1, <1>6 DEF UploadInv, TypeOK, StoredTypes, LossInv, RowsAsSent,
       MarkPhotoFailed
  <2>3. \A q \in Photo : Unsettled(q)' => q # arg[c]
    BY <2>2 DEF Unsettled
  <2> QED
    BY <1>4, <1>6, <2>3 DEF InCare
<1>7. CASE PurgeRow(c)
  <2>1. arg[c] \notin live' /\ UNCHANGED mishaps
    BY <1>7 DEF PurgeRow, Withdrawn
  <2>2. \A q \in Photo : Unsettled(q)' => q # arg[c]
    BY <2>1 DEF Unsettled
  <2> QED
    BY <1>4, <2>1, <2>2 DEF InCare
<1> QED
  BY <1>5, <1>6, <1>7 DEF FailRow

\* What a worker takes is found again, and what it leaves is settled.
LEMMA WorkerCare ==
    ASSUME UploadInv, LossInv, InCare, NEW p \in Photo, Claim(p) \/ Settle(p)
    PROVE  InCare'
<1>1. UNCHANGED <<sha, live, session, pc, arg, why, reapVars, mishaps>>
  BY DEF Claim, Settle, MarkPhotoFailed, sessionVars, localVars, rowVars
<1>2. p \in queued \cup working
  BY DEF Claim, Settle, Take, Skip, Finish
<1>3. \A q \in Photo \ {p} : status'[q] = status[q]
  BY DEF UploadInv, TypeOK, StoredTypes, Claim, Settle, MarkPhotoFailed,
     rowVars
<1>4. CASE status'[p] = status[p]
  BY <1>1, <1>3, <1>4, OthersCare DEF Unsettled, reapVars
<1>5. CASE status'[p] = "processing"
  <2>1. sha[p] # None
    BY <1>1, <1>2, <1>5 DEF UploadInv, TypeOK, StoredTypes, LossInv,
       TakenIsCarried, RowsAsSent, Carried, Exists, Claim, Settle,
       MarkPhotoFailed, rowVars
  <2>2. Unsettled(p)' => Cared(p)'
    BY <1>1, <1>5, <2>1 DEF Unsettled, Cared, Stuck
  <2> QED
    BY <1>1, <1>3, <2>2, OthersCare DEF Unsettled, reapVars
<1>6. CASE status'[p] \notin {"pending", "processing"}
  BY <1>1, <1>3, <1>6, OthersCare DEF Unsettled, reapVars
<1>7. status'[p] \in {status[p], "processing", "ready", "failed"}
  BY DEF UploadInv, TypeOK, StoredTypes, Claim, Settle, MarkPhotoFailed,
     rowVars
<1> QED
  BY <1>4, <1>5, <1>6, <1>7

\* The reaper fails the row whose session it has ended.
LEMMA ReapCare ==
    ASSUME UploadInv, LossInv, InCare, ~Mishap, Reap
    PROVE  InCare'
<1>1. UNCHANGED <<sha, live, pc, arg, why, mishaps>>
  BY DEF Reap, ReapScan, ReapSession, ReapRow, ReapObject, MarkPhotoFailed,
     localVars, rowVars
<1>2. CASE ReapScan \/ ReapObject
  <2>1. /\ UNCHANGED <<rowVars, session>>
        /\ reaping = None \/ rstep = "drop" \/ UNCHANGED <<reaping, rstep>>
    BY <1>2 DEF ReapScan, ReapObject, sessionVars
  <2>2. \A p \in Photo : reaping = p /\ rstep = "fail" =>
                            reaping' = p /\ rstep' = "fail"
    BY <2>1, UploadAssumption
  <2> QED
    BY <1>1, <2>1, <2>2, OthersCare DEF Unsettled, rowVars
<1>3. CASE ReapSession
  <2>1. PICK p \in Photo : SetSessionState(p, "expired") /\
               reaping' = IF session[p] = "issued" THEN p ELSE None
    BY <1>3 DEF UploadInv, TypeOK, StoredTypes, ReapSession
  <2>2. /\ reaping = None /\ rstep' = "fail"
        /\ UNCHANGED rowVars
    BY <1>3 DEF ReapSession
  <2>3. \A q \in Photo \ {p} : session'[q] = session[q]
    BY <2>1 DEF UploadInv, TypeOK, StoredTypes, SetSessionState
  <2>4. session'[p] = session[p] \/ Cared(p)'
    BY <2>1, <2>2 DEF SetSessionState, Cared
  <2>5. \A q \in Photo : reaping # q
    BY <2>2, UploadAssumption
  <2> QED
    BY <1>1, <2>2, <2>3, <2>4, <2>5, OthersCare DEF Unsettled, rowVars
<1>4. CASE ReapRow
  <2>1. /\ MarkPhotoFailed(reaping, "incomplete")
        /\ reaping \in Photo /\ UNCHANGED session
    BY <1>4 DEF UploadInv, TypeOK, StoredTypes, ReapRow, sessionVars
  <2>2. status'[reaping] = "failed" \/ reaping \notin live'
    BY <1>1, <2>1 DEF UploadInv, TypeOK, StoredTypes, LossInv, RowsAsSent,
       MarkPhotoFailed
  <2>3. \A q \in Photo \ {reaping} : status'[q] = status[q]
    BY <2>1 DEF UploadInv, TypeOK, StoredTypes, MarkPhotoFailed
  <2>4. \A q \in Photo : Unsettled(q)' => q # reaping
    BY <2>2 DEF Unsettled
  <2> QED
    BY <1>1, <2>1, <2>3, <2>4, OthersCare DEF Unsettled
<1> QED
  BY <1>2, <1>3, <1>4 DEF Reap

LEMMA CareStep ==
    UploadInv /\ LossInv /\ InCare /\ [Next]_vars => InCare'
<1> SUFFICES ASSUME UploadInv, LossInv, InCare, [Next]_vars
             PROVE  InCare'
  OBVIOUS
<1>1. ASSUME NEW c \in Request,
             \/ Presign(c) \/ OpenSession(c) \/ (\E p \in Photo : Confirm(c, p))
             \/ ConfirmStep(c) \/ Abandon(c)
      PROVE  InCare'
  <2>1. CASE Mishap
    BY <2>1, MishapCare
  <2>2. CASE ~Mishap
    BY <1>1, <2>2, StartCare, PassingCare, RecordedCare, GivingUpCare
       DEF ConfirmStep, Reading, Abandon
  <2> QED
    BY <2>1, <2>2
<1>2. ASSUME NEW p \in Photo,
             Put(p) \/ Expire(p) \/ Hide(p) \/ Claim(p) \/ Settle(p)
      PROVE  InCare'
  <2>1. CASE Put(p) \/ Expire(p)
    <3>1. UNCHANGED <<rowVars, session, pc, arg, why, reapVars, mishaps>>
      BY <2>1 DEF Put, Expire, localVars
    <3> QED
      BY <3>1, OthersCare DEF Unsettled, rowVars, reapVars
  <2> QED
    BY <1>2, <2>1, WorkerCare, MishapCare DEF Hide
<1>3. CASE Rescan \/ UNCHANGED vars
  <2>1. UNCHANGED <<rowVars, session, pc, arg, why, reapVars, mishaps>>
    BY <1>3 DEF Rescan, vars, sessionVars, localVars
  <2> QED
    BY <2>1, OthersCare DEF Unsettled, rowVars, reapVars
<1> QED
  BY <1>1, <1>2, <1>3, ReapCare, MishapCare DEF Next, Crash

\* However many requests confirm a photo at a time: as long as nothing fails,
\* no upload is ever left in a state nobody looks at again.
THEOREM UploadsInCare == Spec => []InCare
<1>1. Init => InCare
  BY DEF Init, InCare, Unsettled
<1>2. UploadInv /\ LossInv /\ InCare /\ [Next]_vars => InCare'
  BY CareStep
<1> QED
  BY <1>1, <1>2, UploadInvariant, UploadLossInvariant, PTL DEF Spec
===============================================================================
