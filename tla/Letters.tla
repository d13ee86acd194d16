------------------------------ MODULE Letters -------------------------------
(***************************************************************************)
(* Letters that open at a date (service/letters.go, store/letters.go).     *)
(*                                                                         *)
(* A visitor's request takes the time when it starts and the row later;    *)
(* the first reading is marked in a statement after that.  The owner may   *)
(* meanwhile change the letter, and PatchLetter writes back everything it  *)
(* read.  Of the fields only the delivery date is kept: it decides who may *)
(* read the letter.                                                        *)
(***************************************************************************)
EXTENDS Naturals, Absent

CONSTANTS
    Letter,
    Visitor,    \* public GET /letters/{id}: reads, and marks the reading
    Owner,      \* PATCH requests
    MaxMoment   \* bound on the clock

ASSUME LettersAssumption ==
    /\ MaxMoment \in Nat
    /\ None \notin Nat
    /\ None \notin [deliver : 0..MaxMoment, live : BOOLEAN,
                    read : 0..MaxMoment \cup {None}]

VARIABLES
    letter,     \* the table of letters: a row or None
    moment,     \* the clock
    visit,      \* what each visitor is doing
    edit,       \* what each PATCH request is about to write, or None
    promised    \* history: the date the owner last asked for by name, or
                \* None once a stale request has overwritten it

lettersVars == <<letter, moment, visit, edit, promised>>

Moment == 0..MaxMoment

LettersTypeOK ==
    /\ letter \in [Letter -> [deliver : Moment, live : BOOLEAN,
                              read : Moment \cup {None}] \cup {None}]
    /\ moment \in Moment
    /\ visit \in [Visitor -> [step : {"asked", "read"}, letter : Letter,
                              at : Moment] \cup {None}]
    /\ edit \in [Owner -> [letter : Letter, deliver : Moment,
                           named : BOOLEAN, stale : BOOLEAN] \cup {None}]
    /\ promised \in [Letter -> Moment \cup {None}]

LettersInit ==
    /\ letter = [l \in Letter |-> None]
    /\ moment = 0
    /\ visit = [v \in Visitor |-> None]
    /\ edit = [o \in Owner |-> None]
    /\ promised = [l \in Letter |-> None]

InBox(l) == letter[l] # None /\ letter[l].live

-----------------------------------------------------------------------------
(* The owner *)

\* Without a date the letter is delivered at once, which is d = moment.
CreateLetter(l, d) ==
    /\ letter[l] = None
    /\ letter' = [letter EXCEPT ![l] =
                     [deliver |-> d, live |-> TRUE, read |-> None]]
    /\ promised' = [promised EXCEPT ![l] = d]
    /\ UNCHANGED <<moment, visit, edit>>

\* PatchLetter reads the row; d is None when the request names no date.
ReadForEdit(o, l, d) ==
    /\ edit[o] = None
    /\ InBox(l)
    /\ edit' = [edit EXCEPT ![o] =
                   [letter |-> l, named |-> d # None, stale |-> FALSE,
                    deliver |-> IF d = None THEN letter[l].deliver ELSE d]]
    /\ UNCHANGED <<letter, moment, visit, promised>>

\* Mutated form of Rewritten: the update starts the letter afresh.
RewrittenUnread(l, d) == [letter[l] EXCEPT !.deliver = d, !.read = None]

\* UpdateLetter leaves the mark of the first reading alone.
Rewritten(l, d) == [letter[l] EXCEPT !.deliver = d]

\* UpdateLetter writes everything that was read and merged.
WriteEdit(o) ==
    LET l == edit[o].letter IN
    /\ edit[o] # None
    /\ InBox(l)
    /\ letter' = [letter EXCEPT ![l] = Rewritten(l, edit[o].deliver)]
    /\ promised' = [promised EXCEPT ![l] =
                       IF edit[o].named THEN edit[o].deliver
                       ELSE IF edit[o].stale THEN None ELSE @]
    /\ edit' = [q \in Owner |->
                   IF q = o THEN None
                   ELSE IF edit[q] # None /\ edit[q].letter = l
                        THEN [edit[q] EXCEPT !.stale = TRUE]
                        ELSE edit[q]]
    /\ UNCHANGED <<moment, visit>>

\* The letter is gone, or the statement fails.
EditRefused(o) ==
    /\ edit[o] # None
    /\ edit' = [edit EXCEPT ![o] = None]
    /\ UNCHANGED <<letter, moment, visit, promised>>

DeleteLetter(l) ==
    /\ InBox(l)
    /\ letter' = [letter EXCEPT ![l].live = FALSE]
    /\ UNCHANGED <<moment, visit, edit, promised>>

-----------------------------------------------------------------------------
(* Visitors *)

\* GetLetter takes the time first.
AskForLetter(v, l) ==
    /\ visit[v] = None
    /\ visit' = [visit EXCEPT ![v] =
                    [step |-> "asked", letter |-> l, at |-> moment]]
    /\ UNCHANGED <<letter, moment, edit, promised>>

\* Mutated form of Delivered: the public request uses the owner's query.
DeliveredAlways(l, at) == InBox(l)

\* deliver_at <= until: a letter that is not due does not leave the database.
Delivered(l, at) == InBox(l) /\ letter[l].deliver <= at

\* The letter is in the visitor's hands, still to be marked.
ReadLetter(v) ==
    /\ visit[v] # None /\ visit[v].step = "asked"
    /\ Delivered(visit[v].letter, visit[v].at)
    /\ letter[visit[v].letter].read = None
    /\ visit' = [visit EXCEPT ![v].step = "read"]
    /\ UNCHANGED <<letter, moment, edit, promised>>

\* It has been read before and needs no mark.
ReadAgain(v) ==
    /\ visit[v] # None /\ visit[v].step = "asked"
    /\ Delivered(visit[v].letter, visit[v].at)
    /\ letter[visit[v].letter].read # None
    /\ visit' = [visit EXCEPT ![v] = None]
    /\ UNCHANGED <<letter, moment, edit, promised>>

LetterNotFound(v) ==
    /\ visit[v] # None /\ visit[v].step = "asked"
    /\ ~Delivered(visit[v].letter, visit[v].at)
    /\ visit' = [visit EXCEPT ![v] = None]
    /\ UNCHANGED <<letter, moment, edit, promised>>

\* Mutated form of MarkRow: the mark goes on whatever is there already.
MarkRowAgain(l, at) ==
    IF InBox(l) THEN [letter EXCEPT ![l].read = at] ELSE letter

\* MarkLetterRead: read_at IS NULL AND deleted_at IS NULL.
MarkRow(l, at) ==
    IF InBox(l) /\ letter[l].read = None
    THEN [letter EXCEPT ![l].read = at] ELSE letter

MarkLetterRead(v) ==
    /\ visit[v] # None /\ visit[v].step = "read"
    /\ letter' = MarkRow(visit[v].letter, visit[v].at)
    /\ visit' = [visit EXCEPT ![v] = None]
    /\ UNCHANGED <<moment, edit, promised>>

LetterTick ==
    /\ moment < MaxMoment
    /\ moment' = moment + 1
    /\ UNCHANGED <<letter, visit, edit, promised>>

-----------------------------------------------------------------------------

LettersNext ==
    \/ \E l \in Letter : (\E d \in Moment : CreateLetter(l, d))
                            \/ DeleteLetter(l)
    \/ \E o \in Owner :
         \/ \E l \in Letter, d \in Moment \cup {None} : ReadForEdit(o, l, d)
         \/ WriteEdit(o)
         \/ EditRefused(o)
    \/ \E v \in Visitor :
         \/ \E l \in Letter : AskForLetter(v, l)
         \/ ReadLetter(v)
         \/ ReadAgain(v)
         \/ LetterNotFound(v)
         \/ MarkLetterRead(v)
    \/ LetterTick

LettersSpec == LettersInit /\ [][LettersNext]_lettersVars

-----------------------------------------------------------------------------
(* What the letter box promises *)

\* A visitor holds a letter only when the date the owner last asked for by
\* name has come, unless a patch that read the letter before that request
\* was written after it and put the older date back (letters.go:160-189).
NoLetterEarly ==
    [][\A v \in Visitor : ReadLetter(v) \/ ReadAgain(v) =>
         LET l == visit[v].letter IN
         promised[l] # None => promised[l] <= moment]_lettersVars

\* Once a letter carries the mark of its first reading, no second reader who
\* found it unread and no patch changes the mark (store/letters.go:107).
FirstReadStays ==
    [][\A l \in Letter :
         (letter[l] # None /\ letter[l].read # None)
            => letter'[l].read = letter[l].read]_lettersVars
=============================================================================
