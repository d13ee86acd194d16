------------------------------ MODULE MCImport ------------------------------
(***************************************************************************)
(* The command line tool and the limit on its requests, for TLC: a token   *)
(* bucket, the runs of an import, its planning, and exports.               *)
(*                                                                         *)
(* The modules share no variable, so no interleaving of their steps shows  *)
(* more than each of them alone: `part` names the one that moves and the   *)
(* others rest in an initial state.                                        *)
(***************************************************************************)
EXTENDS RateLimit, Importer, Planning, Export, TLC

CONSTANTS c1, c2, k1, k2, k3, f1, f2, f3, s1, s2, p1, p2

VARIABLE part

\* A group with one picture in two files, and a group whose title has a blank
\* that the server drops.
MCGroups == <<<<f1, f2>>, <<f3>>>>

MCKeyAt == <<k1, k2>>

MCTrimmed == k1 :> k1 @@ k2 :> k3

\* The lost answers that matter are those for the title that is kept.
MCMaxLost == k1 :> 1 @@ k2 :> 0

MCContentOf == f1 :> s1 @@ f2 :> s1 @@ f3 :> s2

MCAttempts == [c \in {"upload", "presign", "put", "confirm"} |-> 2]

\* A directory may have the name that a day makes.
MCDayTitle == 1 :> "d1" @@ 2 :> "d2"

MCSizeOf == p1 :> 1 @@ p2 :> 2

MCCaption == {[stem |-> "c", ext |-> ".jpg"]}

\* One photo has a caption, the other may have the same or none.
MCListing ==
    LET one   == [shot : {p1}, caption : Caption, words : {None, s2}]
        other == [shot : {p2}, caption : Caption \cup {None},
                  words : {None, s2}]
    IN {<<>>} \cup {<<i>> : i \in one \cup other}
         \cup {<<i, j>> : i \in one, j \in other}
         \cup {<<j, i>> : i \in one, j \in other}

vars == <<part, rateVars, importVars, planVars, exportVars>>

Init ==
    /\ part \in {"bucket", "import", "plan", "export"}
    /\ RateInit /\ ImporterInit /\ PlanningInit /\ ExportInit
    /\ part # "import" => mode = "local"
    /\ part # "plan" => grouping = "auto"

BucketPart ==
    /\ part = "bucket"
    /\ RateNext
    /\ UNCHANGED <<part, importVars, planVars, exportVars>>

ImportPart ==
    /\ part = "import"
    /\ ImporterNext
    /\ UNCHANGED <<part, rateVars, planVars, exportVars>>

PlanPart ==
    /\ part = "plan"
    /\ PlanningNext
    /\ UNCHANGED <<part, rateVars, importVars, exportVars>>

ExportPart ==
    /\ part = "export"
    /\ ExportNext
    /\ UNCHANGED <<part, rateVars, importVars, planVars>>

Next == BucketPart \/ ImportPart \/ PlanPart \/ ExportPart

Spec == Init /\ [][Next]_vars

\* The type invariant of each module, for the part that moves.
TypeOK ==
    /\ part = "bucket" => RateTypeOK
    /\ part = "import" => ImporterTypeOK
    /\ part = "plan" => PlanningTypeOK
    /\ part = "export" => ExportTypeOK
=============================================================================
