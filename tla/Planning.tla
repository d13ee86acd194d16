------------------------------ MODULE Planning ------------------------------
(***************************************************************************)
(* The plan of an import: which files go to which node (importer/scan.go,  *)
(* manifest.go, emit.go).                                                  *)
(*                                                                         *)
(* A plan is made from the tree of files and the shiguang.txt sheets in    *)
(* it, each time anew.  A node is found again by its date and title, and   *)
(* the date of a group is that of its earliest file: a file added later    *)
(* may change it.  `sgctl import --emit-manifest` writes sheets that hold  *)
(* on to date and title.                                                   *)
(***************************************************************************)
EXTENDS Naturals, FiniteSets, Absent

CONSTANTS
    Pick,       \* the files that may be in the tree
    Top,        \* names of the directories of the first level
    Day,        \* days, numbers
    DayTitle,   \* the title that a day makes
    Title,      \* titles a sheet may give
    Grouping    \* the --group modes that are checked

Root == ""
Loose == "loose"        \* the title of files in the root
Single == "single"      \* the title given on the command line

\* The titles a plan makes by itself.
MadeTitle == Top \cup {DayTitle[d] : d \in Day} \cup {Loose, Single}

ASSUME PlanningAssumption ==
    /\ Day \subseteq Nat
    /\ DOMAIN DayTitle = Day
    /\ Root \notin Top
    /\ "__root__" \notin Top
    /\ Grouping \subseteq {"auto", "folder", "date", "single"}
    /\ None \notin Day
    /\ None \notin Title
    /\ None \notin Top \cup {Root}
    /\ None \notin [date : Day, title : MadeTitle]

VARIABLES
    grouping,   \* the mode of all runs
    tree,       \* the files: directory of the first level and day, or None
    sheet,      \* the sheets: date and title of each, or None
    settled     \* history: the node of each file when sheets were emitted

planVars == <<grouping, tree, sheet, settled>>

Dir == Top \cup {Root}

Sheet == [date : Day \cup {None}, title : Title \cup {None}]

PlanningTypeOK ==
    /\ grouping \in Grouping
    /\ tree \in [Pick -> [top : Dir, day : Day] \cup {None}]
    /\ DOMAIN sheet = Dir
    /\ \A d \in Dir : sheet[d] # None => DOMAIN sheet[d] = {"date", "title"}
    /\ DOMAIN settled = Pick

PlanningInit ==
    /\ grouping \in Grouping
    /\ tree = [f \in Pick |-> None]
    /\ sheet = [d \in Dir |-> None]
    /\ settled = [f \in Pick |-> None]

-----------------------------------------------------------------------------
(* Plan *)

Scanned == {f \in Pick : tree[f] # None}

ByDay(f) == grouping = "date" \/ (grouping = "auto" /\ tree[f].top = Root)

\* The key under which Plan collects a file.
GroupKey(f) ==
    IF grouping = "single" THEN [by |-> "all", dir |-> Root, day |-> None]
    ELSE IF ByDay(f) THEN [by |-> "day", dir |-> Root, day |-> tree[f].day]
    ELSE [by |-> "dir", dir |-> tree[f].top, day |-> None]

\* The files that go with f.
Group(f) == {h \in Scanned : GroupKey(h) = GroupKey(f)}

\* The day of the earliest file.
Earliest(files) ==
    CHOOSE d \in {tree[h].day : h \in files} : \A h \in files : d <= tree[h].day

DerivedTitle(f) ==
    IF grouping = "single" THEN Single
    ELSE IF ByDay(f) THEN DayTitle[tree[f].day]
    ELSE IF grouping = "folder" /\ tree[f].top = Root THEN Loose
    ELSE tree[f].top

-----------------------------------------------------------------------------
(* ApplyManifests *)

\* Mutated form of Anchor: loose files have no directory in any mode.
AnchorTopOnly(files) ==
    IF grouping = "single" THEN Root
    ELSE IF grouping = "date" THEN None
    ELSE IF \E d \in Top : \A h \in files : tree[h].top = d
         THEN CHOOSE d \in Top : \A h \in files : tree[h].top = d
    ELSE None

\* groupAnchors: the directory whose sheet speaks for the group.
Anchor(files) ==
    IF grouping = "single" THEN Root
    ELSE IF grouping = "date" THEN None
    ELSE IF \E d \in Top : \A h \in files : tree[h].top = d
         THEN CHOOSE d \in Top : \A h \in files : tree[h].top = d
    ELSE IF grouping = "folder" /\ \A h \in files : tree[h].top = Root
         THEN Root
    ELSE None

SheetOf(files) ==
    IF Anchor(files) = None THEN None ELSE sheet[Anchor(files)]

\* The date and title of the node a file goes to.
NodeKey(f) ==
    LET s == SheetOf(Group(f)) IN
    [date  |-> IF s # None /\ s.date # None THEN s.date
               ELSE Earliest(Group(f)),
     title |-> IF s # None /\ s.title # None THEN s.title
               ELSE DerivedTitle(f)]

-----------------------------------------------------------------------------
(* The user, and --emit-manifest *)

AddFile(f, d, day) ==
    /\ tree[f] = None
    /\ tree' = [tree EXCEPT ![f] = [top |-> d, day |-> day]]
    /\ UNCHANGED <<grouping, sheet, settled>>

\* The user writes or edits a sheet: what it speaks for is open again.
WriteSheet(d, s) ==
    /\ sheet' = [sheet EXCEPT ![d] = s]
    /\ settled' = [f \in Pick |->
                      IF f \in Scanned /\ Anchor(Group(f)) = d THEN None
                      ELSE settled[f]]
    /\ UNCHANGED <<grouping, tree>>

\* renderManifest: what the plan has derived.
Rendered(f) == [date |-> NodeKey(f).date, title |-> NodeKey(f).title]

\* A file keeps its node if its group goes by its own day, or if the sheet
\* that was written, or was there before, gives the date.
Holds(f) ==
    \/ Anchor(Group(f)) = None
    \/ sheet[Anchor(Group(f))] = None
    \/ sheet[Anchor(Group(f))].date # None

EmitManifests ==
    /\ sheet' = [d \in Dir |->
                    IF /\ sheet[d] = None
                       /\ \E f \in Scanned : Anchor(Group(f)) = d
                    THEN Rendered(CHOOSE f \in Scanned : Anchor(Group(f)) = d)
                    ELSE sheet[d]]
    /\ settled' = [f \in Pick |->
                      IF f \in Scanned /\ Holds(f) THEN NodeKey(f)
                      ELSE settled[f]]
    /\ UNCHANGED <<grouping, tree>>

-----------------------------------------------------------------------------

PlanningNext ==
    \/ \E f \in Pick, d \in Dir, day \in Day : AddFile(f, d, day)
    \/ \E d \in Dir, s \in Sheet \cup {None} : WriteSheet(d, s)
    \/ EmitManifests

PlanningSpec == PlanningInit /\ [][PlanningNext]_planVars

-----------------------------------------------------------------------------
(* What a plan promises *)

\* After sheets are emitted, a file keeps its node whatever files are added
\* around it, so that a repeated import finds the node again; only editing
\* its sheet, or a sheet without a date that was there before, undoes this
\* (emit.go:20-44, scan.go:236-243).
EmittedNodesStay ==
    \A f \in Pick : settled[f] # None => NodeKey(f) = settled[f]
=============================================================================
