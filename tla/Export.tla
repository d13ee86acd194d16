------------------------------- MODULE Export -------------------------------
(***************************************************************************)
(* sgctl export: one node laid out as a directory of photos with a text    *)
(* beside each (importer/export.go).                                       *)
(*                                                                         *)
(* A run takes the photos of the node as they are listed, reuses a file of *)
(* the right name and size, downloads the others next to it and renames    *)
(* them, and writes the text.  It may stop at any point and be run again   *)
(* over what it left; what the owner has reordered, renamed, annotated,    *)
(* added or deleted meanwhile is in the list that the next run begins      *)
(* with.                                                                   *)
(***************************************************************************)
EXTENDS Naturals, FiniteSets, Sequences, Absent

CONSTANTS
    Shot,       \* the ready photos
    SizeOf,     \* the size of each original
    Caption,    \* captions: [stem, ext], ext is ".jpg" when it names none
    Words,      \* dates and notes that go beside a photo with its caption
    Listing     \* the lists of photos that the node may have

ASSUME ExportAssumption ==
    /\ IsFiniteSet(Shot)
    /\ Caption \subseteq [stem : {c.stem : c \in Caption},
                          ext : {".jpg", ".txt"}]
    /\ None \notin Caption \cup Words

VARIABLES
    disk,       \* the files of the directory: name -> content, or None
    export      \* the run: what it listed, how far it is

exportVars == <<disk, export>>

\* A photo as it is listed.
Item == [shot : Shot, caption : Caption \cup {None},
         words : Words \cup {None}]

ASSUME ListingAssumption ==
    \A items \in Listing :
        /\ items \in Seq(Item)
        /\ \A i, j \in DOMAIN items : items[i].shot = items[j].shot => i = j

\* A name is the number in the node, the stem and the extension.
Name == (1..Cardinality(Shot)) \X ({c.stem : c \in Caption} \cup Shot)
           \X {".jpg", ".txt"}

\* Files: an original, a text, or a text cut off half way.
Original(p) == [is |-> "photo", of |-> p]
Text(item) == [is |-> "text", of |-> <<item.caption, item.words>>]
HalfText == [is |-> "half"]

Content == {Original(p) : p \in Shot} \cup {Text(i) : i \in Item}
              \cup {HalfText}

ExportTypeOK ==
    /\ disk \in [Name -> Content \cup {None}]
    /\ export \in [step : {"off", "look", "rename", "text", "done"},
                   items : Listing \cup {<<>>},
                   at : 1..(Cardinality(Shot) + 1)]

ExportInit ==
    /\ disk = [n \in Name |-> None]
    /\ export = [step |-> "off", items |-> <<>>, at |-> 1]

-----------------------------------------------------------------------------
(* The run *)

\* photoBaseName: the number keeps the names of a directory apart, the id
\* stands in for a missing caption.
BaseName(i, item) ==
    IF item.caption = None THEN <<i, item.shot, ".jpg">>
    ELSE <<i, item.caption.stem, item.caption.ext>>

TextName(i, item) == <<BaseName(i, item)[1], BaseName(i, item)[2], ".txt">>

\* photoText is empty.
Mute(item) == item.caption = None /\ item.words = None

Here == export.items[export.at]

HereBase == BaseName(export.at, Here)

HereText == TextName(export.at, Here)

StartExport(items) ==
    /\ export.step \in {"off", "done"}
    /\ export' = [step |-> "look", at |-> 1, items |-> items]
    /\ UNCHANGED disk

\* Mutated form of RightSize: any file of that name will do.
RightSizeAny == disk[HereBase] # None

\* A file of that name and of the size of the photo.
RightSize ==
    /\ disk[HereBase] # None
    /\ disk[HereBase].is = "photo"
    /\ SizeOf[disk[HereBase].of] = SizeOf[Here.shot]

Reuse ==
    /\ export.step = "look" /\ export.at <= Len(export.items)
    /\ RightSize
    /\ export' = [export EXCEPT !.step = "text"]
    /\ UNCHANGED disk

\* The original is complete in the .part file.  A download that breaks off
\* leaves no file and ends the run.
Download ==
    /\ export.step = "look" /\ export.at <= Len(export.items)
    /\ ~RightSize
    /\ export' = [export EXCEPT !.step = "rename"]
    /\ UNCHANGED disk

RenamePart ==
    /\ export.step = "rename"
    /\ disk' = [disk EXCEPT ![HereBase] = Original(Here.shot)]
    /\ export' = [export EXCEPT !.step = "text"]

\* writePhotoText: the text, or none where there is nothing to say.
WriteText ==
    /\ export.step = "text"
    /\ disk' = [disk EXCEPT ![HereText] =
                   IF Mute(Here) THEN None ELSE Text(Here)]
    /\ export' = [export EXCEPT !.step = "look", !.at = @ + 1]

FinishExport ==
    /\ export.step = "look" /\ export.at > Len(export.items)
    /\ export' = [export EXCEPT !.step = "done"]
    /\ UNCHANGED disk

\* A call fails for good, or the process is killed.
ExportStops ==
    /\ export.step \in {"look", "rename", "text"}
    /\ export' = [step |-> "off", items |-> <<>>, at |-> 1]
    /\ UNCHANGED disk

\* ... in the middle of writing a text.
StopsInText ==
    /\ export.step = "text"
    /\ ~Mute(Here)
    /\ disk' = [disk EXCEPT ![HereText] = HalfText]
    /\ export' = [step |-> "off", items |-> <<>>, at |-> 1]

-----------------------------------------------------------------------------

ExportNext ==
    \/ \E items \in Listing : StartExport(items)
    \/ Reuse
    \/ Download
    \/ RenamePart
    \/ WriteText
    \/ FinishExport
    \/ ExportStops
    \/ StopsInText

ExportSpec == ExportInit /\ [][ExportNext]_exportVars

-----------------------------------------------------------------------------
(* What an export promises *)

\* A run that ends leaves every photo it listed under its number and caption
\* as the original, with its words of that time beside it and no words where
\* it has none, whatever earlier runs left behind, broken off or not
\* (export.go:108-128, 162-189).  Photos of equal size that change places are
\* beyond it: a file is reused by its size.
ExportFaithful ==
    export.step = "done" =>
        \A i \in 1..Len(export.items) :
            LET item == export.items[i] IN
            /\ disk[BaseName(i, item)] = Original(item.shot)
            /\ disk[TextName(i, item)] = IF Mute(item) THEN None
                                        ELSE Text(item)
=============================================================================
