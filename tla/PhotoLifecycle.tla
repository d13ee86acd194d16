--------------------------- MODULE PhotoLifecycle ---------------------------
(***************************************************************************)
(* What the processing pipeline promises about one photo, as its owner     *)
(* sees it on the timeline or in the upload panel.  A photo that has been  *)
(* taken in is being developed until it is ready or has failed; a photo    *)
(* that is ready stays ready; a failed one is developed again only on      *)
(* request; and a photo that is not in the trash is not developed forever. *)
(* Workers, queues, crashes and recovery scans are all invisible here.     *)
(***************************************************************************)
CONSTANT Photo

VARIABLES
    state,      \* "absent", "developing", "ready" or "failed"
    shown       \* the photos that exist and are not in the trash

lifeVars == <<state, shown>>

LifeTypeOK ==
    /\ state \in [Photo -> {"absent", "developing", "ready", "failed"}]
    /\ shown \subseteq Photo

LifeInit ==
    /\ state = [p \in Photo |-> "absent"]
    /\ shown = {}

\* The server acknowledges an upload.
Accept(p) ==
    /\ state[p] = "absent"
    /\ state' = [state EXCEPT ![p] = "developing"]
    /\ shown' = shown \cup {p}

\* Development ends, one way or the other; the photo may be in the trash.
Settle(p) ==
    /\ state[p] = "developing"
    /\ \E s \in {"ready", "failed"} : state' = [state EXCEPT ![p] = s]
    /\ UNCHANGED shown

\* The owner retries a failed photo.
Retry(p) ==
    /\ state[p] = "failed"
    /\ p \in shown
    /\ state' = [state EXCEPT ![p] = "developing"]
    /\ UNCHANGED shown

\* The owner moves a photo to the trash or takes it out.
Hide(p) == p \in shown /\ shown' = shown \ {p} /\ UNCHANGED state

Show(p) ==
    /\ state[p] # "absent"
    /\ p \notin shown
    /\ shown' = shown \cup {p}
    /\ UNCHANGED state

LifeNext ==
    \E p \in Photo : Accept(p) \/ Settle(p) \/ Retry(p) \/ Hide(p) \/ Show(p)

LifeSpec == LifeInit /\ [][LifeNext]_lifeVars

\* The promise of progress: no photo in sight is developed forever.
LifeProgress ==
    \A p \in Photo :
        (p \in shown /\ state[p] = "developing")
            ~> (p \notin shown \/ state[p] \in {"ready", "failed"})
=============================================================================
