----------------------------- MODULE Retrieval -----------------------------
(***************************************************************************)
(* What the tap on RevealCard relies on: retrieveTodaysFlic looks like one *)
(* step.  It puts a photo with an image in the view, leaves the view as it *)
(* was, or ends the process; the draws and requests in between are seen by *)
(* nobody.  It may also take for ever.                                     *)
(***************************************************************************)

VARIABLES
    readable,      \* the photos the app may draw from
    deliverable,   \* those of them that have an image on the phone
    state,         \* has the call returned?
    photo          \* the photo in the view

retrievalVars == <<readable, deliverable, state, photo>>

RetrievalInit ==
    /\ deliverable \subseteq readable
    /\ state = "pending"

Return(p) ==
    /\ state = "pending"
    /\ state' = "returned"
    /\ photo' = p
    /\ UNCHANGED <<readable, deliverable>>

Show == \E p \in deliverable : Return(p)

Keep == readable = {} /\ Return(photo)

Trapped ==
    /\ state = "pending"
    /\ deliverable = {}
    /\ \E p \in readable : readable = {p}
    /\ state' = "trapped"
    /\ UNCHANGED <<readable, deliverable, photo>>

RetrievalNext == Show \/ Keep \/ Trapped

RetrievalSpec == RetrievalInit /\ [][RetrievalNext]_retrievalVars
=============================================================================
