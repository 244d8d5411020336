---------------------------- MODULE PhotoPicker ----------------------------
(***************************************************************************)
(* retrieveTodaysFlic: draws a random photo of the library, newest first   *)
(* up to the fetch limit, and asks the photo library for its image until   *)
(* one arrives.  A photo that is only in the cloud has none to deliver.    *)
(***************************************************************************)
EXTENDS Integers

CONSTANTS
    MaxCount,     \* bound: photos in the library
    FetchLimit    \* fetchOptions.fetchLimit (15000 in the code)

ASSUME PickerAssumption == MaxCount \in Nat /\ FetchLimit \in Nat \ {0}

VARIABLES
    authorized,   \* may the app read the library?
    count,        \* photos that are no screenshots
    available,    \* the indices whose image is on the phone
    pc,           \* where retrieveTodaysFlic is
    index,        \* the index drawn last
    shown         \* the index behind dailyImage and photoDateData

pickerVars == <<authorized, count, available, pc, index, shown>>

NoIndex == -1

\* fetchResult.count
fetched == IF count < FetchLimit THEN count ELSE FetchLimit

\* Int.random(in: 0..<fetched)
Draws == 0..(fetched - 1)

\* Mutant: the retry draws from a closed range.
RedrawsClosed == 1..fetched

\* Mutant: the retry keeps clear of one more photo.
RedrawsFromTwo == 2..(fetched - 1)

\* Int.random(in: 1..<fetched)
Redraws == 1..(fetched - 1)

PickerInit ==
    /\ authorized \in BOOLEAN
    /\ count \in 0..MaxCount
    /\ available \in SUBSET (0..(count - 1))
    /\ pc = "start"
    /\ index = 0
    /\ shown = NoIndex

\* Without access (which is asked for) or photos, the view stays as it is.
NothingToFetch == ~authorized \/ fetched = 0

GiveUp ==
    /\ pc = "start"
    /\ NothingToFetch
    /\ pc' = "done"
    /\ UNCHANGED <<authorized, count, available, index, shown>>

Draw ==
    /\ pc = "start"
    /\ ~NothingToFetch
    /\ index' \in Draws
    /\ pc' = "request"
    /\ UNCHANGED <<authorized, count, available, shown>>

\* The synchronous request delivers an image.
Deliver ==
    /\ pc = "request"
    /\ index \in available
    /\ shown' = index
    /\ pc' = "done"
    /\ UNCHANGED <<authorized, count, available, index>>

\* Mutant: the view takes over the photo before its image is looked at.
DeliverNilShown ==
    /\ pc = "request"
    /\ index \notin available
    /\ shown' = index
    /\ pc' = "redraw"
    /\ UNCHANGED <<authorized, count, available, index>>

\* It delivers nil, and another index is to be drawn ...
DeliverNil ==
    /\ pc = "request"
    /\ index \notin available
    /\ pc' = "redraw"
    /\ UNCHANGED <<authorized, count, available, index, shown>>

\* Mutant: the index drawn is not used.
RetrySticks(i) ==
    /\ pc = "redraw"
    /\ i \in Redraws
    /\ pc' = "request"
    /\ UNCHANGED <<authorized, count, available, index, shown>>

\* ... which is i ...
Retry(i) ==
    /\ pc = "redraw"
    /\ i \in Redraws
    /\ index' = i
    /\ pc' = "request"
    /\ UNCHANGED <<authorized, count, available, shown>>

\* ... or a runtime error, when the range is empty.
Trap ==
    /\ pc = "redraw"
    /\ Redraws = {}
    /\ pc' = "trapped"
    /\ UNCHANGED <<authorized, count, available, index, shown>>

PickerNext ==
    \/ GiveUp \/ Draw \/ Deliver \/ DeliverNil
    \/ \E i \in 1..(FetchLimit - 1) : Retry(i)
    \/ Trap

PickerSpec == PickerInit /\ [][PickerNext]_pickerVars

\* The loop runs on, and every index is drawn again and again.
FairPickerSpec ==
    /\ PickerSpec
    /\ WF_pickerVars(PickerNext)
    /\ \A i \in 1..(FetchLimit - 1) : SF_pickerVars(Retry(i))

----------------------------------------------------------------------------
(* Correctness                                                             *)

\* Type correctness; the index is one of the fetch result's, so that
\* object(at: index) is defined in the first and in every later request.
PickerTypeOK ==
    /\ authorized \in BOOLEAN
    /\ count \in Nat
    /\ available \subseteq 0..(count - 1)
    /\ pc \in {"start", "request", "redraw", "done", "trapped"}
    /\ pc = "request" => index \in Draws
    /\ shown \in Draws \cup {NoIndex}

\* The empty range 1..<1 is drawn from only for a single photo without an
\* image.
TrapsOnlyAlone == pc = "trapped" => fetched = 1 /\ 0 \notin available

\* The picker as one step, over the photos it may read.
OneStep == INSTANCE Retrieval WITH
    readable <- IF authorized THEN Draws ELSE {},
    deliverable <- IF authorized THEN Draws \cap available ELSE {},
    state <- CASE pc = "done" -> "returned"
               [] pc = "trapped" -> "trapped"
               [] OTHER -> "pending",
    photo <- shown

\* However often it draws again, retrieveTodaysFlic looks to the reveal like
\* one step: no photo without an image gets into the view on the way, the
\* one that is left there is one the fetch found, and it gives up or traps
\* only where no photo can be shown.
PickerIsOneStep == OneStep!RetrievalSpec

\* A second photo with an image is enough for the loop to end with one.
EndsIfRedrawable ==
    (authorized /\ available \cap Redraws # {})
        => <>(pc = "done" /\ shown \in available)
=============================================================================
