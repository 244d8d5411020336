------------------------- MODULE PhotoPicker_proofs -------------------------
(***************************************************************************)
(* Proofs about retrieveTodaysFlic, for every library and fetch limit.     *)
(***************************************************************************)
EXTENDS PhotoPicker, TLAPS

\* What is known of the index while it is requested, refused and redrawn.
PickInv ==
    /\ PickerTypeOK
    /\ pc \in {"request", "redraw", "trapped"} => authorized /\ index \in Draws
    /\ pc \in {"redraw", "trapped"} => index \notin available
    /\ pc = "trapped" => Redraws = {}
    /\ pc = "done" /\ shown = NoIndex => NothingToFetch

LEMMA fetchedType == count \in Nat => fetched \in Nat /\ fetched <= count
  BY PickerAssumption DEF fetched

LEMMA InitPick == PickerInit => PickInv
  <1> SUFFICES ASSUME PickerInit PROVE PickInv
    OBVIOUS
  <1>1. count \in Nat
    BY PickerAssumption DEF PickerInit
  <1> QED
    BY <1>1 DEF PickerInit, PickInv, PickerTypeOK, NoIndex

LEMMA NextPick == PickInv /\ [PickerNext]_pickerVars => PickInv'
  <1> SUFFICES ASSUME PickInv, [PickerNext]_pickerVars PROVE PickInv'
    OBVIOUS
  <1> USE DEF PickInv, PickerTypeOK
  <1>c. /\ authorized' = authorized /\ count' = count /\ available' = available
        /\ Draws' = Draws /\ Redraws' = Redraws
        /\ NothingToFetch' <=> NothingToFetch
    BY DEF PickerNext, GiveUp, Draw, Deliver, DeliverNil, Retry, Trap, pickerVars,
           Draws, Redraws, NothingToFetch, fetched
  <1>r. Redraws \subseteq Draws /\ -1 \notin Draws
    BY fetchedType DEF Draws, Redraws
  <1>1. CASE GiveUp
    BY <1>1, <1>c DEF GiveUp
  <1>2. CASE Draw
    BY <1>2, <1>c DEF Draw, NothingToFetch
  <1>3. CASE Deliver
    BY <1>3, <1>c, <1>r DEF Deliver, NoIndex
  <1>4. CASE DeliverNil
    BY <1>4, <1>c DEF DeliverNil
  <1>5. ASSUME NEW i \in 1..(FetchLimit - 1), Retry(i) PROVE PickInv'
    BY <1>5, <1>c, <1>r DEF Retry
  <1>6. CASE Trap
    BY <1>6, <1>c DEF Trap
  <1>7. CASE UNCHANGED pickerVars
    BY <1>7, <1>c DEF pickerVars
  <1> QED
    BY <1>1, <1>2, <1>3, <1>4, <1>5, <1>6, <1>7 DEF PickerNext

LEMMA PickInvHolds == PickerSpec => []PickInv
  BY InitPick, NextPick, PTL DEF PickerSpec

\* object(at: index) is always asked for an index of the fetch result.
THEOREM PickerTypes == PickerSpec => []PickerTypeOK
  <1>1. PickInv => PickerTypeOK
    BY DEF PickInv
  <1> QED
    BY <1>1, PickInvHolds, PTL

\* An empty range to draw from again means one photo, without an image.
LEMMA EmptyRange ==
    ASSUME PickInv, pc \in {"redraw", "trapped"}, Redraws = {}
    PROVE  fetched = 1 /\ 0 \notin available
  <1>1. fetched \in Nat
    BY fetchedType DEF PickInv, PickerTypeOK
  <1>2. index \in 0..(fetched - 1) /\ index \notin available /\ 1..(fetched - 1) = {}
    BY DEF PickInv, Draws, Redraws
  <1>3. fetched > 1 => 1 \in 1..(fetched - 1)
    BY <1>1
  <1> QED
    BY <1>1, <1>2, <1>3

\* The retry traps only when the fetch result is one photo without an image.
THEOREM TrapsAlone == PickerSpec => []TrapsOnlyAlone
  <1>1. PickInv => TrapsOnlyAlone
    BY EmptyRange DEF PickInv, TrapsOnlyAlone
  <1> QED
    BY <1>1, PickInvHolds, PTL

----------------------------------------------------------------------------
(* The picker looks like one step                                          *)

\* What the reveal sees of pc.
Seen(p) == CASE p = "done" -> "returned"
             [] p = "trapped" -> "trapped"
             [] OTHER -> "pending"

\* For every library and fetch limit, draws, requests and retries change
\* nothing the reveal can see; the last step is one that Retrieval allows.
THEOREM PickerImplementsOneStep == PickerSpec => PickerIsOneStep
  <1> DEFINE readable == IF authorized THEN Draws ELSE {}
             deliverable == IF authorized THEN Draws \cap available ELSE {}
  <1>1. PickerInit => OneStep!RetrievalInit
    BY DEF PickerInit, OneStep!RetrievalInit
  <1>2. PickInv /\ [PickerNext]_pickerVars
          => [OneStep!RetrievalNext]_(OneStep!retrievalVars)
    <2> SUFFICES ASSUME PickInv, [PickerNext]_pickerVars
                 PROVE  \/ OneStep!RetrievalNext
                        \/ /\ readable' = readable /\ deliverable' = deliverable
                           /\ Seen(pc') = Seen(pc) /\ shown' = shown
      BY DEF OneStep!retrievalVars, Seen
    <2>c. readable' = readable /\ deliverable' = deliverable
      <3>1. authorized' = authorized /\ count' = count /\ available' = available
        BY DEF PickerNext, GiveUp, Draw, Deliver, DeliverNil, Retry, Trap,
               pickerVars
      <3>2. Draws' = Draws
        BY <3>1 DEF Draws, fetched
      <3> QED
        BY <3>1, <3>2
    <2>1. CASE GiveUp
      <3>1. readable = {}
        BY <2>1 DEF GiveUp, NothingToFetch, Draws
      <3>2. pc = "start" /\ pc' = "done" /\ shown' = shown
        BY <2>1 DEF GiveUp
      <3>3. OneStep!Keep
        BY <2>c, <3>1, <3>2 DEF OneStep!Keep, OneStep!Return
      <3> QED
        BY <3>3 DEF OneStep!RetrievalNext
    <2>2. CASE Draw
      BY <2>2, <2>c DEF Draw, Seen
    <2>3. CASE Deliver
      <3>1. index \in deliverable /\ pc = "request" /\ pc' = "done" /\ shown' = index
        BY <2>3 DEF Deliver, PickInv, PickerTypeOK
      <3>2. OneStep!Return(index)
        BY <2>c, <3>1 DEF OneStep!Return
      <3>3. OneStep!Show
        BY <3>1, <3>2 DEF OneStep!Show
      <3> QED
        BY <3>3 DEF OneStep!RetrievalNext
    <2>4. CASE DeliverNil
      BY <2>4, <2>c DEF DeliverNil, Seen
    <2>5. ASSUME NEW i \in 1..(FetchLimit - 1), Retry(i)
          PROVE  Seen(pc') = Seen(pc) /\ shown' = shown
      BY <2>5 DEF Retry, Seen
    <2>6. CASE Trap
      <3>1. pc = "redraw" /\ pc' = "trapped" /\ shown' = shown /\ authorized
        BY <2>6 DEF Trap, PickInv
      <3>2. readable = {0} /\ deliverable = {}
        <4>1. fetched = 1 /\ 0 \notin available
          BY <2>6, EmptyRange DEF Trap
        <4>2. Draws = {0}
          BY <4>1 DEF Draws
        <4> QED
          BY <3>1, <4>1, <4>2
      <3>3. OneStep!Trapped
        BY <2>c, <3>1, <3>2 DEF OneStep!Trapped
      <3> QED
        BY <3>3 DEF OneStep!RetrievalNext
    <2>7. CASE UNCHANGED pickerVars
      BY <2>7, <2>c DEF pickerVars, Seen
    <2> QED
      BY <2>1, <2>2, <2>3, <2>4, <2>5, <2>6, <2>7, <2>c DEF PickerNext
  <1> QED
    BY <1>1, <1>2, PickInvHolds, PTL
       DEF PickerSpec, PickerIsOneStep, OneStep!RetrievalSpec
=============================================================================
