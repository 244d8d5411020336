----------------------- MODULE ReflectionCard_proofs -----------------------
(***************************************************************************)
(* The proofs of ReflectionCard.  The label saved is the right one only if *)
(* the number selected is that of the button pressed, and the text only if *)
(* the editor and the user differ in nothing but the placeholder.          *)
(***************************************************************************)
EXTENDS ReflectionCard, TLAPS

\* The selected number is that of the button pressed last, 0 before any.
PressedIsSelected ==
    IF written.label = NoEmotion
    THEN card.selectedEmotion = 0
    ELSE card.selectedEmotion = emotionsDictionary[written.label]

WritingInv == WritingTypeOK /\ TypedIsKept /\ PressedIsSelected

----------------------------------------------------------------------------
(* Helpers                                                                 *)

\* The numbers of the dictionary are 1 to 5, and "nil" is none of its keys.
LEMMA Dictionary ==
    /\ Labels = {"happy", "silly", "sad", "inLove", "meh"}
    /\ \A k \in Labels : emotionsDictionary[k] \in 1..5
    /\ NoEmotion \notin Labels
  BY DEF Labels, emotionsDictionary, NoEmotion

\* Every number of the dictionary leads back to one label, 0 to none.
LEMMA LabelIsFound ==
    /\ LabelsOf(0) = {NoEmotion}
    /\ \A k \in Labels : LabelsOf(emotionsDictionary[k]) = {k}
  <1>1. LabelsOf(0) = {NoEmotion}
    BY Dictionary DEF LabelsOf
  <1>2. ASSUME NEW k \in Labels PROVE LabelsOf(emotionsDictionary[k]) = {k}
    <2>1. \A j \in Labels : emotionsDictionary[j] = emotionsDictionary[k] => j = k
      BY DEF Labels, emotionsDictionary
    <2>2. {j \in Labels : emotionsDictionary[j] = emotionsDictionary[k]} = {k}
      BY <2>1
    <2> QED BY <2>2 DEF LabelsOf
  <1> QED BY <1>1, <1>2

\* Two texts that are the same, or differ only in that one is empty and the
\* other the placeholder.
Alike(t, u) == t = u \/ {t, u} = {Empty, Placeholder}

LEMMA PlaceholderIsText == Placeholder # Empty
  BY DEF Placeholder, Empty

\* Putting the placeholder back, taking it out and saving a text change it
\* only between the placeholder and nothing.
LEMMA TextStays ==
    ASSUME NEW t \in AnyText, NEW u, Alike(t, u)
    PROVE  /\ Restored(t) \in AnyText /\ Alike(Restored(t), u)
           /\ Cleared(t) \in AnyText /\ Alike(Cleared(t), u)
           /\ SavedText(t) \in AnyText /\ SavedText(t) # Placeholder
           /\ SavedText(t) = u \/ u = Placeholder
  <1>1. t = u \/ (t = Empty /\ u = Placeholder) \/ (t = Placeholder /\ u = Empty)
    BY PlaceholderIsText DEF Alike
  <1> QED
    BY <1>1, PlaceholderIsText DEF AnyText, Restored, Cleared, SavedText, Alike

\* What a fresh card holds, and the texts nobody has to type.
LEMMA FreshText ==
    /\ Placeholder \in AnyText /\ Empty \in AnyText
    /\ Alike(Placeholder, Empty)
    /\ \A t : Alike(t, t)
    /\ NoTitle \in AnyTitle
  BY DEF AnyText, AnyTitle, Alike

----------------------------------------------------------------------------
(* The invariant                                                           *)

Cards ==
    [reflectionText: AnyText, title: AnyTitle, selectedEmotion: 0..5,
     typing: BOOLEAN]

Writings ==
    [title: AnyTitle, text: AnyText, label: Labels \cup {NoEmotion}]

\* What holds of a card and what was written for it.
Agree(c, w) ==
    /\ c \in Cards
    /\ w \in Writings
    /\ Alike(c.reflectionText, w.text)
    /\ c.title = w.title \/ w.title = Prompt
    /\ IF w.label = NoEmotion THEN c.selectedEmotion = 0
       ELSE c.selectedEmotion = emotionsDictionary[w.label]

\* The rest of the type invariant.
OtherTypes ==
    /\ shown \in BOOLEAN
    /\ focus \in {"none", "title", "text"}
    /\ hiding \in BOOLEAN
    /\ saved \in [text: AnyText, title: AnyTitle, emotion: Labels \cup {NoEmotion}]

LEMMA InvParts == WritingInv <=> (OtherTypes /\ Agree(card, written))
  BY DEF WritingInv, WritingTypeOK, TypedIsKept, PressedIsSelected, OtherTypes,
         Agree, Alike, Cards, Writings

LEMMA InvPartsNext == WritingInv' <=> (OtherTypes' /\ Agree(card', written'))
  BY DEF WritingInv, WritingTypeOK, TypedIsKept, PressedIsSelected, OtherTypes,
         Agree, Alike, Cards, Writings

\* A fresh card agrees with nothing written.
LEMMA FreshAgrees ==
    ASSUME NEW b \in BOOLEAN
    PROVE  Agree(FreshCard(b), NothingWritten)
  <1>1. /\ NothingWritten \in Writings
        /\ NothingWritten.text = Empty /\ NothingWritten.title = NoTitle
        /\ NothingWritten.label = NoEmotion
    BY FreshText DEF NothingWritten, Writings
  <1>2. /\ FreshCard(b).reflectionText = Placeholder
        /\ FreshCard(b).title = NoTitle
        /\ FreshCard(b).selectedEmotion = 0
    BY DEF FreshCard
  <1>3. 0 \in 0..5
    OBVIOUS
  <1>4. FreshCard(b) \in Cards
    BY <1>3, FreshText, Zenon DEF FreshCard, Cards
  <1> QED BY <1>1, <1>2, <1>4, FreshText DEF Agree

LEMMA InitWriting == WritingInit => WritingInv
  <1> SUFFICES ASSUME WritingInit PROVE WritingInv
    OBVIOUS
  <1>1. OtherTypes
    BY FreshText DEF WritingInit, OtherTypes
  <1>2. Agree(card, written)
    BY FreshAgrees DEF WritingInit
  <1> QED BY <1>1, <1>2, InvParts

\* The card and what was written change together, or not at all: the cases of
\* a step, one for each way the two can change.
LEMMA TextChanges ==
    ASSUME NEW c, NEW w, Agree(c, w), NEW t \in AnyText, NEW b \in BOOLEAN,
           Alike(t, w.text)
    PROVE  /\ Agree([c EXCEPT !.reflectionText = t], w)
           /\ Agree([c EXCEPT !.typing = b], w)
           /\ Agree([c EXCEPT !.typing = b, !.reflectionText = t], w)
  <1> DEFINE d == [c EXCEPT !.reflectionText = t]
             e == [c EXCEPT !.typing = b]
             f == [c EXCEPT !.typing = b, !.reflectionText = t]
  <1>1. c \in Cards
    BY DEF Agree
  <1>2. /\ d \in Cards /\ d.reflectionText = t /\ d.title = c.title
        /\ d.selectedEmotion = c.selectedEmotion
    BY <1>1, Zenon DEF Cards
  <1>3. /\ e \in Cards /\ e.reflectionText = c.reflectionText
        /\ e.title = c.title /\ e.selectedEmotion = c.selectedEmotion
    BY <1>1, Zenon DEF Cards
  <1>4. /\ f \in Cards /\ f.reflectionText = t /\ f.title = c.title
        /\ f.selectedEmotion = c.selectedEmotion
    BY <1>1, Zenon DEF Cards
  <1> HIDE DEF d, e, f
  <1>5. Agree(d, w) /\ Agree(e, w) /\ Agree(f, w)
    BY <1>2, <1>3, <1>4 DEF Agree
  <1> QED BY <1>5 DEF d, e, f

\* A title or a text typed, a button pressed: the same change on both sides.
LEMMA UserChanges ==
    ASSUME NEW c, NEW w, Agree(c, w)
    PROVE  /\ \A t \in AnyTitle : Agree([c EXCEPT !.title = t],
                                       [w EXCEPT !.title = t])
           /\ \A t \in AnyText : Agree([c EXCEPT !.reflectionText = t],
                                      [w EXCEPT !.text = t])
           /\ \A k \in Labels :
                  Agree([c EXCEPT !.selectedEmotion = emotionsDictionary[k]],
                        [w EXCEPT !.label = k])
  <1>1. c \in Cards /\ w \in Writings
    BY DEF Agree
  <1>2. ASSUME NEW t \in AnyTitle
        PROVE  Agree([c EXCEPT !.title = t], [w EXCEPT !.title = t])
    BY <1>1, <1>2 DEF Agree, Cards, Writings
  <1>3. ASSUME NEW t \in AnyText
        PROVE  Agree([c EXCEPT !.reflectionText = t], [w EXCEPT !.text = t])
    BY <1>1, <1>3, FreshText DEF Agree, Cards, Writings
  <1>4. ASSUME NEW k \in Labels
        PROVE  Agree([c EXCEPT !.selectedEmotion = emotionsDictionary[k]],
                     [w EXCEPT !.label = k])
    <2>1. emotionsDictionary[k] \in 0..5 /\ k # NoEmotion
      BY Dictionary
    <2> QED BY <1>1, <2>1 DEF Agree, Cards, Writings
  <1> QED BY <1>2, <1>3, <1>4

\* A tap into the title changes it only if it reads like the prompt.
LEMMA TitleTapped ==
    ASSUME NEW c, NEW w, Agree(c, w)
    PROVE  Agree([c EXCEPT !.typing = TRUE, !.title = ClearedTitle(@)], w)
  <1> DEFINE d == [c EXCEPT !.typing = TRUE, !.title = ClearedTitle(@)]
  <1>1. c \in Cards
    BY DEF Agree
  <1>2. /\ ClearedTitle(c.title) \in AnyTitle
        /\ ClearedTitle(c.title) = c.title \/ c.title = Prompt
    BY <1>1, FreshText DEF ClearedTitle, Cards
  <1>3. /\ d \in Cards /\ d.reflectionText = c.reflectionText
        /\ d.title = ClearedTitle(c.title)
        /\ d.selectedEmotion = c.selectedEmotion
    BY <1>1, <1>2, Zenon DEF Cards
  <1> HIDE DEF d
  <1>4. Agree(d, w)
    BY <1>2, <1>3 DEF Agree
  <1> QED BY <1>4 DEF d

\* Every step preserves the invariant.
LEMMA NextWriting == WritingInv /\ [WritingNext]_writingVars => WritingInv'
  <1> SUFFICES ASSUME WritingInv, [WritingNext]_writingVars PROVE WritingInv'
    OBVIOUS
  <1>1. OtherTypes /\ Agree(card, written)
    BY InvParts
  <1>2. card \in Cards /\ written \in Writings
    BY <1>1 DEF Agree
  <1>3. card.typing \in BOOLEAN /\ card.reflectionText \in AnyText
        /\ card.title \in AnyTitle /\ Alike(card.reflectionText, written.text)
    BY <1>1, <1>2 DEF Cards, Agree
  <1>4. /\ Restored(card.reflectionText) \in AnyText
        /\ Alike(Restored(card.reflectionText), written.text)
        /\ Cleared(card.reflectionText) \in AnyText
        /\ Alike(Cleared(card.reflectionText), written.text)
        /\ SavedText(card.reflectionText) \in AnyText
    BY <1>3, TextStays
  <1>5. OtherTypes'
    <2>1. CASE Submit
      <3>1. PICK e \in LabelsOf(card.selectedEmotion) :
               saved' = [text |-> SavedText(card.reflectionText),
                         title |-> card.title, emotion |-> e]
        BY <2>1 DEF Submit
      <3>2. e \in Labels \cup {NoEmotion}
        BY DEF LabelsOf
      <3> QED BY <1>3, <1>4, <2>1, <3>1, <3>2 DEF Submit, OtherTypes
    <2>2. CASE UNCHANGED writingVars
      BY <1>1, <2>2 DEF OtherTypes, writingVars
    <2>3. CASE WritingNext /\ ~Submit
      BY <1>1, <2>3
         DEF OtherTypes, WritingNext, Appear, Disappear, KeyboardHides,
             FocusMoves, Observe, TapTitle, TapText, TapCard, TypeTitle,
             TypeText, PressEmotion, Resigns
    <2> QED BY <2>1, <2>2, <2>3
  <1>6. Agree(card', written')
    <2>1. CASE Appear
      BY <1>3, <2>1, FreshAgrees DEF Appear
    <2>2. CASE Disappear
      BY <1>3, <2>2, FreshAgrees DEF Disappear
    <2>3. CASE Submit
      BY <1>3, <2>3, FreshAgrees DEF Submit
    <2>4. CASE KeyboardHides \/ FocusMoves \/ UNCHANGED writingVars
      BY <1>1, <2>4 DEF KeyboardHides, FocusMoves, writingVars
    <2>5. CASE Observe
      BY <1>1, <1>4, <2>5, TextChanges DEF Observe
    <2>6. CASE TapTitle
      BY <1>1, <2>6, TitleTapped DEF TapTitle
    <2>7. CASE TapText
      BY <1>1, <1>4, <2>7, TextChanges DEF TapText
    <2>8. CASE TapCard
      BY <1>1, <1>3, <2>8, TextChanges DEF TapCard
    <2>9. CASE TypeTitle
      BY <1>1, <2>9, UserChanges DEF TypeTitle
    <2>10. CASE TypeText
      BY <1>1, <2>10, UserChanges DEF TypeText
    <2>11. CASE PressEmotion
      BY <1>1, <2>11, UserChanges DEF PressEmotion
    <2> QED
      BY <2>1, <2>2, <2>3, <2>4, <2>5, <2>6, <2>7, <2>8, <2>9, <2>10, <2>11
      DEF WritingNext
  <1> QED BY <1>5, <1>6, InvPartsNext

LEMMA WritingInvHolds == WritingSpec => []WritingInv
  BY InitWriting, NextWriting, PTL DEF WritingSpec

----------------------------------------------------------------------------
(* The theorems                                                            *)

\* Type correctness of a reflection being written, for any titles and texts.
THEOREM WritingTypes == WritingSpec => []WritingTypeOK
  <1>1. WritingInv => WritingTypeOK
    BY DEF WritingInv
  <1> QED BY <1>1, WritingInvHolds, PTL

\* The placeholder never costs the user a text other than itself, nor a title
\* other than the prompt, whatever the keyboard does and whenever the observers
\* run.
THEOREM NothingTypedIsLost == WritingSpec => []TypedIsKept
  <1>1. WritingInv => TypedIsKept
    BY DEF WritingInv
  <1> QED BY <1>1, WritingInvHolds, PTL

\* A submit saves what was written, but for a text or a title that reads like
\* its prompt, and never the placeholder.
THEOREM SavesWhatWasWritten == WritingSpec => SavedAsWritten
  <1> DEFINE A ==
        Submit => /\ saved'.text = written.text \/ written.text = Placeholder
                  /\ saved'.text # Placeholder
                  /\ saved'.title = written.title \/ written.title = Prompt
                  /\ saved'.emotion = written.label
  <1>1. WritingInv => A
    <2> SUFFICES ASSUME WritingInv, Submit PROVE A
      OBVIOUS
    <2>1. Agree(card, written)
      BY InvParts
    <2>2. /\ card.reflectionText \in AnyText
          /\ written.label \in Labels \cup {NoEmotion}
      BY <2>1 DEF Agree, Cards, Writings
    <2>3. PICK e \in LabelsOf(card.selectedEmotion) :
             saved' = [text |-> SavedText(card.reflectionText),
                       title |-> card.title, emotion |-> e]
      BY DEF Submit
    <2>4. saved'.text = SavedText(card.reflectionText)
          /\ saved'.title = card.title /\ saved'.emotion = e
      BY <2>3
    <2>5. e = written.label
      BY <2>1, <2>2, LabelIsFound DEF Agree
    <2> QED BY <2>1, <2>2, <2>4, <2>5, TextStays DEF Agree
  <1>2. WritingInv /\ [WritingNext]_writingVars => [A]_writingVars
    BY <1>1
  <1> QED BY <1>2, WritingInvHolds, PTL DEF WritingSpec, SavedAsWritten
=============================================================================
