--------------------------- MODULE ReflectionCard ---------------------------
(***************************************************************************)
(* Writing a reflection: the title, the text with its placeholder, the     *)
(* emotions, and what addReflection makes of them.  The placeholder is     *)
(* ordinary text in reflectionText, taken out by a tap and put back by     *)
(* observers of keyboardWillHideNotification, which run later on the main  *)
(* queue and are added at each appearance and never removed.               *)
(***************************************************************************)
EXTENDS Naturals

CONSTANTS
    Titles,      \* titles a user may type, "Add Title" perhaps among them
    Texts        \* texts a user may type, besides none and the placeholder

VARIABLES
    shown,       \* is there a ReflectionCard?
    card,        \* its @State, and the typing flag of DailyHomeView
    focus,       \* the field that has the keyboard
    hiding,      \* notifications that the observers have not seen yet
    saved,       \* the texts of the last reflection handed to Core Data
    written      \* history variable: what the user typed and pressed

writingVars == <<shown, card, focus, hiding, saved, written>>

\* The placeholder is a text like any other: a user may type it as well.
Empty == ""
Placeholder == "Write reflection..."
AnyText == Texts \cup {Empty, Placeholder}

Prompt == "Add Title"
NoTitle == ""
AnyTitle == Titles \cup {NoTitle}

emotionsDictionary == [happy |-> 1, silly |-> 2, sad |-> 3, inLove |-> 4, meh |-> 5]

Labels == DOMAIN emotionsDictionary
NoEmotion == "nil"

\* Mutant: no emotion is saved as an empty label.
LabelsOfOrBlank(n) ==
    LET found == {k \in Labels : emotionsDictionary[k] = n}
    IN  IF found = {} THEN {""} ELSE found

\* first(where:) goes through the dictionary in no particular order.
LabelsOf(n) ==
    LET found == {k \in Labels : emotionsDictionary[k] = n}
    IN  IF found = {} THEN {NoEmotion} ELSE found

FreshCard(typing) ==
    [reflectionText |-> Placeholder, title |-> NoTitle, selectedEmotion |-> 0,
     typing |-> typing]

NothingWritten == [title |-> NoTitle, text |-> Empty, label |-> NoEmotion]

WritingInit ==
    /\ shown = FALSE
    /\ card = FreshCard(FALSE)
    /\ focus = "none"
    /\ hiding = FALSE
    /\ saved = [text |-> Empty, title |-> NoTitle, emotion |-> NoEmotion]
    /\ written = NothingWritten

----------------------------------------------------------------------------
(* The card comes and goes                                                 *)

\* A photo is revealed; typing belongs to DailyHomeView and keeps its value.
Appear ==
    /\ ~shown
    /\ shown' = TRUE
    /\ card' = FreshCard(card.typing)
    /\ written' = NothingWritten
    /\ UNCHANGED <<focus, hiding, saved>>

\* The photo is skipped, or the process ends.
Disappear ==
    /\ shown
    /\ shown' = FALSE
    /\ card' \in {FreshCard(FALSE), FreshCard(card.typing)}
    /\ focus' = "none"
    /\ hiding' = FALSE
    /\ written' = NothingWritten
    /\ UNCHANGED saved

----------------------------------------------------------------------------
(* The keyboard                                                            *)

\* hideKeyboard: the field resigns, and the notification is posted.
Resigns == focus' = "none" /\ hiding' = (hiding \/ focus # "none")

\* The system hides the keyboard, or a hardware one takes its place, and then
\* the field keeps the focus.
KeyboardHides ==
    /\ shown
    /\ focus # "none"
    /\ focus' \in {focus, "none"}
    /\ hiding' = TRUE
    /\ UNCHANGED <<shown, card, saved, written>>

\* A hardware keyboard moves the focus without a tap.
FocusMoves ==
    /\ shown
    /\ focus' \in {"title", "text"}
    /\ UNCHANGED <<shown, card, hiding, saved, written>>

\* Mutant: the observer does not look at the text.
RestoredAlways(t) == Placeholder

\* "put back the placeholder text if the user dismisses the keyboard without
\* adding any text"
Restored(t) == IF t = Empty THEN Placeholder ELSE t

Observe ==
    /\ shown
    /\ hiding
    /\ hiding' = FALSE
    /\ card' = [card EXCEPT !.reflectionText = Restored(@)]
    /\ UNCHANGED <<shown, focus, saved, written>>

----------------------------------------------------------------------------
(* The user                                                                *)

ClearedTitle(t) == IF t = Prompt THEN NoTitle ELSE t

TapTitle ==
    /\ shown
    /\ card' = [card EXCEPT !.typing = TRUE, !.title = ClearedTitle(@)]
    /\ focus' = "title"
    /\ UNCHANGED <<shown, hiding, saved, written>>

Cleared(t) == IF t = Placeholder THEN Empty ELSE t

\* The tap gives the editor the focus; while typing, hideKeyboard comes first,
\* and may take the focus away for good.
TapText ==
    /\ shown
    /\ card' = [card EXCEPT !.typing = TRUE, !.reflectionText = Cleared(@)]
    /\ \/ focus' = "text" /\ UNCHANGED hiding
       \/ /\ card.typing
          /\ focus' \in {"none", "text"}
          /\ hiding' = (hiding \/ focus # "none")
    /\ UNCHANGED <<shown, saved, written>>

\* The card is turned.
TapCard ==
    /\ shown
    /\ Resigns
    /\ card' = [card EXCEPT !.typing = FALSE]
    /\ UNCHANGED <<shown, saved, written>>

TypeTitle ==
    /\ shown
    /\ focus = "title"
    /\ \E t \in AnyTitle :
           /\ card' = [card EXCEPT !.title = t]
           /\ written' = [written EXCEPT !.title = t]
    /\ UNCHANGED <<shown, focus, hiding, saved>>

\* Each edit leaves some text in the editor: more or fewer words, none, one
\* with the placeholder still in front, or one that reads just like it.
TypeText ==
    /\ shown
    /\ focus = "text"
    /\ \E t \in AnyText :
           /\ card' = [card EXCEPT !.reflectionText = t]
           /\ written' = [written EXCEPT !.text = t]
    /\ UNCHANGED <<shown, focus, hiding, saved>>

PressEmotion ==
    /\ shown
    /\ \E k \in Labels :
           /\ card' = [card EXCEPT !.selectedEmotion = emotionsDictionary[k]]
           /\ written' = [written EXCEPT !.label = k]
    /\ UNCHANGED <<shown, focus, hiding, saved>>

\* Mutant: the text is taken as it is.
SavedTextAsShown(t) == t

\* reflectionText == "Write reflection..." ? "" : reflectionText
SavedText(t) == IF t = Placeholder THEN Empty ELSE t

\* submit() and addReflection; the card gives way to the countdown.
Submit ==
    /\ shown
    /\ \E e \in LabelsOf(card.selectedEmotion) :
           saved' = [text |-> SavedText(card.reflectionText),
                     title |-> card.title, emotion |-> e]
    /\ shown' = FALSE
    /\ card' = FreshCard(card.typing)
    /\ focus' = "none"
    /\ hiding' = FALSE
    /\ written' = NothingWritten

----------------------------------------------------------------------------
WritingNext ==
    \/ Appear \/ Disappear
    \/ KeyboardHides \/ FocusMoves \/ Observe
    \/ TapTitle \/ TapText \/ TapCard
    \/ TypeTitle \/ TypeText \/ PressEmotion
    \/ Submit

WritingSpec == WritingInit /\ [][WritingNext]_writingVars

----------------------------------------------------------------------------
(* Correctness                                                             *)

\* Type correctness; the selected emotion is a number of the dictionary.
WritingTypeOK ==
    /\ shown \in BOOLEAN
    /\ card \in [reflectionText: AnyText, title: AnyTitle, selectedEmotion: 0..5,
                 typing: BOOLEAN]
    /\ focus \in {"none", "title", "text"}
    /\ hiding \in BOOLEAN
    /\ saved \in [text: AnyText, title: AnyTitle, emotion: Labels \cup {NoEmotion}]
    /\ written \in [title: AnyTitle, text: AnyText,
                    label: Labels \cup {NoEmotion}]

\* Nothing the user typed is lost to the placeholder, whenever the observers
\* come to run: the editor shows the text the last edit left, and the field the
\* title.  The exceptions are a title that reads like the prompt of its field,
\* and a text that is empty or reads like the placeholder: for the code these
\* two texts are the same, and a tap or an observer turns one into the other.
TypedIsKept ==
    /\ \/ card.reflectionText = written.text
       \/ {card.reflectionText, written.text} = {Empty, Placeholder}
    /\ card.title = written.title \/ written.title = Prompt

\* A submit saves the text and the title that were written, but for a title or
\* a text that reads like its prompt, never the placeholder, and the emotion
\* whose button was pressed last.
SavedAsWritten ==
    [][Submit
         => /\ saved'.text = written.text \/ written.text = Placeholder
            /\ saved'.text # Placeholder
            /\ saved'.title = written.title \/ written.title = Prompt
            /\ saved'.emotion = written.label]_writingVars
=============================================================================
