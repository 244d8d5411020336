------------------------------ MODULE Journal ------------------------------
(***************************************************************************)
(* What flicsy promises its user about the data on disk, whatever happens  *)
(* to the process: a journal of reflections that only grows, each with a   *)
(* picture from before the day it is written, and at most one skip a day.  *)
(* A disk that refuses writes may get what it refused later, together.     *)
(***************************************************************************)
EXTENDS Naturals, Sequences

CONSTANTS Photos, Locations

VARIABLES today, entries, lastSkip

journalVars == <<today, entries, lastSkip>>

\* What can be written on day d.
Entry(d) == [image: Photos, date: 0..(d - 1), place: Locations]

JournalInit ==
    /\ today = 1
    /\ entries = <<>>
    /\ lastSkip = 0

NewDay ==
    /\ today' = today + 1
    /\ UNCHANGED <<entries, lastSkip>>

AddEntry ==
    /\ \E e \in Entry(today) : entries' = Append(entries, e)
    /\ UNCHANGED <<today, lastSkip>>

Skip ==
    /\ lastSkip # today
    /\ lastSkip' = today
    /\ UNCHANGED <<today, entries>>

JournalNext == NewDay \/ AddEntry \/ Skip

JournalSpec == JournalInit /\ [][JournalNext]_journalVars

----------------------------------------------------------------------------
(* What is left of the promise when the disk refuses writes                *)

\* An entry, a skip of today or of a day since the last one, or both.
LateWrite ==
    /\ \/ entries' = entries
       \/ \E e \in Entry(today) : entries' = Append(entries, e)
    /\ lastSkip' \in lastSkip..today
    /\ UNCHANGED today

LateJournalNext == NewDay \/ LateWrite

LateJournalSpec == JournalInit /\ [][LateJournalNext]_journalVars
=============================================================================
