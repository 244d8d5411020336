------------------------------ MODULE MCFlicsy ------------------------------
(***************************************************************************)
(* A library of two photos for Flicsy, one of which is too new to be shown *)
(* on day 1, so that the list has rows to sort.                            *)
(***************************************************************************)
EXTENDS Flicsy, TLC

CONSTANTS old, new, here

MCCreationDay == (old :> 0) @@ (new :> 1)
MCPlaceOf == (old :> here) @@ (new :> NoPlace)
=============================================================================
