------------------------------- MODULE MCApp -------------------------------
(***************************************************************************)
(* A library of one photo for App, older than the app and without a place; *)
(* reveals may also find none.                                             *)
(***************************************************************************)
EXTENDS App, TLC

CONSTANT old

MCCreationDay == old :> 0
MCPlaceOf == old :> NoPlace
=============================================================================
