---------------------------- MODULE MCDailyHome ----------------------------
(***************************************************************************)
(* A small photo library for DailyHome: one photo from before the app was  *)
(* installed, one taken on day 2, one without a creation date.             *)
(***************************************************************************)
EXTENDS DailyHome, TLC

CONSTANTS old, new, undated, here, there

MCCreationDay == (old :> 0) @@ (new :> 2) @@ (undated :> 0)
MCPlaceOf == (old :> here) @@ (new :> there) @@ (undated :> NoPlace)
=============================================================================
