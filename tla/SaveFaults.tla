----------------------------- MODULE SaveFaults -----------------------------
(***************************************************************************)
(* The fault model of the store, shared by everything that saves: save()   *)
(* may throw although the objects are valid (a full disk, a protected      *)
(* file).  Every caller in flicsy drops the error.                         *)
(***************************************************************************)
CONSTANT SaveMayFail    \* may the store refuse a save of valid objects?

ASSUME SaveMayFailAssumption == SaveMayFail \in BOOLEAN
=============================================================================
