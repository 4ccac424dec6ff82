-------------------------- MODULE MCOpenBetsSerial --------------------------
(* Instances of OpenBets in which requests come one at a time and no bet   *)
(* taken out hedges one that stays, so that every theorem applies.         *)
EXTENDS MCOpenBets

ASSUME OneAtATime == Overlap = {}
ASSUME RemovalsReleaseHere == RemovalsRelease
ASSUME RemovalsKeepLimitHere == RemovalsKeepLimit
=============================================================================
