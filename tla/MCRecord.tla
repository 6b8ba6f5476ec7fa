---------------------------- MODULE MCRecord ----------------------------
(***************************************************************************)
(* Instances of RecordHistory for TLC: forms with and without a default.   *)
(***************************************************************************)
EXTENDS RecordHistory, TLC

CONSTANTS ref, name, v, blank

NoDefaults == [f \in Fields |-> Null]
RefDefault == [f \in Fields |-> IF f = Ref THEN v ELSE Null]
=========================================================================
