--------------------------- MODULE OwnershipLedger ---------------------------
(***************************************************************************)
(* What the controllers of windows, groups and integrations promise about  *)
(* the objects they make, with no word of how: a resource signs for its    *)
(* object before the object exists, keeps the identifier for as long as    *)
(* the object lives, makes no second one beside it, and does not go away   *)
(* while it lives.  The two inputs name the exceptions: `doubt', the       *)
(* controller may not know what it has, and `released', nobody asks it to  *)
(* clean up.                                                               *)
(***************************************************************************)
CONSTANTS Ids, NoId

VARIABLES
  present,    \* the resource carries the finalizer
  recorded,   \* the identifier in its status
  alive,      \* the objects of the account that exist
  doubt,      \* input: the reconciler's view of the status may be wrong
  released    \* input: the object may outlive the resource

ledger == <<present, recorded, alive>>

Init == present = FALSE /\ recorded = NoId /\ alive = {}

(* The recorded object, if any, is gone, or it is not certain which it is. *)
Unowned == recorded \notin alive \/ doubt

(* The finalizer is attached; a status may have been written before. *)
Sign == ~present /\ present' = TRUE /\ recorded' \in Ids \cup {NoId} /\ UNCHANGED alive

(* Objects come into being. *)
Acquire ==
  /\ present /\ Unowned
  /\ alive' \in SUBSET Ids /\ alive \subseteq alive'
  /\ UNCHANGED <<present, recorded>>

(* Objects are deleted, by the controller or by anyone else. *)
Lose == alive' \subseteq alive /\ UNCHANGED <<present, recorded>>

(* The status names another object. *)
Record == present /\ Unowned /\ recorded' \in Ids \cup {NoId} /\ UNCHANGED <<present, alive>>

(* The resource is let go. *)
Leave ==
  /\ present /\ (recorded \notin alive \/ released)
  /\ present' = FALSE /\ recorded' = NoId /\ UNCHANGED alive

Next == Sign \/ Acquire \/ Lose \/ Record \/ Leave

Spec == Init /\ [][Next]_ledger
=============================================================================
