--------------------------- MODULE ConstraintDischarge ---------------------------
(***************************************************************************)
(* What the governed release of constraints promises, without saying how.  *)
(* An arrangement outside blocks the authority it was given over.  The     *)
(* block is lifted only once the arrangement has ended; the one exception  *)
(* is an administrator who waives it.  Neither is ever undone.             *)
(*                                                                         *)
(* EncumbranceReleaseGovernance implements this.                           *)
(***************************************************************************)
CONSTANT Constraints

VARIABLES
    block,      \* what stands in the way of each constraint's capacity
    ended       \* the constraints whose arrangement has ended outside

dischargeVars == <<block, ended>>

DischargeTypeOK ==
    /\ block \in [Constraints -> {"none", "blocking", "lifted", "waived"}]
    /\ ended \subseteq Constraints

DischargeInit ==
    /\ block = [c \in Constraints |-> "none"]
    /\ ended = {}

Establish(c) ==
    /\ block[c] = "none"
    /\ block' = [block EXCEPT ![c] = "blocking"]
    /\ UNCHANGED ended

EndOutside(c) ==
    /\ block[c] # "none"
    /\ ended' = ended \cup {c}
    /\ UNCHANGED block

Lift(c) ==
    /\ block[c] = "blocking"
    /\ c \in ended
    /\ block' = [block EXCEPT ![c] = "lifted"]
    /\ UNCHANGED ended

Waive(c) ==
    /\ block[c] = "blocking"
    /\ block' = [block EXCEPT ![c] = "waived"]
    /\ UNCHANGED ended

DischargeNext == \E c \in Constraints : Establish(c) \/ EndOutside(c) \/ Lift(c) \/ Waive(c)

DischargeSpec == DischargeInit /\ [][DischargeNext]_dischargeVars
=============================================================================
