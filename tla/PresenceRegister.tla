-------------------------- MODULE PresenceRegister --------------------------
(***************************************************************************)
(* What the presence projection promises, without sequence numbers and     *)
(* without counts: whatever order a member's reports arrive in, and        *)
(* however often each arrives, what is shown of the member is the newest   *)
(* report that has arrived at least once.                                  *)
(***************************************************************************)
EXTENDS Integers, Sequences

CONSTANTS
  Members,
  States,          \* the states a member may report
  Publish(_),      \* what a state looks like to a viewer
  Nothing,         \* what is shown of a member nothing was heard of
  MaxReports       \* how many reports one member makes

VARIABLES
  issued,     \* member -> the reports the member made, in their order
  delivered,  \* member -> the positions of the reports that have arrived
  shown       \* member -> what a viewer is shown

vars == <<issued, delivered, shown>>

Newest(positions) == CHOOSE p \in positions : \A q \in positions : q <= p

Init ==
  /\ issued = [m \in Members |-> <<>>]
  /\ delivered = [m \in Members |-> {}]
  /\ shown = [m \in Members |-> Nothing]

Issue(m, state) ==
  /\ Len(issued[m]) < MaxReports
  /\ issued' = [issued EXCEPT ![m] = Append(@, state)]
  /\ UNCHANGED <<delivered, shown>>

Arrive(m, p) ==
  /\ p \in 1..Len(issued[m])
  /\ delivered' = [delivered EXCEPT ![m] = @ \cup {p}]
  /\ shown' = [shown EXCEPT ![m] = Publish(issued[m][Newest(delivered'[m])])]
  /\ UNCHANGED issued

Next ==
  \E m \in Members :
    \/ \E state \in States : Issue(m, state)
    \/ \E p \in 1..MaxReports : Arrive(m, p)

Spec == Init /\ [][Next]_vars
=============================================================================
