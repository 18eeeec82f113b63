---------------------------- MODULE PresenceFeed ----------------------------
(***************************************************************************)
(* The presence projection fed with the reports of its members.  Every     *)
(* member numbers its own reports from one; the reports reach the          *)
(* projection in any order, any number of times, or never, and malformed   *)
(* ones reach it too.                                                      *)
(*                                                                         *)
(* issued and delivered are not in the code: issued is the reporter's side *)
(* and delivered remembers which reports ever arrived, so that the         *)
(* promise of PresenceRegister can be stated.                              *)
(***************************************************************************)
EXTENDS PresenceProjection, Sequences

CONSTANT MaxReports   \* bound: how many reports one member makes

ASSUME MaxReportsAssumption == MaxReports \in Nat

VARIABLES issued, delivered

vars == <<seq, present, counts, issued, delivered>>

-----------------------------------------------------------------------------
Init ==
  /\ InitProjection
  /\ issued = [m \in Members |-> <<>>]
  /\ delivered = [m \in Members |-> {}]

Issue(m, state) ==
  /\ Len(issued[m]) < MaxReports
  /\ issued' = [issued EXCEPT ![m] = Append(@, state)]
  /\ UNCHANGED <<seq, present, counts, delivered>>

(* Any report made so far arrives, for the first time or again.            *)
Arrive(m, s) ==
  /\ s \in 1..Len(issued[m])
  /\ Apply(Report(m, s, issued[m][s]))
  /\ delivered' = [delivered EXCEPT ![m] = @ \cup {s}]
  /\ UNCHANGED issued

(* A report with its member or its sequence left at the zero value.        *)
ArriveMalformed(m, s) ==
  /\ s \in 1..Len(issued[m])
  /\ \/ Apply(Report(Zero, s, issued[m][s]))
     \/ Apply(Report(m, 0, issued[m][s]))
  /\ UNCHANGED <<issued, delivered>>

Next ==
  \E m \in Members :
    \/ \E state \in States : Issue(m, state)
    \/ \E s \in 1..MaxReports : Arrive(m, s) \/ ArriveMalformed(m, s)

Spec == Init /\ [][Next]_vars

-----------------------------------------------------------------------------
TypeOK ==
  /\ ProjectionTypeOK
  /\ issued \in [Members -> Seq(States)]
  /\ delivered \in [Members -> SUBSET Nat]

(* The sequence held for a member is the newest that ever arrived, and the *)
(* presence held is exactly what that report publishes: nothing older ever *)
(* shows through, however the reports were reordered.                      *)
HoldsNewest ==
  \A m \in Members :
    /\ delivered[m] \subseteq 1..Len(issued[m])
    /\ delivered[m] = {} => seq[m] = 0 /\ present[m] = NotPresent
    /\ delivered[m] # {} =>
         /\ seq[m] \in delivered[m]
         /\ \A s \in delivered[m] : s <= seq[m]
         /\ present[m] = Publish(issued[m][seq[m]])

(* The projection implements the register: sequence numbers and counts are *)
(* its own business, what it shows of a member is the newest report heard. *)
Register == INSTANCE PresenceRegister WITH shown <- present, Nothing <- NotPresent

RegisterSpec == Register!Spec
=============================================================================
