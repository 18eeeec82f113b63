------------------------- MODULE MCPresenceAudience -------------------------
(* Finite instances of PresenceAudience: who each connection is.           *)
EXTENDS PresenceAudience

CONSTANTS ada, bob, laptop, phone

(* One connection of ada's.                                                *)
OneClient == [cl \in {laptop} |-> ada]

(* Two people.                                                             *)
TwoViewers == [cl \in {laptop, phone} |-> IF cl = laptop THEN ada ELSE bob]
=============================================================================
