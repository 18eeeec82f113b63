------------------------------ MODULE MediaPlane ------------------------------
(* What a media plane promises through its port (internal/media/port.go),    *)
(* whatever unit is behind it: who is in a room, which rooms are closing,    *)
(* and who receives what.  Nothing flows but between two members of one      *)
(* room, nothing survives the member or the room it belonged to, and a room  *)
(* that began to close takes nobody in until it is gone.  A flow may also    *)
(* stop by itself: a unit loses subscriptions without telling anybody.       *)
CONSTANTS Rooms, Members, Kinds
VARIABLES inside,    \* set of <<room, member>>
          closing,   \* the rooms that admit nobody any more
          flows      \* set of <<room, subscriber, source member, source kind>>

planeVars == <<inside, closing, flows>>

Within(r, S) == {x \in S : x[1] = r}

Empty == inside = {} /\ closing = {} /\ flows = {}

Enters(r, m) ==
  /\ r \notin closing
  /\ <<r, m>> \notin inside
  /\ inside' = inside \cup {<<r, m>>}
  /\ UNCHANGED <<closing, flows>>

Parts(r, m) ==
  /\ inside' = inside \ {<<r, m>>}
  /\ flows' = {f \in flows : ~ (f[1] = r /\ m \in {f[2], f[3]})}
  /\ UNCHANGED closing

Receives(r, s, m, k) ==
  /\ {<<r, s>>, <<r, m>>} \subseteq inside
  /\ flows' = flows \cup {<<r, s, m, k>>}
  /\ UNCHANGED <<inside, closing>>

FlowsEnd ==
  /\ flows' \in SUBSET flows
  /\ UNCHANGED <<inside, closing>>

Closes(r) ==
  /\ closing' = closing \cup {r}
  /\ UNCHANGED <<inside, flows>>

IsDestroyed(r) ==
  /\ inside' = inside \ Within(r, inside)
  /\ flows' = flows \ Within(r, flows)
  /\ closing' = closing \ {r}

PlaneNext ==
  \/ FlowsEnd
  \/ \E r \in Rooms :
       \/ Closes(r)
       \/ IsDestroyed(r)
       \/ \E m \in Members : Enters(r, m) \/ Parts(r, m)
       \/ \E s, m \in Members, k \in Kinds : Receives(r, s, m, k)

PlaneSpec == Empty /\ [][PlaneNext]_planeVars
=============================================================================
