------------------------- MODULE PresenceProjection -------------------------
(***************************************************************************)
(* The occupancy state the presence fan-out is derived from               *)
(* (internal/orchestration/presence.go): one register per member, written  *)
(* by reports that carry the member's whole state and the member's own     *)
(* sequence number, and an occupancy count per channel kept beside the     *)
(* registers.                                                              *)
(*                                                                         *)
(* This module holds the type's three maps and its one mutator.  It has no *)
(* specification of its own: PresenceFeed drives it with one member's      *)
(* reports in any order, PresenceHub with what reaches the server.         *)
(***************************************************************************)
EXTENDS Integers, FiniteSets

CONSTANTS
  Members,         \* identifiers of members
  Channels,        \* identifiers of channels
  Zero,            \* the zero ID, which names nothing
  TicksPerSecond,  \* the clock's resolution: instants are ticks
  Instants         \* the instants a member may have arrived at

ASSUME ZeroAssumption == Zero \notin Members /\ Zero \notin Channels
ASSUME TicksAssumption == TicksPerSecond \in Nat \ {0}
ASSUME InstantsAssumption == Instants \subseteq Int
ASSUME MembersAssumption == IsFiniteSet(Members)

VARIABLES
  seq,      \* member -> highest sequence accepted, 0 when none was
  present,  \* member -> published presence, NotPresent when in no channel
  counts    \* channel -> occupancy, 0 when the map has no entry

projectionVars == <<seq, present, counts>>

-----------------------------------------------------------------------------
(* The zero Presence is what reading an absent member's entry yields; an   *)
(* entry that exists always names a channel.                               *)
NotPresent == [channel |-> Zero, since |-> 0, muted |-> FALSE]

Presences == [channel : Channels, since : Int, muted : BOOLEAN] \cup {NotPresent}

Occupants(channel) == {m \in Members : present[m].channel = channel}

(* time.Time.Unix: whole seconds.                                          *)
Unix(instant) == instant \div TicksPerSecond

(* A member's state as it is reported: a channel, the instant they arrived *)
(* and whether they muted themselves.  A leave names the zero channel and  *)
(* leaves the rest at its zero value.                                      *)
States ==
  [channel : Channels, since : Instants, muted : BOOLEAN] \cup {NotPresent}

Report(m, s, state) == [member |-> m, seq |-> s, state |-> state]

(* What a reported state looks like once published.                        *)
Publish(state) ==
  IF state.channel = Zero
    THEN NotPresent
    ELSE [channel |-> state.channel,
          since   |-> Unix(state.since),
          muted   |-> state.muted]

-----------------------------------------------------------------------------
InitProjection ==
  /\ seq = [m \in Members |-> 0]
  /\ present = [m \in Members |-> NotPresent]
  /\ counts = [c \in Channels |-> 0]

(* Mutation of Refused: the order of a member's reports is not looked at.  *)
RefusedInAnyOrder(r) == r.member = Zero \/ r.seq = 0

(* A report is refused when it names no member, carries no sequence, or is *)
(* at or behind the one held.                                              *)
Refused(r) ==
  \/ r.member = Zero
  \/ r.seq = 0
  \/ seq[r.member] > 0 /\ r.seq <= seq[r.member]

(* An accepted report that publishes what is already published reports no  *)
(* change, and neither does a leave of a member who is in no channel.      *)
ChangesNothing(r) == Publish(r.state) = present[r.member]

Moves(r) == ~Refused(r) /\ ~ChangesNothing(r)

(* The count of a channel one occupant fewer: a channel down to its last   *)
(* occupant loses its entry.                                               *)
Decrement(count) == IF count <= 1 THEN 0 ELSE count - 1

(* Mutation of CountsAfter: a move counts up what it leaves and down what  *)
(* it joins.                                                               *)
CountsBackwards(left, joined) ==
  [c \in Channels |->
     IF left = joined THEN counts[c]
     ELSE IF c = left THEN counts[c] + 1
     ELSE IF c = joined THEN counts[c] - 1
     ELSE counts[c]]

(* Mutation of CountsAfter: the channel a member left keeps its count.     *)
CountsOfArrivals(left, joined) ==
  [c \in Channels |-> IF c = joined /\ left # joined THEN counts[c] + 1 ELSE counts[c]]

CountsAfter(left, joined) ==
  [c \in Channels |->
     IF left = joined THEN counts[c]
     ELSE IF c = left THEN Decrement(counts[c])
     ELSE IF c = joined THEN counts[c] + 1
     ELSE counts[c]]

(* Mutation of Apply: a leave takes the member's sequence along.           *)
ApplyForgettingLeavers(r) ==
  IF Refused(r)
    THEN UNCHANGED projectionVars
    ELSE /\ seq' = [seq EXCEPT ![r.member] = IF r.state.channel = Zero THEN 0 ELSE r.seq]
         /\ present' = [present EXCEPT ![r.member] = Publish(r.state)]
         /\ counts' = CountsAfter(present[r.member].channel, r.state.channel)

Apply(r) ==
  IF Refused(r)
    THEN UNCHANGED projectionVars
    ELSE /\ seq' = [seq EXCEPT ![r.member] = r.seq]
         /\ present' = [present EXCEPT ![r.member] = Publish(r.state)]
         /\ counts' = CountsAfter(present[r.member].channel, r.state.channel)

-----------------------------------------------------------------------------
ProjectionTypeOK ==
  /\ seq \in [Members -> Nat]
  /\ present \in [Members -> Presences]
  /\ counts \in [Channels -> Nat]

(* The count published for every channel is the number of members          *)
(* published in it, although the two are maintained separately: Apply      *)
(* moves the counts one at a time and never recounts.                      *)
CountsMatchOccupancy ==
  \A c \in Channels : counts[c] = Cardinality(Occupants(c))
=============================================================================
