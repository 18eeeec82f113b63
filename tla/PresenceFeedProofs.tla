------------------------- MODULE PresenceFeedProofs -------------------------
(***************************************************************************)
(* The projection, fed with reordered, repeated and malformed reports,     *)
(* counts who it shows and implements the register, for every set of       *)
(* members and channels and every number of reports.                       *)
(***************************************************************************)
EXTENDS PresenceFeed, FiniteSetTheorems, TLAPS

-----------------------------------------------------------------------------
(* What one call of Apply preserves, whatever the report.                  *)

(* The whole seconds of an instant are an integer.                         *)
LEMMA UnixType ==
  ASSUME NEW instant \in Int
  PROVE  Unix(instant) \in Int
BY TicksAssumption DEF Unix

(* A published state is a presence, in the channel the state names.        *)
LEMMA PublishType ==
  ASSUME NEW state \in States
  PROVE  /\ Publish(state) \in Presences
         /\ Publish(state).channel = state.channel
         /\ state.channel \in Channels \cup {Zero}
<1>1. CASE state = NotPresent
  BY <1>1 DEF Publish, NotPresent, Presences
<1>2. CASE state \in [channel : Channels, since : Instants, muted : BOOLEAN]
  <2>1. state.channel # Zero /\ Unix(state.since) \in Int
    BY <1>2, ZeroAssumption, InstantsAssumption, UnixType
  <2> QED BY <1>2, <2>1 DEF Publish, Presences
<1> QED BY <1>1, <1>2 DEF States

(* Apply keeps the three maps well typed.                                  *)
LEMMA ApplyType ==
  ASSUME ProjectionTypeOK,
         NEW m \in Members \cup {Zero}, NEW s \in Nat, NEW state \in States,
         Apply(Report(m, s, state))
  PROVE  ProjectionTypeOK'
<1> DEFINE r == Report(m, s, state)
<1>1. CASE Refused(r)
  BY <1>1 DEF Apply, projectionVars, ProjectionTypeOK
<1>2. CASE ~Refused(r)
  <2>1. m \in Members
    BY <1>2 DEF Refused, Report
  <2>2. /\ seq' = [seq EXCEPT ![m] = s]
        /\ present' = [present EXCEPT ![m] = Publish(state)]
        /\ counts' = CountsAfter(present[m].channel, state.channel)
    BY <1>2 DEF Apply, Report
  <2>3. seq' \in [Members -> Nat] /\ present' \in [Members -> Presences]
    BY <2>1, <2>2, PublishType DEF ProjectionTypeOK
  <2>4. \A c \in Channels : Decrement(counts[c]) \in Nat /\ counts[c] + 1 \in Nat
    BY DEF Decrement, ProjectionTypeOK
  <2>5. counts' \in [Channels -> Nat]
    BY <2>2, <2>4 DEF CountsAfter, ProjectionTypeOK
  <2> QED BY <2>3, <2>5 DEF ProjectionTypeOK
<1> QED BY <1>1, <1>2

(* Apply moves at most one member between two occupant sets, and the       *)
(* counts with it.                                                         *)
LEMMA ApplyCounts ==
  ASSUME ProjectionTypeOK, CountsMatchOccupancy,
         NEW m \in Members \cup {Zero}, NEW s \in Nat, NEW state \in States,
         Apply(Report(m, s, state))
  PROVE  CountsMatchOccupancy'
<1> DEFINE r == Report(m, s, state)
<1>1. CASE Refused(r)
  BY <1>1 DEF Apply, projectionVars, CountsMatchOccupancy, Occupants
<1>2. CASE ~Refused(r)
  <2> DEFINE left == present[m].channel
             joined == state.channel
  <2>1. m \in Members
    BY <1>2 DEF Refused, Report
  <2>2. /\ present' = [present EXCEPT ![m] = Publish(state)]
        /\ counts' = CountsAfter(left, joined)
    BY <1>2 DEF Apply, Report
  <2>3. Publish(state).channel = joined
    BY PublishType
  <2>4. ASSUME NEW c \in Channels
        PROVE  Occupants(c)' = IF c = joined THEN Occupants(c) \cup {m}
                                             ELSE Occupants(c) \ {m}
    <3>1. \A n \in Members : present'[n] = IF n = m THEN Publish(state) ELSE present[n]
      BY <2>1, <2>2 DEF ProjectionTypeOK
    <3> QED BY <2>1, <2>3, <3>1 DEF Occupants
  <2>5. ASSUME NEW c \in Channels
        PROVE  IsFiniteSet(Occupants(c)) /\ (m \in Occupants(c) <=> c = left)
    <3>1. Occupants(c) \subseteq Members
      BY DEF Occupants
    <3>2. IsFiniteSet(Occupants(c))
      BY <3>1, MembersAssumption, FS_Subset
    <3> QED BY <2>1, <3>2 DEF Occupants
  <2>6. ASSUME NEW c \in Channels
        PROVE  counts'[c] = Cardinality(Occupants(c)')
    <3>1. /\ counts[c] = Cardinality(Occupants(c))
          /\ counts[c] \in Nat
      BY DEF CountsMatchOccupancy, ProjectionTypeOK
    <3>2. /\ Cardinality(Occupants(c) \cup {m}) = IF c = left THEN counts[c] ELSE counts[c] + 1
          /\ Cardinality(Occupants(c) \ {m}) = IF c = left THEN counts[c] - 1 ELSE counts[c]
      BY <2>5, <3>1, FS_AddElement, FS_RemoveElement
    <3>3. c = left => Decrement(counts[c]) = counts[c] - 1
      <4>1. SUFFICES ASSUME c = left PROVE counts[c] # 0
        BY <3>1 DEF Decrement
      <4> QED BY <2>5, <3>1, <4>1, FS_EmptySet
    <3>4. counts'[c] = IF left = joined THEN counts[c]
                       ELSE IF c = left THEN Decrement(counts[c])
                       ELSE IF c = joined THEN counts[c] + 1 ELSE counts[c]
      BY <2>2 DEF CountsAfter
    <3> QED BY <2>4, <3>2, <3>3, <3>4
  <2> QED BY <2>6 DEF CountsMatchOccupancy
<1> QED BY <1>1, <1>2

-----------------------------------------------------------------------------
(* What a report of the feed is made of.                                   *)
LEMMA IssuedIsState ==
  ASSUME TypeOK, NEW m \in Members, NEW s \in 1..Len(issued[m])
  PROVE  issued[m][s] \in States /\ s \in Nat \ {0}
BY DEF TypeOK

(* A malformed report is refused and changes nothing.                      *)
LEMMA MalformedIsRefused ==
  ASSUME NEW m \in Members, NEW s \in 1..MaxReports, ArriveMalformed(m, s)
  PROVE  UNCHANGED vars
BY DEF ArriveMalformed, Apply, Refused, Report, projectionVars, vars

-----------------------------------------------------------------------------
LEMMA InitType == Init => TypeOK
BY DEF Init, InitProjection, TypeOK, ProjectionTypeOK, Presences

LEMMA NextType == TypeOK /\ [Next]_vars => TypeOK'
<1> SUFFICES ASSUME TypeOK, [Next]_vars PROVE TypeOK'
  OBVIOUS
<1>1. ASSUME NEW m \in Members, NEW state \in States, Issue(m, state)
      PROVE  TypeOK'
  BY <1>1 DEF Issue, TypeOK, ProjectionTypeOK
<1>2. ASSUME NEW m \in Members, NEW s \in 1..MaxReports, Arrive(m, s)
      PROVE  TypeOK'
  <2>1. s \in 1..Len(issued[m]) /\ Apply(Report(m, s, issued[m][s]))
    BY <1>2 DEF Arrive
  <2>2. issued[m][s] \in States /\ s \in Nat
    BY <2>1, IssuedIsState
  <2>3. ProjectionTypeOK'
    BY <2>1, <2>2, ApplyType DEF TypeOK
  <2> QED BY <1>2, <2>2, <2>3 DEF Arrive, TypeOK
<1>3. ASSUME NEW m \in Members, NEW s \in 1..MaxReports, ArriveMalformed(m, s)
      PROVE  TypeOK'
  BY <1>3, MalformedIsRefused DEF vars, TypeOK, ProjectionTypeOK
<1>4. CASE UNCHANGED vars
  BY <1>4 DEF vars, TypeOK, ProjectionTypeOK
<1> QED BY <1>1, <1>2, <1>3, <1>4 DEF Next

(* The projection's maps, and the feed's, keep their types.                *)
THEOREM TypeCorrect == Spec => []TypeOK
<1>1. Init => TypeOK
  BY InitType
<1>2. TypeOK /\ [Next]_vars => TypeOK'
  BY NextType
<1> QED BY <1>1, <1>2, PTL DEF Spec

-----------------------------------------------------------------------------
(* The published count of every channel is the number of members published *)
(* in it, after any number of reports in any order.                        *)
THEOREM CountsAreOccupancy == Spec => []CountsMatchOccupancy
<1>1. Init => CountsMatchOccupancy
  <2> SUFFICES ASSUME Init, NEW c \in Channels
               PROVE  counts[c] = Cardinality(Occupants(c))
    BY DEF CountsMatchOccupancy
  <2>1. Occupants(c) = {}
    BY ZeroAssumption DEF Init, InitProjection, Occupants, NotPresent
  <2> QED BY <2>1, FS_EmptySet DEF Init, InitProjection
<1>2. TypeOK /\ CountsMatchOccupancy /\ [Next]_vars => CountsMatchOccupancy'
  <2> SUFFICES ASSUME TypeOK, CountsMatchOccupancy, [Next]_vars
               PROVE  CountsMatchOccupancy'
    OBVIOUS
  <2>1. ASSUME NEW m \in Members, NEW state \in States, Issue(m, state)
        PROVE  CountsMatchOccupancy'
    BY <2>1 DEF Issue, CountsMatchOccupancy, Occupants
  <2>2. ASSUME NEW m \in Members, NEW s \in 1..MaxReports, Arrive(m, s)
        PROVE  CountsMatchOccupancy'
    <3>1. s \in 1..Len(issued[m]) /\ Apply(Report(m, s, issued[m][s]))
      BY <2>2 DEF Arrive
    <3>2. issued[m][s] \in States /\ s \in Nat
      BY <3>1, IssuedIsState
    <3> QED BY <3>1, <3>2, ApplyCounts DEF TypeOK
  <2>3. ASSUME NEW m \in Members, NEW s \in 1..MaxReports, ArriveMalformed(m, s)
        PROVE  CountsMatchOccupancy'
    BY <2>3, MalformedIsRefused DEF vars, CountsMatchOccupancy, Occupants
  <2>4. CASE UNCHANGED vars
    BY <2>4 DEF vars, CountsMatchOccupancy, Occupants
  <2> QED BY <2>1, <2>2, <2>3, <2>4 DEF Next
<1> QED BY <1>1, <1>2, TypeCorrect, PTL DEF Spec

-----------------------------------------------------------------------------
(* HoldsNewest of one member: the three maps of the feed agree on it.      *)
NewestOf(m) ==
  /\ delivered[m] \subseteq 1..Len(issued[m])
  /\ delivered[m] = {} => seq[m] = 0 /\ present[m] = NotPresent
  /\ delivered[m] # {} =>
       /\ seq[m] \in delivered[m]
       /\ \A s \in delivered[m] : s <= seq[m]
       /\ present[m] = Publish(issued[m][seq[m]])

LEMMA InitNewest == Init => HoldsNewest
BY DEF Init, InitProjection, HoldsNewest

LEMMA NextNewest == TypeOK /\ HoldsNewest /\ [Next]_vars => HoldsNewest'
<1> SUFFICES ASSUME TypeOK, HoldsNewest, [Next]_vars PROVE HoldsNewest'
  OBVIOUS
<1>0. \A n \in Members : NewestOf(n)
  BY DEF HoldsNewest, NewestOf
<1>1. ASSUME NEW m \in Members, NEW state \in States, Issue(m, state)
      PROVE  HoldsNewest'
  <2>1. issued' = [issued EXCEPT ![m] = Append(@, state)] /\ UNCHANGED <<seq, present, delivered>>
    BY <1>1 DEF Issue
  <2>2. ASSUME NEW n \in Members PROVE NewestOf(n)'
    <3>1. issued[n] \in Seq(States)
      BY DEF TypeOK
    <3>2. /\ Len(issued'[n]) \in Nat /\ Len(issued'[n]) >= Len(issued[n])
          /\ \A s \in 1..Len(issued[n]) : issued'[n][s] = issued[n][s]
      BY <2>1, <3>1 DEF TypeOK
    <3>3. delivered[n] # {} => seq[n] \in 1..Len(issued[n])
      BY <1>0 DEF NewestOf
    <3> QED BY <1>0, <2>1, <3>1, <3>2, <3>3 DEF NewestOf
  <2> QED BY <2>2 DEF HoldsNewest, NewestOf
<1>2. ASSUME NEW m \in Members, NEW s \in 1..MaxReports, Arrive(m, s)
      PROVE  HoldsNewest'
  <2> DEFINE r == Report(m, s, issued[m][s])
  <2>1. /\ s \in 1..Len(issued[m])
        /\ Apply(r)
        /\ delivered' = [delivered EXCEPT ![m] = @ \cup {s}]
        /\ issued' = issued
    BY <1>2 DEF Arrive
  <2>2. /\ s \in Nat \ {0}
        /\ seq \in [Members -> Nat] /\ present \in [Members -> Presences]
        /\ delivered \in [Members -> SUBSET Nat]
    BY <2>1, IssuedIsState DEF TypeOK, ProjectionTypeOK
  <2>3. Refused(r) <=> seq[m] > 0 /\ s <= seq[m]
    BY <2>2, ZeroAssumption DEF Refused, Report
  <2>4. ASSUME NEW n \in Members, n # m PROVE NewestOf(n)'
    BY <1>0, <2>1, <2>2, <2>4 DEF NewestOf, Apply, Report, projectionVars
  <2>5. NewestOf(m)'
    <3>1. delivered'[m] = delivered[m] \cup {s}
      BY <2>1, <2>2
    <3>2. CASE Refused(r)
      <4>1. seq' = seq /\ present' = present
        BY <2>1, <3>2 DEF Apply, projectionVars
      <4>2. delivered[m] # {}
        BY <1>0, <2>2, <2>3, <3>2 DEF NewestOf
      <4> QED BY <1>0, <2>1, <2>3, <3>1, <3>2, <4>1, <4>2 DEF NewestOf
    <3>3. CASE ~Refused(r)
      <4>1. seq'[m] = s /\ present'[m] = Publish(issued[m][s])
        BY <2>1, <2>2, <3>3 DEF Apply, Report
      <4>2. \A t \in delivered[m] : t <= s
        BY <1>0, <2>2, <2>3, <3>3 DEF NewestOf
      <4> QED BY <1>0, <2>1, <2>2, <3>1, <4>1, <4>2 DEF NewestOf
    <3> QED BY <3>2, <3>3
  <2> QED BY <2>4, <2>5 DEF HoldsNewest, NewestOf
<1>3. ASSUME NEW m \in Members, NEW s \in 1..MaxReports, ArriveMalformed(m, s)
      PROVE  HoldsNewest'
  BY <1>3, MalformedIsRefused DEF vars, HoldsNewest
<1>4. CASE UNCHANGED vars
  BY <1>4 DEF vars, HoldsNewest
<1> QED BY <1>1, <1>2, <1>3, <1>4 DEF Next

(* What is held of a member is the newest report that ever arrived.        *)
THEOREM NewestIsHeld == Spec => []HoldsNewest
<1>1. Init => HoldsNewest
  BY InitNewest
<1>2. TypeOK /\ HoldsNewest /\ [Next]_vars => HoldsNewest'
  BY NextNewest
<1> QED BY <1>1, <1>2, TypeCorrect, PTL DEF Spec

-----------------------------------------------------------------------------
(* With the newest report held, an arrival shows what the register says.   *)
LEMMA ArriveShowsNewest ==
  ASSUME HoldsNewest', NEW m \in Members, delivered'[m] # {}, delivered' \in [Members -> SUBSET Nat]
  PROVE  present'[m] = Publish(issued'[m][Register!Newest(delivered'[m])])
<1>1. /\ seq'[m] \in delivered'[m]
      /\ \A s \in delivered'[m] : s <= seq'[m]
      /\ present'[m] = Publish(issued'[m][seq'[m]])
  BY DEF HoldsNewest
<1>2. \A p \in delivered'[m] : (\A q \in delivered'[m] : q <= p) => p = seq'[m]
  BY <1>1
<1>3. Register!Newest(delivered'[m]) = seq'[m]
  BY <1>1, <1>2 DEF Register!Newest
<1> QED BY <1>1, <1>3

(* The projection implements the register: every call of Apply is an       *)
(* arrival the register allows, or changes nothing it can see.             *)
THEOREM ImplementsRegister == Spec => RegisterSpec
<1>1. Init => Register!Init
  BY DEF Init, InitProjection, Register!Init
<1>2. TypeOK /\ TypeOK' /\ HoldsNewest /\ HoldsNewest' /\ [Next]_vars => [Register!Next]_(Register!vars)
  <2> SUFFICES ASSUME TypeOK, TypeOK', HoldsNewest, HoldsNewest', [Next]_vars
               PROVE  [Register!Next]_(Register!vars)
    OBVIOUS
  <2>1. ASSUME NEW m \in Members, NEW state \in States, Issue(m, state)
        PROVE  Register!Next
    BY <2>1 DEF Issue, Register!Issue, Register!Next
  <2>2. ASSUME NEW m \in Members, NEW s \in 1..MaxReports, Arrive(m, s)
        PROVE  Register!Next
    <3>1. /\ s \in 1..Len(issued[m])
          /\ Apply(Report(m, s, issued[m][s]))
          /\ delivered' = [delivered EXCEPT ![m] = @ \cup {s}]
          /\ issued' = issued
      BY <2>2 DEF Arrive
    <3>2. delivered'[m] # {} /\ delivered' \in [Members -> SUBSET Nat]
      BY <3>1 DEF TypeOK
    <3>3. present'[m] = Publish(issued[m][Register!Newest(delivered'[m])])
      BY <3>1, <3>2, ArriveShowsNewest
    <3>4. present' = [present EXCEPT ![m] = present'[m]]
      BY <3>1 DEF Apply, Report, projectionVars, TypeOK, ProjectionTypeOK
    <3>5. Register!Arrive(m, s)
      BY <3>1, <3>3, <3>4 DEF Register!Arrive
    <3> QED BY <3>5 DEF Register!Next
  <2>3. ASSUME NEW m \in Members, NEW s \in 1..MaxReports, ArriveMalformed(m, s)
        PROVE  UNCHANGED Register!vars
    BY <2>3, MalformedIsRefused DEF vars, Register!vars
  <2>4. CASE UNCHANGED vars
    BY <2>4 DEF vars, Register!vars
  <2> QED BY <2>1, <2>2, <2>3, <2>4 DEF Next
<1> QED BY <1>1, <1>2, TypeCorrect, NewestIsHeld, PTL DEF Spec, RegisterSpec, Register!Spec
=============================================================================
