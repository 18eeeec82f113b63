----------------------- MODULE PresenceAudienceProofs -----------------------
(***************************************************************************)
(* What the clients of a hub hold, for every set of members, channels and  *)
(* connections: nothing they may not see, and, as long as grants can be    *)
(* read, nothing stale that the next flush does not correct.               *)
(***************************************************************************)
EXTENDS PresenceAudience, FiniteSetTheorems, TLAPS

-----------------------------------------------------------------------------
(* What one call of the hub preserves.                                     *)

(* The whole seconds of an instant are an integer.                         *)
LEMMA UnixType ==
  ASSUME NEW instant \in Int
  PROVE  Unix(instant) \in Int
BY TicksAssumption DEF Unix

(* A published state is a presence, in the channel the state names.        *)
LEMMA PublishType ==
  ASSUME NEW state \in States
  PROVE  /\ Publish(state) \in Presences
         /\ Publish(state).channel = state.channel
         /\ state.channel \in Channels \cup {Zero}
<1>1. CASE state = NotPresent
  BY <1>1 DEF Publish, NotPresent, Presences
<1>2. CASE state \in [channel : Channels, since : Instants, muted : BOOLEAN]
  <2>1. state.channel # Zero /\ Unix(state.since) \in Int
    BY <1>2, ZeroAssumption, InstantsAssumption, UnixType
  <2> QED BY <1>2, <2>1 DEF Publish, Presences
<1> QED BY <1>1, <1>2 DEF States

(* Apply keeps the three maps well typed.                                  *)
LEMMA ApplyType ==
  ASSUME ProjectionTypeOK,
         NEW m \in Members \cup {Zero}, NEW s \in Nat, NEW state \in States,
         Apply(Report(m, s, state))
  PROVE  ProjectionTypeOK'
<1> DEFINE r == Report(m, s, state)
<1>1. CASE Refused(r)
  BY <1>1 DEF Apply, projectionVars, ProjectionTypeOK
<1>2. CASE ~Refused(r)
  <2>1. m \in Members
    BY <1>2 DEF Refused, Report
  <2>2. /\ seq' = [seq EXCEPT ![m] = s]
        /\ present' = [present EXCEPT ![m] = Publish(state)]
        /\ counts' = CountsAfter(present[m].channel, state.channel)
    BY <1>2 DEF Apply, Report
  <2>3. seq' \in [Members -> Nat] /\ present' \in [Members -> Presences]
    BY <2>1, <2>2, PublishType DEF ProjectionTypeOK
  <2>4. \A c \in Channels : Decrement(counts[c]) \in Nat /\ counts[c] + 1 \in Nat
    BY DEF Decrement, ProjectionTypeOK
  <2>5. counts' \in [Channels -> Nat]
    BY <2>2, <2>4 DEF CountsAfter, ProjectionTypeOK
  <2> QED BY <2>3, <2>5 DEF ProjectionTypeOK
<1> QED BY <1>1, <1>2

(* Apply moves at most one member between two occupant sets, and the       *)
(* counts with it.                                                         *)
LEMMA ApplyCounts ==
  ASSUME ProjectionTypeOK, CountsMatchOccupancy,
         NEW m \in Members \cup {Zero}, NEW s \in Nat, NEW state \in States,
         Apply(Report(m, s, state))
  PROVE  CountsMatchOccupancy'
<1> DEFINE r == Report(m, s, state)
<1>1. CASE Refused(r)
  BY <1>1 DEF Apply, projectionVars, CountsMatchOccupancy, Occupants
<1>2. CASE ~Refused(r)
  <2> DEFINE left == present[m].channel
             joined == state.channel
  <2>1. m \in Members
    BY <1>2 DEF Refused, Report
  <2>2. /\ present' = [present EXCEPT ![m] = Publish(state)]
        /\ counts' = CountsAfter(left, joined)
    BY <1>2 DEF Apply, Report
  <2>3. Publish(state).channel = joined
    BY PublishType
  <2>4. ASSUME NEW c \in Channels
        PROVE  Occupants(c)' = IF c = joined THEN Occupants(c) \cup {m}
                                             ELSE Occupants(c) \ {m}
    <3>1. \A n \in Members : present'[n] = IF n = m THEN Publish(state) ELSE present[n]
      BY <2>1, <2>2 DEF ProjectionTypeOK
    <3> QED BY <2>1, <2>3, <3>1 DEF Occupants
  <2>5. ASSUME NEW c \in Channels
        PROVE  IsFiniteSet(Occupants(c)) /\ (m \in Occupants(c) <=> c = left)
    <3>1. Occupants(c) \subseteq Members
      BY DEF Occupants
    <3>2. IsFiniteSet(Occupants(c))
      BY <3>1, MembersAssumption, FS_Subset
    <3> QED BY <2>1, <3>2 DEF Occupants
  <2>6. ASSUME NEW c \in Channels
        PROVE  counts'[c] = Cardinality(Occupants(c)')
    <3>1. /\ counts[c] = Cardinality(Occupants(c))
          /\ counts[c] \in Nat
      BY DEF CountsMatchOccupancy, ProjectionTypeOK
    <3>2. /\ Cardinality(Occupants(c) \cup {m}) = IF c = left THEN counts[c] ELSE counts[c] + 1
          /\ Cardinality(Occupants(c) \ {m}) = IF c = left THEN counts[c] - 1 ELSE counts[c]
      BY <2>5, <3>1, FS_AddElement, FS_RemoveElement
    <3>3. c = left => Decrement(counts[c]) = counts[c] - 1
      <4>1. SUFFICES ASSUME c = left PROVE counts[c] # 0
        BY <3>1 DEF Decrement
      <4> QED BY <2>5, <3>1, <4>1, FS_EmptySet
    <3>4. counts'[c] = IF left = joined THEN counts[c]
                       ELSE IF c = left THEN Decrement(counts[c])
                       ELSE IF c = joined THEN counts[c] + 1 ELSE counts[c]
      BY <2>2 DEF CountsAfter
    <3> QED BY <2>4, <3>2, <3>3, <3>4
  <2> QED BY <2>6 DEF CountsMatchOccupancy
<1> QED BY <1>1, <1>2

LEMMA QuietType == Quiet \in Pendings
BY DEF Quiet, Pendings

LEMMA NotPresentType == NotPresent \in Presences /\ NotPresent # None
BY NoneAssumption DEF Presences

LEMMA ListType ==
  ASSUME HubTypeOK, NEW c \in Channels
  PROVE  ListOf(c) \in [Members -> Presences]
BY NotPresentType DEF ListOf, HubTypeOK, ProjectionTypeOK

-----------------------------------------------------------------------------
(* Every call but Apply leaves the projection alone; with Apply's own type *)
(* lemma, every call keeps the hub's types.                                *)
LEMMA HubApplyType ==
  ASSUME HubTypeOK, NEW m \in Members \cup {Zero}, NEW s \in Nat, NEW state \in States,
         HubApply(Report(m, s, state))
  PROVE  HubTypeOK'
<1> DEFINE r == Report(m, s, state)
           left == present[m].channel
           now == Publish(state)
<1>1. Apply(r) /\ UNCHANGED <<known, grants, attached, subscribed>>
  BY DEF HubApply
<1>2. ProjectionTypeOK'
  BY <1>1, ApplyType DEF HubTypeOK
<1>3. pending' \in [Channels -> Pendings]
  <2>1. CASE ~Moves(r)
    BY <2>1 DEF HubApply, HubTypeOK
  <2>2. CASE Moves(r)
    <3>1. m \in Members
      BY <2>2 DEF Moves, Refused, Report
    <3>2. pending' = Recorded(m, left, now)
      BY <2>2 DEF HubApply, Report
    <3>3. now \in Presences
      BY PublishType
    <3>4. ASSUME NEW c \in Channels PROVE pending'[c] \in Pendings
      <4>1. pending[c].moved \in BOOLEAN /\ pending[c].members \in [Members -> Presences \cup {None}]
        BY DEF HubTypeOK, Pendings
      <4>2. /\ [pending[c].members EXCEPT ![m] = now] \in [Members -> Presences \cup {None}]
            /\ [pending[c].members EXCEPT ![m] = NotPresent] \in [Members -> Presences \cup {None}]
        BY <3>1, <3>3, <4>1, NotPresentType
      <4>3. /\ [moved |-> pending[c].moved \/ left # now.channel,
                members |-> [pending[c].members EXCEPT ![m] = now]] \in Pendings
            /\ [moved |-> TRUE,
                members |-> [pending[c].members EXCEPT ![m] = NotPresent]] \in Pendings
        BY <4>1, <4>2 DEF Pendings
      <4> QED BY <3>2, <4>3 DEF Recorded, HubTypeOK
    <3> QED BY <3>2, <3>4 DEF Recorded
  <2> QED BY <2>1, <2>2
<1> QED BY <1>1, <1>2, <1>3 DEF HubTypeOK

(* A report that moves nothing publishes what is published already.        *)
LEMMA IdleReport ==
  ASSUME HubTypeOK, NEW m \in Members \cup {Zero}, NEW s \in Nat, NEW state \in States,
         HubApply(Report(m, s, state)), ~Moves(Report(m, s, state))
  PROVE  present' = present /\ counts' = counts /\ pending' = pending
<1> DEFINE r == Report(m, s, state)
<1>1. pending' = pending /\ Apply(r)
  BY DEF HubApply
<1>2. CASE Refused(r)
  BY <1>1, <1>2 DEF Apply, projectionVars
<1>3. CASE ~Refused(r)
  <2>1. Publish(state) = present[m] /\ m \in Members
    BY <1>3 DEF Moves, ChangesNothing, Refused, Report
  <2>2. present' = present
    BY <1>1, <1>3, <2>1 DEF Apply, Report, HubTypeOK, ProjectionTypeOK
  <2>3. present[m].channel = state.channel
    BY <2>1, PublishType
  <2>4. counts' = [c \in Channels |-> counts[c]]
    BY <1>1, <1>3, <2>3 DEF Apply, Report, CountsAfter
  <2> QED BY <1>1, <2>2, <2>4 DEF HubTypeOK, ProjectionTypeOK
<1> QED BY <1>2, <1>3

(* A report that moves something records it: every count and every list    *)
(* entry it changes becomes an update, and no update already recorded is   *)
(* lost.                                                                   *)
LEMMA ReportIsRecorded ==
  ASSUME HubTypeOK, NEW m \in Members \cup {Zero}, NEW s \in Nat, NEW state \in States,
         HubApply(Report(m, s, state)), NEW c \in Channels
  PROVE  /\ counts'[c] # counts[c] => pending'[c].moved
         /\ pending[c].moved => pending'[c].moved
         /\ \A n \in Members :
              /\ ListOf(c)'[n] # ListOf(c)[n] => pending'[c].members[n] = ListOf(c)'[n]
              /\ pending'[c].members[n] \in {pending[c].members[n], ListOf(c)'[n]}
              /\ pending[c].members[n] # None => pending'[c].members[n] # None
<1> DEFINE r == Report(m, s, state)
           left == present[m].channel
           now == Publish(state)
<1>1. CASE ~Moves(r)
  <2>1. present' = present /\ counts' = counts /\ pending' = pending
    BY <1>1, IdleReport
  <2> QED BY <2>1 DEF ListOf
<1>2. CASE Moves(r)
  <2>1. m \in Members /\ ~Refused(r)
    BY <1>2 DEF Moves, Refused, Report
  <2>2. /\ pending' = Recorded(m, left, now)
        /\ present' = [present EXCEPT ![m] = now]
        /\ counts' = CountsAfter(left, state.channel)
    BY <1>2, <2>1 DEF HubApply, Apply, Report
  <2>3. now \in Presences /\ now.channel = state.channel /\ NotPresent \in Presences
    BY PublishType, NotPresentType
  <2>4. present \in [Members -> Presences] /\ now # None /\ NotPresent # None
    BY <2>3, NoneAssumption DEF HubTypeOK, ProjectionTypeOK
  <2>5. pending[c].members \in [Members -> Presences \cup {None}] /\ pending[c].moved \in BOOLEAN
    BY DEF HubTypeOK, Pendings
  <2>6. /\ counts'[c] # counts[c] => left # now.channel /\ c \in {left, now.channel}
        /\ \A n \in Members : ListOf(c)'[n] = IF n = m
                                THEN IF now.channel = c THEN now ELSE NotPresent
                                ELSE ListOf(c)[n]
        /\ c # left => ListOf(c)[m] = NotPresent
    BY <2>1, <2>2, <2>3, <2>4 DEF CountsAfter, ListOf
  <2>7. CASE c = now.channel
    <3>1. /\ pending'[c].moved = (pending[c].moved \/ left # now.channel)
          /\ pending'[c].members = [pending[c].members EXCEPT ![m] = now]
      BY <2>2, <2>7 DEF Recorded
    <3>2. \A n \in Members : pending'[c].members[n] = IF n = m THEN now ELSE pending[c].members[n]
      BY <2>1, <2>5, <3>1
    <3> QED BY <2>4, <2>6, <2>7, <3>1, <3>2
  <2>8. CASE c # now.channel /\ c = left
    <3>1. /\ pending'[c].moved
          /\ pending'[c].members = [pending[c].members EXCEPT ![m] = NotPresent]
      BY <2>2, <2>8 DEF Recorded
    <3>2. \A n \in Members : pending'[c].members[n] = IF n = m THEN NotPresent ELSE pending[c].members[n]
      BY <2>1, <2>5, <3>1
    <3> QED BY <2>4, <2>6, <2>8, <3>1, <3>2
  <2>9. CASE c # now.channel /\ c # left
    <3>1. pending'[c] = pending[c]
      BY <2>2, <2>9 DEF Recorded
    <3> QED BY <2>6, <2>9, <3>1
  <2> QED BY <2>7, <2>8, <2>9
<1> QED BY <1>1, <1>2

(* Coalescing keeps the last word: what is pending stays what is true.     *)
LEMMA PendingStaysCurrent ==
  ASSUME HubTypeOK, PendingIsCurrent,
         NEW m \in Members \cup {Zero}, NEW s \in Nat, NEW state \in States,
         HubApply(Report(m, s, state))
  PROVE  PendingIsCurrent'
<1> SUFFICES ASSUME NEW c \in Channels, NEW n \in Members
             PROVE  pending'[c].members[n] \in {None, ListOf(c)'[n]}
  BY DEF PendingIsCurrent
<1>1. pending[c].members[n] \in {None, ListOf(c)[n]}
  BY DEF PendingIsCurrent
<1> QED BY <1>1, ReportIsRecorded

-----------------------------------------------------------------------------
LEMMA SeesNobodyType ==
  /\ SeesNobody \in [Channels -> [Members -> Presences]]
  /\ ToldNothing \in [Channels -> Nat \cup {None}]
BY NotPresentType DEF SeesNobody, ToldNothing

(* What the arguments of a step of Next are.                               *)
LEMMA ReportArguments ==
  ASSUME NEW m \in Members, NEW s \in 1..MaxSeq, NEW state \in States
  PROVE  m \in Members \cup {Zero} /\ s \in Nat
BY MaxSeqAssumption

-----------------------------------------------------------------------------
LEMMA InitType == Init => TypeOK
<1> SUFFICES ASSUME Init PROVE TypeOK
  OBVIOUS
<1>1. HubTypeOK
  BY QuietType, NotPresentType DEF Init, InitHub, InitProjection, HubTypeOK, ProjectionTypeOK
<1> QED BY <1>1, SeesNobodyType DEF Init, TypeOK

(* A flush folds presences into lists of presences.                        *)
LEMMA UpdatedType ==
  ASSUME TypeOK, NEW cl \in Clients, NEW c \in Channels
  PROVE  Updated(seen[cl][c], c) \in [Members -> Presences]
<1>1. /\ seen[cl][c] \in [Members -> Presences]
      /\ pending[c].members \in [Members -> Presences \cup {None}]
  BY DEF TypeOK, HubTypeOK, Pendings
<1> QED BY <1>1 DEF Updated

LEMMA NextType == TypeOK /\ [Next]_vars => TypeOK'
<1> SUFFICES ASSUME TypeOK, [Next]_vars PROVE TypeOK'
  OBVIOUS
<1> USE DEF TypeOK
<1>1. ASSUME NEW c \in Channels, ChannelIsAdded(c) PROVE TypeOK'
  BY <1>1 DEF ChannelIsAdded, AddChannel, HubTypeOK, ProjectionTypeOK
<1>2. ASSUME NEW cl \in Clients, NEW c \in Channels, GrantIsMade(ViewerOf[cl], c) PROVE TypeOK'
  <2>1. ViewerOf[cl] \in Members
    BY ViewerAssumption
  <2> QED BY <1>2, <2>1 DEF GrantIsMade, Grant, HubTypeOK, ProjectionTypeOK
<1>3. ASSUME NEW cl \in Clients, ClientDetaches(cl) PROVE TypeOK'
  <2>1. HubTypeOK'
    BY <1>3 DEF ClientDetaches, Detach, HubTypeOK, ProjectionTypeOK
  <2> QED BY <1>3, <2>1, SeesNobodyType DEF ClientDetaches
<1>4. ASSUME NEW cl \in Clients, NEW c \in Channels, ClientUnsubscribes(cl, c) PROVE TypeOK'
  <2>1. HubTypeOK'
    BY <1>4 DEF ClientUnsubscribes, Unsubscribe, HubTypeOK, ProjectionTypeOK
  <2> QED BY <1>4, <2>1, SeesNobodyType DEF ClientUnsubscribes
<1>5. ASSUME NEW cl \in Clients, NEW f \in Failures, ClientAttaches(cl, f) PROVE TypeOK'
  <2>1. HubTypeOK'
    BY <1>5 DEF ClientAttaches, Attach, HubTypeOK, ProjectionTypeOK
  <2> QED BY <1>5, <2>1 DEF ClientAttaches, HubTypeOK, ProjectionTypeOK
<1>6. ASSUME NEW cl \in Clients, NEW c \in Channels, NEW f \in Failures, ClientSubscribes(cl, c, f)
      PROVE  TypeOK'
  <2>1. HubTypeOK'
    BY <1>6 DEF ClientSubscribes, Subscribe, HubTypeOK, ProjectionTypeOK
  <2>2. counts[c] \in Nat /\ ListOf(c) \in [Members -> Presences]
    BY ListType DEF HubTypeOK, ProjectionTypeOK
  <2> QED BY <1>6, <2>1, <2>2 DEF ClientSubscribes
<1>7. ASSUME NEW m \in Members, NEW s \in 1..MaxSeq, NEW state \in States,
             ReportArrives(Report(m, s, state))
      PROVE  TypeOK'
  BY <1>7, ReportArguments, HubApplyType DEF ReportArrives
<1>8. ASSUME NEW f \in Failures, IntervalEnds(f) PROVE TypeOK'
  <2>1. HubTypeOK'
    BY <1>8, QuietType DEF IntervalEnds, Flush, HubTypeOK, ProjectionTypeOK
  <2> QED BY <1>8, <2>1, UpdatedType DEF IntervalEnds, HubTypeOK, ProjectionTypeOK
<1>9. CASE UNCHANGED vars
  BY <1>9 DEF vars, hubVars, HubTypeOK, ProjectionTypeOK
<1> QED BY <1>1, <1>2, <1>3, <1>4, <1>5, <1>6, <1>7, <1>8, <1>9 DEF Next

(* The hub and the screens keep their types.                               *)
THEOREM TypeCorrect == Spec => []TypeOK
<1>1. Init => TypeOK
  BY InitType
<1>2. TypeOK /\ [Next]_vars => TypeOK'
  BY NextType
<1> QED BY <1>1, <1>2, PTL DEF Spec

(* Only a report moves anybody, and apart from reports what is pending is  *)
(* kept or, at the end of an interval, cleared.                            *)
LEMMA OnlyReportsMove ==
  ASSUME [Next]_vars
  PROVE  \/ \E m \in Members, s \in 1..MaxSeq, state \in States :
              ReportArrives(Report(m, s, state))
         \/ /\ UNCHANGED <<present, counts>>
            /\ pending' \in {pending, [c \in Channels |-> Quiet]}
BY DEF Next, ChannelIsAdded, AddChannel, GrantIsMade, Grant, ClientAttaches, Attach,
       ClientDetaches, Detach, ClientSubscribes, Subscribe, ClientUnsubscribes, Unsubscribe,
       IntervalEnds, Flush, vars, hubVars

(* The counts are the occupancy under whatever the clients do as well.     *)
THEOREM CountsAreOccupancy == Spec => []CountsMatchOccupancy
<1>1. Init => CountsMatchOccupancy
  <2> SUFFICES ASSUME Init, NEW c \in Channels
               PROVE  counts[c] = Cardinality(Occupants(c))
    BY DEF CountsMatchOccupancy
  <2>1. Occupants(c) = {}
    BY ZeroAssumption DEF Init, InitHub, InitProjection, Occupants, NotPresent
  <2> QED BY <2>1, FS_EmptySet DEF Init, InitHub, InitProjection
<1>2. TypeOK /\ CountsMatchOccupancy /\ [Next]_vars => CountsMatchOccupancy'
  <2> SUFFICES ASSUME TypeOK, CountsMatchOccupancy, [Next]_vars
               PROVE  CountsMatchOccupancy'
    OBVIOUS
  <2>1. ASSUME NEW m \in Members, NEW s \in 1..MaxSeq, NEW state \in States,
               ReportArrives(Report(m, s, state))
        PROVE  CountsMatchOccupancy'
    BY <2>1, ReportArguments, ApplyCounts DEF ReportArrives, HubApply, TypeOK, HubTypeOK
  <2>2. CASE UNCHANGED <<present, counts>>
    BY <2>2 DEF CountsMatchOccupancy, Occupants
  <2> QED BY <2>1, <2>2, OnlyReportsMove
<1> QED BY <1>1, <1>2, TypeCorrect, PTL DEF Spec

(* What is pending of a member is what is true of them, also when grants   *)
(* cannot be read: coalescing never keeps a word that is not the last.     *)
THEOREM PendingIsTrue == Spec => []PendingIsCurrent
<1>1. Init => PendingIsCurrent
  BY DEF Init, InitHub, Quiet, PendingIsCurrent
<1>2. TypeOK /\ PendingIsCurrent /\ [Next]_vars => PendingIsCurrent'
  <2> SUFFICES ASSUME TypeOK, PendingIsCurrent, [Next]_vars PROVE PendingIsCurrent'
    OBVIOUS
  <2>1. ASSUME NEW m \in Members, NEW s \in 1..MaxSeq, NEW state \in States,
               ReportArrives(Report(m, s, state))
        PROVE  PendingIsCurrent'
    BY <2>1, ReportArguments, PendingStaysCurrent DEF ReportArrives, TypeOK
  <2>2. CASE UNCHANGED present /\ pending' \in {pending, [c \in Channels |-> Quiet]}
    BY <2>2 DEF PendingIsCurrent, ListOf, Quiet
  <2> QED BY <2>1, <2>2, OnlyReportsMove
<1> QED BY <1>1, <1>2, TypeCorrect, PTL DEF Spec

-----------------------------------------------------------------------------
MaySee(cl, c) == c \in known /\ <<ViewerOf[cl], c>> \in grants

(* Disclosure, made inductive: a count and a subscription each rest on a   *)
(* grant, a name on a subscription, and that on an attached client.        *)
AccessOf(cl, c) ==
  /\ told[cl][c] # None => MaySee(cl, c)
  /\ c \in subscribed[cl] => MaySee(cl, c)
  /\ seen[cl][c] # SeesNobody[c] => c \in subscribed[cl]
  /\ subscribed[cl] # {} => cl \in attached

Access == \A cl \in Clients, c \in Channels : AccessOf(cl, c)

LEMMA AccessImplies ==
  ASSUME TypeOK, Access
  PROVE  NothingHiddenIsHeld /\ SubscribedIsGranted
BY DEF Access, AccessOf, MaySee, NothingHiddenIsHeld, SubscribedIsGranted,
       TypeOK, HubTypeOK

LEMMA InitAccess == Init => Access
BY DEF Init, InitHub, Access, AccessOf, ToldNothing

LEMMA NextAccess == TypeOK /\ Access /\ [Next]_vars => Access'
<1> SUFFICES ASSUME TypeOK, Access, [Next]_vars, NEW dl \in Clients, NEW d \in Channels
             PROVE  AccessOf(dl, d)'
  BY DEF Access
<1>0. /\ AccessOf(dl, d)
      /\ told \in [Clients -> [Channels -> Nat \cup {None}]]
      /\ seen \in [Clients -> [Channels -> [Members -> Presences]]]
      /\ subscribed \in [Clients -> SUBSET Channels]
  BY DEF Access, TypeOK, HubTypeOK
<1> USE <1>0 DEF AccessOf, MaySee
<1>1. ASSUME NEW c \in Channels, ChannelIsAdded(c) PROVE AccessOf(dl, d)'
  BY <1>1 DEF ChannelIsAdded, AddChannel, SeesNobody
<1>2. ASSUME NEW cl \in Clients, NEW c \in Channels, GrantIsMade(ViewerOf[cl], c)
      PROVE  AccessOf(dl, d)'
  BY <1>2 DEF GrantIsMade, Grant, SeesNobody
<1>3. ASSUME NEW cl \in Clients, ClientDetaches(cl) PROVE AccessOf(dl, d)'
  BY <1>3 DEF ClientDetaches, Detach, SeesNobody, ToldNothing
<1>4. ASSUME NEW cl \in Clients, NEW c \in Channels, ClientUnsubscribes(cl, c)
      PROVE  AccessOf(dl, d)'
  BY <1>4 DEF ClientUnsubscribes, Unsubscribe, SeesNobody
<1>5. ASSUME NEW cl \in Clients, NEW f \in Failures, ClientAttaches(cl, f)
      PROVE  AccessOf(dl, d)'
  <2>1. cl \notin attached /\ UNCHANGED <<known, grants, seen>>
    BY <1>5 DEF ClientAttaches, Attach
  <2>2. CASE dl # cl
    BY <1>5, <2>1, <2>2 DEF ClientAttaches, Attach, SeesNobody
  <2>3. CASE dl = cl
    <3>1. told'[dl][d] = IF Visible(dl, d, f) THEN counts[d] ELSE None
      BY <1>5, <2>3 DEF ClientAttaches
    <3> QED BY <1>5, <2>1, <2>3, <3>1 DEF ClientAttaches, Attach, SeesNobody, Visible
  <2> QED BY <2>2, <2>3
<1>6. ASSUME NEW cl \in Clients, NEW c \in Channels, NEW f \in Failures, ClientSubscribes(cl, c, f)
      PROVE  AccessOf(dl, d)'
  <2>1. /\ cl \in attached /\ Visible(cl, c, f)
        /\ UNCHANGED <<known, grants, attached>>
    BY <1>6 DEF ClientSubscribes, Subscribe
  <2>2. CASE dl = cl /\ d = c
    BY <1>6, <2>1, <2>2 DEF ClientSubscribes, Subscribe, Visible
  <2>3. CASE dl # cl \/ d # c
    <3>1. told'[dl][d] = told[dl][d] /\ seen'[dl][d] = seen[dl][d]
      BY <1>6, <2>3 DEF ClientSubscribes
    <3>2. /\ d \in subscribed'[dl] <=> d \in subscribed[dl]
          /\ subscribed'[dl] # {} => dl \in attached
      BY <1>6, <2>1, <2>3 DEF ClientSubscribes, Subscribe
    <3> QED BY <2>1, <3>1, <3>2 DEF SeesNobody
  <2> QED BY <2>2, <2>3
<1>7. ASSUME NEW m \in Members, NEW s \in 1..MaxSeq, NEW state \in States,
             ReportArrives(Report(m, s, state))
      PROVE  AccessOf(dl, d)'
  BY <1>7 DEF ReportArrives, HubApply, SeesNobody
<1>8. ASSUME NEW f \in Failures, IntervalEnds(f) PROVE AccessOf(dl, d)'
  <2>1. UNCHANGED <<known, grants, subscribed>>
    BY <1>8 DEF IntervalEnds, Flush
  <2>2. told'[dl][d] # told[dl][d] => MaySee(dl, d)
    BY <1>8 DEF IntervalEnds, CountSent, Visible
  <2>3. seen'[dl][d] # seen[dl][d] => d \in subscribed[dl]
    BY <1>8 DEF IntervalEnds, MembersSent
  <2>4. attached' = attached /\ SeesNobody' = SeesNobody
    BY <1>8 DEF IntervalEnds, Flush, SeesNobody
  <2> QED BY <2>1, <2>2, <2>3, <2>4
<1>9. CASE UNCHANGED vars
  BY <1>9 DEF vars, hubVars, SeesNobody
<1> QED BY <1>1, <1>2, <1>3, <1>4, <1>5, <1>6, <1>7, <1>8, <1>9 DEF Next

(* Nothing reaches a client of a channel it was never granted the sight    *)
(* of, and no name of a channel it did not subscribe to, whether or not    *)
(* grants can be read.                                                     *)
THEOREM NothingIsDisclosed ==
  Spec => [](NothingHiddenIsHeld /\ SubscribedIsGranted)
<1>1. Init => Access
  BY InitAccess
<1>2. TypeOK /\ Access /\ [Next]_vars => Access'
  BY NextAccess
<1>3. TypeOK /\ Access => NothingHiddenIsHeld /\ SubscribedIsGranted
  BY AccessImplies
<1> QED BY <1>1, <1>2, <1>3, TypeCorrect, PTL DEF Spec

-----------------------------------------------------------------------------
(* Currency, made inductive: a held count or list entry is current unless  *)
(* an update is pending, and a pending update is current itself.           *)
Currency == HeldCountIsCurrent /\ ShownListIsCurrent /\ PendingIsCurrent

LEMMA InitCurrency == Init => Currency
BY DEF Init, InitHub, Quiet, Currency, HeldCountIsCurrent, ShownListIsCurrent, PendingIsCurrent

(* A step that leaves the projection and the pending updates alone keeps   *)
(* the pending updates current.                                            *)
LEMMA QuietStep ==
  ASSUME PendingIsCurrent, UNCHANGED <<present, pending>>
  PROVE  PendingIsCurrent'
BY DEF PendingIsCurrent, ListOf

LEMMA NextCurrency ==
  ASSUME ReadsFail = FALSE, TypeOK, Access, Currency, [Next]_vars
  PROVE  Currency'
<1>0. /\ told \in [Clients -> [Channels -> Nat \cup {None}]]
      /\ seen \in [Clients -> [Channels -> [Members -> Presences]]]
      /\ subscribed \in [Clients -> SUBSET Channels]
      /\ attached \subseteq Clients
      /\ HeldCountIsCurrent /\ ShownListIsCurrent /\ PendingIsCurrent
  BY DEF TypeOK, HubTypeOK, Currency
<1> USE <1>0
<1> DEFINE Same == UNCHANGED <<present, counts, pending>>
           CountOf(cl, c) == told[cl][c] \in {None, counts[c]} \/ pending[c].moved
           EntryOf(cl, c, m) == seen[cl][c][m] = ListOf(c)[m] \/ pending[c].members[m] # None
<1>1. ASSUME NEW c \in Channels, ChannelIsAdded(c) PROVE Currency'
  BY <1>1 DEF ChannelIsAdded, AddChannel, Currency, HeldCountIsCurrent, ShownListIsCurrent,
              PendingIsCurrent, ListOf
<1>2. ASSUME NEW cl \in Clients, NEW c \in Channels, GrantIsMade(ViewerOf[cl], c) PROVE Currency'
  BY <1>2 DEF GrantIsMade, Grant, Currency, HeldCountIsCurrent, ShownListIsCurrent,
              PendingIsCurrent, ListOf
<1>3. ASSUME NEW cl \in Clients, ClientDetaches(cl) PROVE Currency'
  <2>1. Same /\ PendingIsCurrent'
    BY <1>3, QuietStep DEF ClientDetaches, Detach
  <2>2. \A dl \in attached' : dl # cl /\ dl \in attached /\ dl \in Clients
    BY <1>3 DEF ClientDetaches, Detach
  <2>3. \A dl \in attached' : told'[dl] = told[dl] /\ seen'[dl] = seen[dl]
                               /\ subscribed'[dl] = subscribed[dl]
    BY <1>3, <2>2 DEF ClientDetaches, Detach
  <2> QED BY <2>1, <2>2, <2>3 DEF Currency, HeldCountIsCurrent, ShownListIsCurrent, ListOf
<1>4. ASSUME NEW cl \in Clients, NEW c \in Channels, ClientUnsubscribes(cl, c) PROVE Currency'
  <2>1. Same /\ PendingIsCurrent' /\ told' = told /\ attached' = attached
    BY <1>4, QuietStep DEF ClientUnsubscribes, Unsubscribe
  <2>2. \A dl \in attached : \A d \in subscribed'[dl] :
          d \in subscribed[dl] /\ d \in Channels /\ seen'[dl][d] = seen[dl][d]
    BY <1>4 DEF ClientUnsubscribes, Unsubscribe
  <2> QED BY <2>1, <2>2 DEF Currency, HeldCountIsCurrent, ShownListIsCurrent, ListOf
<1>5. ASSUME NEW cl \in Clients, NEW f \in Failures, ClientAttaches(cl, f) PROVE Currency'
  <2>1. Same /\ PendingIsCurrent' /\ seen' = seen /\ attached' = attached \cup {cl}
    BY <1>5, QuietStep DEF ClientAttaches, Attach
  <2>2. /\ subscribed'[cl] = {}
        /\ \A d \in Channels : told'[cl][d] \in {None, counts[d]}
        /\ \A dl \in Clients \ {cl} : told'[dl] = told[dl] /\ subscribed'[dl] = subscribed[dl]
    BY <1>5 DEF ClientAttaches, Attach
  <2>3. HeldCountIsCurrent'
    BY <2>1, <2>2 DEF HeldCountIsCurrent
  <2>4. ShownListIsCurrent'
    BY <2>1, <2>2 DEF ShownListIsCurrent, ListOf
  <2> QED BY <2>1, <2>3, <2>4 DEF Currency
<1>6. ASSUME NEW cl \in Clients, NEW c \in Channels, NEW f \in Failures, ClientSubscribes(cl, c, f)
      PROVE  Currency'
  <2>1. Same /\ PendingIsCurrent' /\ attached' = attached
    BY <1>6, QuietStep DEF ClientSubscribes, Subscribe
  <2>2. /\ told'[cl][c] = counts[c] /\ seen'[cl][c] = ListOf(c)
        /\ \A dl \in Clients, d \in Channels : dl # cl \/ d # c =>
              /\ told'[dl][d] = told[dl][d] /\ seen'[dl][d] = seen[dl][d]
              /\ d \in subscribed'[dl] => d \in subscribed[dl]
        /\ \A dl \in Clients : subscribed'[dl] \subseteq Channels
    BY <1>6 DEF ClientSubscribes, Subscribe
  <2>3. HeldCountIsCurrent'
    BY <2>1, <2>2 DEF HeldCountIsCurrent
  <2>4. ShownListIsCurrent'
    <3> SUFFICES ASSUME NEW dl \in attached, NEW d \in subscribed'[dl], NEW m \in Members
                 PROVE  EntryOf(dl, d, m)'
      BY <2>1 DEF ShownListIsCurrent
    <3>1. ListOf(d)' = ListOf(d)
      BY <2>1 DEF ListOf
    <3>2. dl \in Clients /\ d \in Channels
      BY <2>2
    <3> QED BY <2>1, <2>2, <3>1, <3>2 DEF ShownListIsCurrent
  <2> QED BY <2>1, <2>3, <2>4 DEF Currency
<1>7. ASSUME NEW m \in Members, NEW s \in 1..MaxSeq, NEW state \in States,
             ReportArrives(Report(m, s, state))
      PROVE  Currency'
  <2>1. /\ HubApply(Report(m, s, state))
        /\ m \in Members \cup {Zero} /\ s \in Nat
        /\ UNCHANGED <<attached, subscribed, told, seen>>
    BY <1>7, ReportArguments DEF ReportArrives, HubApply
  <2>2. \A c \in Channels :
          /\ counts'[c] # counts[c] => pending'[c].moved
          /\ pending[c].moved => pending'[c].moved
          /\ \A n \in Members :
               /\ ListOf(c)'[n] # ListOf(c)[n] => pending'[c].members[n] = ListOf(c)'[n]
               /\ pending[c].members[n] # None => pending'[c].members[n] # None
    BY <2>1, ReportIsRecorded DEF TypeOK
  <2>3. \A c \in Channels, n \in Members : ListOf(c)'[n] # None
    <3>1. HubTypeOK'
      BY <2>1, HubApplyType DEF TypeOK
    <3>2. \A n \in Members : present'[n] # None /\ NotPresent # None
      BY <3>1, NotPresentType, NoneAssumption DEF HubTypeOK, ProjectionTypeOK
    <3> QED BY <3>2 DEF ListOf
  <2>4. HeldCountIsCurrent'
    BY <2>1, <2>2 DEF HeldCountIsCurrent
  <2>5. ShownListIsCurrent'
    <3> SUFFICES ASSUME NEW cl \in attached, NEW c \in subscribed[cl], NEW n \in Members
                 PROVE  EntryOf(cl, c, n)'
      BY <2>1 DEF ShownListIsCurrent
    <3>1. c \in Channels /\ EntryOf(cl, c, n)
      BY DEF ShownListIsCurrent
    <3> QED BY <2>1, <2>2, <2>3, <3>1
  <2>6. PendingIsCurrent'
    BY <2>1, PendingStaysCurrent DEF TypeOK
  <2> QED BY <2>4, <2>5, <2>6 DEF Currency
<1>8. ASSUME NEW f \in Failures, IntervalEnds(f) PROVE Currency'
  <2>1. /\ pending' = [c \in Channels |-> Quiet]
        /\ UNCHANGED <<present, counts, attached, subscribed>>
        /\ f = {}
    BY <1>8 DEF IntervalEnds, Flush, Failures
  <2>2. ASSUME NEW cl \in attached, NEW c \in Channels
        PROVE  told'[cl][c] \in {None, counts[c]}
    <3>1. cl \in Clients /\ (told[cl][c] # None => MaySee(cl, c))
      BY DEF Access, AccessOf
    <3>2. told'[cl][c] = IF CountSent(cl, c, f) THEN counts[c] ELSE told[cl][c]
      BY <1>8, <3>1 DEF IntervalEnds
    <3> QED BY <2>1, <3>1, <3>2 DEF CountSent, Visible, MaySee, HeldCountIsCurrent
  <2>3. ASSUME NEW cl \in attached, NEW c \in subscribed[cl], NEW m \in Members
        PROVE  seen'[cl][c][m] = ListOf(c)[m]
    <3>1. /\ cl \in Clients /\ c \in Channels /\ MaySee(cl, c)
          /\ EntryOf(cl, c, m)
          /\ pending[c].members[m] \in {None, ListOf(c)[m]}
      BY DEF Access, AccessOf, ShownListIsCurrent, PendingIsCurrent
    <3>2. seen'[cl][c] = IF pending[c] # Quiet THEN Updated(seen[cl][c], c) ELSE seen[cl][c]
      BY <1>8, <2>1, <3>1 DEF IntervalEnds, MembersSent, Visible, MaySee
    <3>3. pending[c] = Quiet => pending[c].members[m] = None
      BY DEF Quiet
    <3> QED BY <3>1, <3>2, <3>3 DEF Updated
  <2>4. \A c \in Channels : ListOf(c)' = ListOf(c)
    BY <2>1 DEF ListOf
  <2>5. \A c \in Channels, m \in Members : pending'[c].members[m] = None
    BY <2>1 DEF Quiet
  <2>6. HeldCountIsCurrent'
    BY <2>1, <2>2 DEF HeldCountIsCurrent
  <2>7. ShownListIsCurrent'
    BY <2>1, <2>3, <2>4 DEF ShownListIsCurrent
  <2>8. PendingIsCurrent'
    BY <2>5 DEF PendingIsCurrent
  <2> QED BY <2>6, <2>7, <2>8 DEF Currency
<1>9. CASE UNCHANGED vars
  BY <1>9 DEF vars, hubVars, Currency, HeldCountIsCurrent, ShownListIsCurrent,
              PendingIsCurrent, ListOf
<1> QED BY <1>1, <1>2, <1>3, <1>4, <1>5, <1>6, <1>7, <1>8, <1>9 DEF Next

(* As long as grants can be read, whatever a client holds of a channel is  *)
(* current or has a correction pending, and the correction is current.     *)
THEOREM ScreensAreCurrent ==
  ASSUME ReadsFail = FALSE
  PROVE  Spec => [](HeldCountIsCurrent /\ ShownListIsCurrent /\ PendingIsCurrent)
<1>1. Init => Access /\ Currency
  BY InitAccess, InitCurrency
<1>2. TypeOK /\ Access /\ Currency /\ [Next]_vars => (Access /\ Currency)'
  BY NextAccess, NextCurrency
<1>3. Currency => HeldCountIsCurrent /\ ShownListIsCurrent /\ PendingIsCurrent
  BY DEF Currency
<1> QED BY <1>1, <1>2, <1>3, TypeCorrect, PTL DEF Spec

(* The counts by themselves: a count a client holds is the channel's, or     *)
(* the next flush corrects it.                                               *)
THEOREM CountsAreCurrent ==
  ASSUME ReadsFail = FALSE
  PROVE  Spec => []HeldCountIsCurrent
<1>1. Spec => [](HeldCountIsCurrent /\ ShownListIsCurrent /\ PendingIsCurrent)
  BY ScreensAreCurrent
<1>2. HeldCountIsCurrent /\ ShownListIsCurrent /\ PendingIsCurrent => HeldCountIsCurrent
  OBVIOUS
<1> QED BY <1>1, <1>2, PTL

(* What a screen shows when nothing is pending of a channel, right after a *)
(* flush say: the number of members in it, if it was told one, and on a    *)
(* list it is shown exactly who is there.                                  *)
ScreenIsTrue(cl, c) ==
  /\ told[cl][c] \in {None, Cardinality(Occupants(c))}
  /\ c \in subscribed[cl] => seen[cl][c] = ListOf(c)

THEOREM QuietScreensAreTrue ==
  ASSUME ReadsFail = FALSE
  PROVE  Spec => [](\A c \in Channels : pending[c] = Quiet =>
                      \A cl \in attached : ScreenIsTrue(cl, c))
<1> DEFINE True == \A c \in Channels : pending[c] = Quiet =>
                     \A cl \in attached : ScreenIsTrue(cl, c)
<1>1. TypeOK /\ CountsMatchOccupancy /\ HeldCountIsCurrent /\ ShownListIsCurrent => True
  <2> SUFFICES ASSUME TypeOK, CountsMatchOccupancy, HeldCountIsCurrent, ShownListIsCurrent,
                      NEW c \in Channels, pending[c] = Quiet, NEW cl \in attached
               PROVE  ScreenIsTrue(cl, c)
    OBVIOUS
  <2>1. ~pending[c].moved /\ \A m \in Members : pending[c].members[m] = None
    BY DEF Quiet
  <2>2. told[cl][c] \in {None, Cardinality(Occupants(c))}
    BY <2>1 DEF HeldCountIsCurrent, CountsMatchOccupancy
  <2>3. ASSUME c \in subscribed[cl] PROVE seen[cl][c] = ListOf(c)
    <3>1. \A m \in Members : seen[cl][c][m] = ListOf(c)[m]
      BY <2>1, <2>3 DEF ShownListIsCurrent
    <3>2. seen[cl][c] \in [Members -> Presences] /\ ListOf(c) \in [Members -> Presences]
      BY ListType DEF TypeOK, HubTypeOK
    <3> QED BY <3>1, <3>2
  <2> QED BY <2>2, <2>3 DEF ScreenIsTrue
<1>2. Spec => [](HeldCountIsCurrent /\ ShownListIsCurrent /\ PendingIsCurrent)
  BY ScreensAreCurrent
<1> HIDE DEF True
<1>3. Spec => []True
  BY <1>1, <1>2, TypeCorrect, CountsAreOccupancy, PTL
<1> QED BY <1>3 DEF True

=============================================================================
