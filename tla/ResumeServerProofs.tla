------------------------- MODULE ResumeServerProofs -------------------------
(***************************************************************************)
(* What the hub and the register keep between them, for every set of       *)
(* members, channels and connections: a connection that goes ends in a     *)
(* resume or in a reported leave, and nothing else moves its member; and a *)
(* suspension never hides a change behind a short list of channels.        *)
(***************************************************************************)
EXTENDS ResumeServer, SequenceTheorems, TLAPS

-----------------------------------------------------------------------------
(* The hub's part.  The whole seconds of an instant are an integer.        *)
LEMMA UnixType ==
  ASSUME NEW instant \in Int
  PROVE  Unix(instant) \in Int
BY TicksAssumption DEF Unix

(* A published state is a presence, in the channel the state names.        *)
LEMMA PublishType ==
  ASSUME NEW state \in States
  PROVE  /\ Publish(state) \in Presences
         /\ Publish(state).channel = state.channel
         /\ state.channel \in Channels \cup {Zero}
<1>1. CASE state = NotPresent
  BY <1>1 DEF Publish, NotPresent, Presences
<1>2. CASE state \in [channel : Channels, since : Instants, muted : BOOLEAN]
  <2>1. state.channel # Zero /\ Unix(state.since) \in Int
    BY <1>2, ZeroAssumption, InstantsAssumption, UnixType
  <2> QED BY <1>2, <2>1 DEF Publish, Presences
<1> QED BY <1>1, <1>2 DEF States

(* Being in no channel is a state to report and a presence to show.        *)
LEMMA NotPresentType ==
  /\ NotPresent \in Presences /\ NotPresent \in States
  /\ NotPresent # None /\ NotPresent.channel = Zero
BY NoneAssumption DEF Presences, States, NotPresent

(* An entry with nothing in it is an entry.                                *)
LEMMA QuietType == Quiet \in Pendings
BY DEF Quiet, Pendings

(* A report with a member's next sequence is accepted: the member is where *)
(* the report says and nobody else moves.  What it changed is pending, and *)
(* nothing that was pending is lost.                                       *)
LEMMA NextReport ==
  ASSUME HubTypeOK, NEW m \in Members, NEW state \in States,
         HubApply(Report(m, seq[m] + 1, state))
  PROVE  /\ HubTypeOK'
         /\ present' = [present EXCEPT ![m] = Publish(state)]
         /\ UNCHANGED <<known, grants, attached, subscribed>>
         /\ \A c \in Channels :
              /\ pending[c] # Quiet => pending'[c] # Quiet
              /\ Moves(Report(m, seq[m] + 1, state)) /\ c \in {present[m].channel, state.channel}
                   => pending'[c] # Quiet
<1> DEFINE r == Report(m, seq[m] + 1, state)
           left == present[m].channel
           shown == Publish(state)
<1>1. Apply(r) /\ UNCHANGED <<known, grants, attached, subscribed>>
  BY DEF HubApply
<1>2. seq[m] \in Nat /\ m # Zero
  BY ZeroAssumption DEF HubTypeOK, ProjectionTypeOK
<1>3. ~Refused(r)
  BY <1>2 DEF Refused, Report
<1>4. /\ seq' = [seq EXCEPT ![m] = seq[m] + 1]
      /\ present' = [present EXCEPT ![m] = shown]
      /\ counts' = CountsAfter(left, state.channel)
  BY <1>1, <1>3 DEF Apply, Report
<1>5. shown \in Presences /\ shown # None /\ shown.channel = state.channel
  BY PublishType, NoneAssumption
<1>6. ProjectionTypeOK'
  <2>1. \A c \in Channels : Decrement(counts[c]) \in Nat /\ counts[c] + 1 \in Nat
    BY DEF Decrement, HubTypeOK, ProjectionTypeOK
  <2>2. counts' \in [Channels -> Nat]
    BY <1>4, <2>1 DEF CountsAfter, HubTypeOK, ProjectionTypeOK
  <2> QED BY <1>2, <1>4, <1>5, <2>2 DEF HubTypeOK, ProjectionTypeOK
<1>7. CASE ~Moves(r)
  <2>1. pending' = pending
    BY <1>7 DEF HubApply
  <2> QED BY <1>1, <1>4, <1>6, <1>7, <2>1 DEF HubTypeOK
<1>8. CASE Moves(r)
  <2>1. pending' = Recorded(m, left, shown)
    BY <1>8 DEF HubApply, Report
  <2>2. ASSUME NEW c \in Channels
        PROVE  /\ pending'[c] \in Pendings
               /\ pending[c] # Quiet => pending'[c] # Quiet
               /\ c \in {left, state.channel} => pending'[c] # Quiet
    <3>1. pending[c].moved \in BOOLEAN /\ pending[c].members \in [Members -> Presences \cup {None}]
      BY DEF HubTypeOK, Pendings
    <3>2. \A p \in Presences :
            /\ [pending[c].members EXCEPT ![m] = p] \in [Members -> Presences \cup {None}]
            /\ [pending[c].members EXCEPT ![m] = p][m] # None
      BY <3>1, NoneAssumption
    <3>3. Quiet.members[m] = None
      BY DEF Quiet
    <3>4. CASE c = shown.channel
      <4>1. pending'[c] = [moved   |-> pending[c].moved \/ left # shown.channel,
                           members |-> [pending[c].members EXCEPT ![m] = shown]]
        BY <2>1, <3>4 DEF Recorded
      <4>2. pending'[c].members[m] # None
        BY <1>5, <3>2, <4>1
      <4>3. pending'[c] \in Pendings
        BY <1>5, <3>1, <3>2, <4>1 DEF Pendings
      <4> QED BY <3>3, <4>2, <4>3
    <3>5. CASE c # shown.channel /\ c = left
      <4>1. pending'[c] = [moved   |-> TRUE,
                           members |-> [pending[c].members EXCEPT ![m] = NotPresent]]
        BY <2>1, <3>5 DEF Recorded
      <4>2. pending'[c].members[m] # None
        BY <3>2, <4>1, NotPresentType
      <4>3. pending'[c] \in Pendings
        BY <3>2, <4>1, NotPresentType DEF Pendings
      <4> QED BY <3>3, <4>2, <4>3
    <3>6. CASE c # shown.channel /\ c # left
      <4>1. pending'[c] = pending[c]
        BY <2>1, <3>6 DEF Recorded
      <4> QED BY <1>5, <3>6, <4>1 DEF HubTypeOK
    <3> QED BY <3>4, <3>5, <3>6
  <2>3. pending' \in [Channels -> Pendings]
    BY <2>1, <2>2 DEF Recorded
  <2> QED BY <1>1, <1>4, <1>6, <2>2, <2>3 DEF HubTypeOK
<1> QED BY <1>7, <1>8

(* A sequence that lists nothing twice.                                    *)
Once(q) == \A i, j \in DOMAIN q : q[i] = q[j] => i = j

(* The sequence without its k-th element.                                  *)
Without(q, k) == SubSeq(q, 1, k - 1) \o SubSeq(q, k + 1, Len(q))

(* What is left, in the order it was in.                                   *)
LEMMA WithoutProperties ==
  ASSUME NEW S, NEW q \in Seq(S), NEW k \in 1..Len(q)
  PROVE  /\ Without(q, k) \in Seq(S)
         /\ Len(Without(q, k)) = Len(q) - 1
         /\ \A i \in 1..Len(q) - 1 : Without(q, k)[i] = IF i < k THEN q[i] ELSE q[i + 1]
<1> DEFINE a == SubSeq(q, 1, k - 1)
           b == SubSeq(q, k + 1, Len(q))
<1> HIDE DEF a, b
<1>a. Len(q) \in Nat /\ \A i \in 1..Len(q) : q[i] \in S
  BY LenProperties
<1>0. Len(q) \in Int /\ k \in Int /\ 1 <= k /\ k <= Len(q)
  BY <1>a
<1>1. a \in Seq(S) /\ Len(a) = k - 1 /\ \A i \in 1..k - 1 : a[i] = q[i]
  <2>1. \A i \in 1..k - 1 : q[i] \in S
    BY <1>a, <1>0
  <2> QED BY <1>0, <2>1, SubSeqProperties DEF a
<1>2. b \in Seq(S) /\ Len(b) = Len(q) - k /\ \A i \in 1..Len(q) - k : b[i] = q[k + i]
  <2>1. \A i \in k + 1..Len(q) : q[i] \in S
    BY <1>a, <1>0
  <2>2. /\ b \in Seq(S)
        /\ Len(b) = IF k + 1 <= Len(q) THEN Len(q) - (k + 1) + 1 ELSE 0
        /\ \A i \in 1..Len(q) - (k + 1) + 1 : b[i] = q[(k + 1) + i - 1]
    BY <1>0, <2>1, SubSeqProperties DEF b
  <2>3. Len(b) = Len(q) - k
    <3>1. k + 1 <= Len(q) \/ k = Len(q)
      BY <1>0
    <3> QED BY <1>0, <2>2, <3>1
  <2>4. \A i \in 1..Len(q) - k : b[i] = q[k + i]
    <3> TAKE i \in 1..Len(q) - k
    <3>1. i \in 1..Len(q) - (k + 1) + 1 /\ (k + 1) + i - 1 = k + i
      BY <1>0
    <3> QED BY <2>2, <3>1
  <2> QED BY <2>2, <2>3, <2>4
<1>3. /\ a \o b \in Seq(S)
      /\ Len(a \o b) = Len(a) + Len(b)
      /\ \A i \in 1..Len(a) + Len(b) :
           (a \o b)[i] = IF i <= Len(a) THEN a[i] ELSE b[i - Len(a)]
  BY <1>1, <1>2, ConcatProperties
<1>4. Len(a) + Len(b) = Len(q) - 1
  BY <1>0, <1>1, <1>2
<1>5. ASSUME NEW i \in 1..Len(q) - 1
      PROVE  (a \o b)[i] = IF i < k THEN q[i] ELSE q[i + 1]
  <2>1. (a \o b)[i] = IF i <= k - 1 THEN a[i] ELSE b[i - (k - 1)]
    BY <1>1, <1>3, <1>4
  <2>2. CASE i < k
    BY <1>0, <1>1, <2>1, <2>2
  <2>3. CASE ~(i < k)
    <3>1. i - (k - 1) \in 1..Len(q) - k /\ k + (i - (k - 1)) = i + 1 /\ ~(i <= k - 1)
      BY <1>0, <2>3
    <3> QED BY <1>2, <2>1, <2>3, <3>1
  <2> QED BY <2>2, <2>3
<1>6. Without(q, k) = a \o b
  BY DEF Without, a, b
<1> QED BY <1>3, <1>4, <1>5, <1>6

-----------------------------------------------------------------------------
(* The register's part.  Its order lists the suspended sessions, each      *)
(* once; so does what a Reap still walks, which is nothing when none is    *)
(* under way.                                                              *)
Lists ==
  /\ \A s \in Clients : Register!Held(s) <=> \E i \in DOMAIN order : order[i] = s
  /\ Once(order)
  /\ Once(walk)
  /\ \A i \in DOMAIN walk : Register!Held(walk[i])
  /\ reaping \/ walk = <<>>

(* Who is in the register: the connections the owner suspends, each with   *)
(* the member it authenticated as.                                         *)
Places ==
  \A s \in Clients : Register!Held(s) =>
    s \in Sessions /\ held[s].member = ViewerOf[s]

RegisterTypeOK ==
  /\ now \in Nat /\ revision \in Nat
  /\ held \in [Clients -> Register!Suspensions \cup {None}]
  /\ order \in Seq(Clients)
  /\ walk \in Seq(Clients) /\ reaping \in BOOLEAN
  /\ gone \in Seq(Members)

(* What is held is a suspension.                                           *)
LEMMA HeldIsSuspension ==
  ASSUME RegisterTypeOK, NEW s \in Clients, Register!Held(s)
  PROVE  held[s] \in Register!Suspensions
BY DEF RegisterTypeOK, Register!Held

(* A ticket that passes is one of a place that is held.                    *)
LEMMA AcceptedTicket ==
  ASSUME NEW s, NEW f, NEW m, Register!Refusal(s, f, m) = None
  PROVE  Register!Held(s)
<1>1. /\ None # "ErrNoSuspension"
      /\ None # "ErrResumeWindowPassed"
      /\ None # "ErrResumeNotYours"
      /\ None # "ErrResumeAhead"
  BY NoSuspensionAssumption DEF Register!Refusals
<1> QED BY <1>1 DEF Register!Refusal

(* A batch changes nothing of a suspension but what it says was missed.    *)
LEMMA PublishedHolds ==
  ASSUME RegisterTypeOK, NEW channels \in SUBSET Channels, Register!Published(channels)
  PROVE  /\ revision' \in Nat
         /\ held' \in [Clients -> Register!Suspensions \cup {None}]
         /\ \A s \in Clients :
              /\ Register!Held(s)' <=> Register!Held(s)
              /\ Register!Held(s) =>
                   /\ held'[s].member = held[s].member
                   /\ held'[s].deadline = held[s].deadline
                   /\ channels # {} =>
                        held'[s].missed = Register!Collected(held[s].missed, channels)
<1>1. CASE channels = {}
  BY <1>1 DEF Register!Published, RegisterTypeOK, Register!Held
<1>2. CASE channels # {}
  <2>1. /\ revision' = revision + 1
        /\ held' = [s \in Clients |->
                      IF Register!Held(s)
                        THEN [held[s] EXCEPT !.missed = Register!Collected(@, channels)]
                        ELSE None]
    BY <1>2 DEF Register!Published
  <2>2. ASSUME NEW s \in Clients, Register!Held(s)
        PROVE  /\ held'[s] \in Register!Suspensions
               /\ held'[s].member = held[s].member
               /\ held'[s].deadline = held[s].deadline
               /\ held'[s].missed = Register!Collected(held[s].missed, channels)
    <3>1. held[s] \in Register!Suspensions
      BY <2>2, HeldIsSuspension
    <3>2. Register!Collected(held[s].missed, channels) \in (SUBSET Channels) \cup {None}
      BY <3>1 DEF Register!Suspensions, Register!Collected
    <3> QED BY <2>1, <2>2, <3>1, <3>2 DEF Register!Suspensions
  <2>3. ASSUME NEW s \in Clients, ~Register!Held(s) PROVE held'[s] = None
    BY <2>1, <2>3
  <2>4. held' \in [Clients -> Register!Suspensions \cup {None}]
    <3>1. \A s \in Clients : held'[s] \in Register!Suspensions \cup {None}
      BY <2>2, <2>3
    <3> QED BY <2>1, <3>1
  <2>5. \A s \in Clients : Register!Held(s)' <=> Register!Held(s)
    BY <2>2, <2>3, NoSuspensionAssumption DEF Register!Held
  <2>6. revision' \in Nat
    BY <2>1 DEF RegisterTypeOK
  <2> QED BY <2>2, <2>4, <2>5, <2>6
<1> QED BY <1>1, <1>2

(* Suspending adds one session, at the end of the order.                   *)
LEMMA SuspendHolds ==
  ASSUME RegisterTypeOK, Lists, NEW s \in Clients, NEW m \in Members, Register!Suspend(s, m)
  PROVE  /\ ~Register!Held(s) /\ Register!Held(s)'
         /\ held'[s].member = m /\ held'[s].missed = {}
         /\ \A t \in Clients \ {s} : held'[t] = held[t]
         /\ held' \in [Clients -> Register!Suspensions \cup {None}]
         /\ order' \in Seq(Clients)
         /\ Lists'
<1>1. [member |-> m, deadline |-> now + Window, from |-> revision, missed |-> {}]
        \in Register!Suspensions
  BY WindowAssumption DEF Register!Suspensions, RegisterTypeOK
<1>2. order \in Seq(Clients) /\ held \in [Clients -> Register!Suspensions \cup {None}]
  BY DEF RegisterTypeOK
<1>3. ~Register!Held(s) /\ order' = Append(order, s)
  BY DEF Register!Suspend
<1>4. held' = [held EXCEPT ![s] =
                 [member |-> m, deadline |-> now + Window, from |-> revision, missed |-> {}]]
  BY DEF Register!Suspend
<1>5. /\ held'[s] = [member |-> m, deadline |-> now + Window, from |-> revision, missed |-> {}]
      /\ \A t \in Clients \ {s} : held'[t] = held[t]
      /\ held' \in [Clients -> Register!Suspensions \cup {None}]
      /\ Register!Held(s)'
  BY <1>1, <1>2, <1>4, NoSuspensionAssumption DEF Register!Held
<1>6. /\ Len(order) \in Nat /\ DOMAIN order = 1..Len(order)
      /\ order' \in Seq(Clients) /\ DOMAIN order' = 1..Len(order) + 1
      /\ \A i \in 1..Len(order) : order'[i] = order[i]
      /\ order'[Len(order) + 1] = s
  BY <1>2, <1>3, AppendProperties, LenProperties
<1>7. \A i \in 1..Len(order) : order[i] # s
  BY <1>3, <1>6 DEF Lists
<1>8. ASSUME NEW t \in Clients
      PROVE  Register!Held(t)' <=> \E i \in DOMAIN order' : order'[i] = t
  <2>1. CASE t = s
    BY <1>5, <1>6, <2>1
  <2>2. CASE t # s
    <3>1. Register!Held(t)' <=> Register!Held(t)
      BY <1>5, <2>2 DEF Register!Held
    <3>2. Register!Held(t) <=> \E i \in 1..Len(order) : order[i] = t
      BY <1>6 DEF Lists
    <3> QED BY <1>6, <2>2, <3>1, <3>2
  <2> QED BY <2>1, <2>2
<1>9. Once(order)'
  <2>1. \A i, j \in 1..Len(order) : order[i] = order[j] => i = j
    BY <1>6 DEF Lists, Once
  <2> QED BY <1>6, <1>7, <2>1 DEF Once
<1>10. walk' = <<>> /\ reaping' = reaping
  BY DEF Register!Suspend, Lists
<1>11. Once(walk)' /\ \A i \in DOMAIN walk' : Register!Held(walk[i])'
  BY <1>10 DEF Once
<1> QED BY <1>3, <1>5, <1>6, <1>8, <1>9, <1>10, <1>11 DEF Lists

(* Forgetting takes one session out of both, and keeps the order of the    *)
(* rest.                                                                   *)
LEMMA ForgetHolds ==
  ASSUME RegisterTypeOK, Lists, NEW s \in Clients, Register!Held(s), Register!Forget(s)
  PROVE  /\ ~Register!Held(s)'
         /\ \A t \in Clients \ {s} : held'[t] = held[t]
         /\ held' \in [Clients -> Register!Suspensions \cup {None}]
         /\ order' \in Seq(Clients)
         /\ \A t \in Clients : Register!Held(t)' <=> \E i \in DOMAIN order' : order'[i] = t
         /\ Once(order)'
<1>1. order \in Seq(Clients) /\ DOMAIN order = 1..Len(order) /\ Len(order) \in Nat
  BY LenProperties DEF RegisterTypeOK
<1>2. \E i \in DOMAIN order : order[i] = s
  BY DEF Lists
<1> DEFINE k == Register!PositionOf(s)
<1>3. k \in 1..Len(order) /\ order[k] = s
  BY <1>1, <1>2 DEF Register!PositionOf
<1>4. order' = Without(order, k)
  BY DEF Register!Forget, Without
<1>5. held' = [held EXCEPT ![s] = None] /\ held \in [Clients -> Register!Suspensions \cup {None}]
  BY DEF Register!Forget, RegisterTypeOK
<1> HIDE DEF k
<1>6. /\ order' \in Seq(Clients)
      /\ Len(order') = Len(order) - 1
      /\ \A i \in 1..Len(order) - 1 : order'[i] = IF i < k THEN order[i] ELSE order[i + 1]
  BY <1>1, <1>3, <1>4, WithoutProperties
<1>7. /\ ~Register!Held(s)'
      /\ \A t \in Clients \ {s} : held'[t] = held[t]
      /\ held' \in [Clients -> Register!Suspensions \cup {None}]
  BY <1>5 DEF Register!Held
<1>8. DOMAIN order' = 1..Len(order) - 1
  BY <1>6, LenProperties
<1>9. \A i, j \in 1..Len(order) : order[i] = order[j] => i = j
  BY <1>1 DEF Lists, Once
<1>10. ASSUME NEW i \in 1..Len(order) - 1
       PROVE  \E p \in 1..Len(order) \ {k} :
                order'[i] = order[p] /\ p = IF i < k THEN i ELSE i + 1
  BY <1>1, <1>3, <1>6, <1>10
<1>11. ASSUME NEW p \in 1..Len(order), p # k
       PROVE  \E i \in 1..Len(order) - 1 : order'[i] = order[p]
  <2>1. CASE p < k
    BY <1>1, <1>3, <1>6, <2>1
  <2>2. CASE p > k
    <3>1. p - 1 \in 1..Len(order) - 1 /\ ~(p - 1 < k) /\ (p - 1) + 1 = p
      BY <1>1, <1>3, <2>2
    <3>2. order'[p - 1] = order[p]
      BY <1>6, <3>1
    <3> QED BY <3>1, <3>2
  <2> QED BY <1>1, <1>3, <1>11, <2>1, <2>2
<1>12. ASSUME NEW t \in Clients
       PROVE  Register!Held(t)' <=> \E i \in DOMAIN order' : order'[i] = t
  <2>1. CASE t = s
    <3>1. ~ \E i \in DOMAIN order' : order'[i] = t
      BY <1>3, <1>8, <1>9, <1>10, <2>1
    <3> QED BY <1>7, <2>1, <3>1
  <2>2. CASE t # s
    <3>1. Register!Held(t)' <=> Register!Held(t)
      BY <1>7, <2>2 DEF Register!Held
    <3>2. Register!Held(t) <=> \E p \in 1..Len(order) : order[p] = t
      BY <1>1 DEF Lists
    <3> QED BY <1>3, <1>8, <1>10, <1>11, <2>2, <3>1, <3>2
  <2> QED BY <2>1, <2>2
<1>13. ASSUME NEW i \in 1..Len(order) - 1, NEW j \in 1..Len(order) - 1, order'[i] = order'[j]
       PROVE  i = j
  <2>1. PICK p \in 1..Len(order) : order'[i] = order[p] /\ p = IF i < k THEN i ELSE i + 1
    BY <1>10
  <2>2. PICK q \in 1..Len(order) : order'[j] = order[q] /\ q = IF j < k THEN j ELSE j + 1
    BY <1>10
  <2>3. p = q
    BY <1>9, <1>13, <2>1, <2>2
  <2> QED BY <1>1, <1>3, <2>1, <2>2, <2>3
<1> QED BY <1>6, <1>7, <1>8, <1>12, <1>13 DEF Once

(* A ticket that passes forgets its session and no other.                  *)
LEMMA ResumeHolds ==
  ASSUME RegisterTypeOK, Lists, NEW s \in Clients, NEW f, NEW m, Register!Resume(s, f, m)
  PROVE  /\ Register!Held(s) /\ ~Register!Held(s)'
         /\ \A t \in Clients \ {s} : held'[t] = held[t]
         /\ held' \in [Clients -> Register!Suspensions \cup {None}]
         /\ order' \in Seq(Clients)
         /\ UNCHANGED <<revision, reaping, walk, gone>>
         /\ Lists'
<1>1. /\ Register!Refusal(s, f, m) = None /\ Register!Forget(s)
      /\ UNCHANGED <<revision, reaping, walk, gone>> /\ walk = <<>>
  BY DEF Register!Resume, Lists
<1>2. Register!Held(s)
  BY <1>1, AcceptedTicket
<1>3. Once(walk)' /\ (\A i \in DOMAIN walk' : Register!Held(walk[i])') /\ (reaping \/ walk = <<>>)'
  BY <1>1 DEF Once
<1>4. /\ ~Register!Held(s)'
      /\ \A t \in Clients \ {s} : held'[t] = held[t]
      /\ held' \in [Clients -> Register!Suspensions \cup {None}]
      /\ order' \in Seq(Clients)
      /\ \A t \in Clients : Register!Held(t)' <=> \E i \in DOMAIN order' : order'[i] = t
      /\ Once(order)'
  BY <1>1, <1>2, ForgetHolds
<1> QED BY <1>1, <1>2, <1>3, <1>4 DEF Lists

(* What a Reap judges is held, once it is judged nothing it still has to   *)
(* walk is forgotten, and whoever is forgotten is somebody it returns.     *)
LEMMA JudgesHolds ==
  ASSUME RegisterTypeOK, Lists, Register!ReapJudges
  PROVE  /\ \A t \in Clients : Register!Held(t)' => Register!Held(t) /\ held'[t] = held[t]
         /\ \A t \in Clients : Register!Held(t) /\ ~Register!Held(t)' =>
              /\ gone' = Append(gone, held[t].member)
              /\ \A u \in Clients \ {t} : held'[u] = held[u]
         /\ gone' # gone => \E t \in Clients : Register!Held(t) /\ ~Register!Held(t)'
         /\ held' \in [Clients -> Register!Suspensions \cup {None}]
         /\ order' \in Seq(Clients) /\ walk' \in Seq(Clients) /\ gone' \in Seq(Members)
         /\ Lists'
<1>1. reaping /\ reaping' /\ walk # <<>> /\ walk' = Tail(walk)
  BY DEF Register!ReapJudges, RegisterTypeOK
<1>2. walk \in Seq(Clients) /\ DOMAIN walk = 1..Len(walk) /\ Len(walk) \in Nat
  BY LenProperties DEF RegisterTypeOK
<1>3. Len(walk) >= 1 /\ Head(walk) = walk[1]
  BY <1>1, <1>2, EmptySeq
<1>4. /\ walk' \in Seq(Clients)
      /\ DOMAIN walk' = 1..Len(walk) - 1
      /\ \A i \in 1..Len(walk) - 1 : walk'[i] = walk[i + 1]
  BY <1>1, <1>2, HeadTailProperties, LenProperties
<1>5. walk[1] \in Clients /\ Register!Held(walk[1])
  <2>1. 1 \in DOMAIN walk
    BY <1>2, <1>3
  <2> QED BY <1>2, <2>1 DEF Lists
<1> PICK h \in Clients : h = walk[1] /\ Register!Held(h)
  BY <1>5
<1>6. Once(walk)'
  <2>1. \A i, j \in 1..Len(walk) : walk[i] = walk[j] => i = j
    BY <1>2 DEF Lists, Once
  <2> QED BY <1>2, <1>3, <1>4, <2>1 DEF Once
<1>7. \A i \in DOMAIN walk' : walk'[i] \in Clients \ {h} /\ Register!Held(walk'[i])
  <2> TAKE i \in DOMAIN walk'
  <2>1. i \in 1..Len(walk) - 1 /\ i + 1 \in 1..Len(walk) /\ 1 \in 1..Len(walk) /\ i + 1 # 1
    BY <1>2, <1>4
  <2>2. walk[i + 1] # walk[1] /\ Register!Held(walk[i + 1])
    BY <1>2, <2>1 DEF Lists, Once
  <2>3. walk[i + 1] \in Clients
    BY <1>2, <2>1
  <2> QED BY <1>4, <2>1, <2>2, <2>3
<1>8. CASE Register!Expired(h)
  <2>1. Register!Forget(h) /\ gone' = Append(gone, held[h].member)
    BY <1>3, <1>8 DEF Register!ReapJudges
  <2>2. /\ ~Register!Held(h)'
        /\ \A t \in Clients \ {h} : held'[t] = held[t]
        /\ held' \in [Clients -> Register!Suspensions \cup {None}]
        /\ order' \in Seq(Clients)
        /\ \A t \in Clients : Register!Held(t)' <=> \E i \in DOMAIN order' : order'[i] = t
        /\ Once(order)'
    BY <2>1, ForgetHolds
  <2>3. \A t \in Clients \ {h} : Register!Held(t)' <=> Register!Held(t)
    BY <2>2 DEF Register!Held
  <2>4. held[h].member \in Members
    BY HeldIsSuspension DEF Register!Suspensions
  <2>5. gone' \in Seq(Members)
    BY <2>1, <2>4, AppendProperties DEF RegisterTypeOK
  <2>6. \A i \in DOMAIN walk' : Register!Held(walk[i])'
    BY <1>7, <2>3
  <2>7. Lists'
    BY <1>1, <1>6, <2>2, <2>6 DEF Lists
  <2> QED BY <1>4, <2>1, <2>2, <2>3, <2>5, <2>7
<1>9. CASE ~Register!Expired(h)
  <2>1. UNCHANGED <<gone, held, order>>
    BY <1>3, <1>9 DEF Register!ReapJudges
  <2>2. \A i \in DOMAIN walk' : Register!Held(walk[i])'
    BY <1>7, <2>1 DEF Register!Held
  <2>3. Lists'
    BY <1>1, <1>6, <2>1, <2>2 DEF Lists, Once, Register!Held
  <2> QED BY <1>4, <2>1, <2>3 DEF RegisterTypeOK, Register!Held
<1> QED BY <1>8, <1>9

-----------------------------------------------------------------------------
(* The owner settles one Reap after the other.                             *)
OneSettle == reaping => leaving = <<>>

(* The members whose leave the owner is about to report.                   *)
Departing(m) ==
  \/ \E i \in DOMAIN leaving : leaving[i] = m
  \/ reaping /\ \E i \in DOMAIN gone : gone[i] = m

Unconnected(m) == \A s \in SessionsOf(m) : ~Connected(s)

IInv == TypeOK /\ Lists /\ Places /\ OneSettle

(* A connection that began while a place was held for its session is       *)
(* remembered as such, and so is one whose member's leave is coming: with  *)
(* one device to a member, nobody else's place can end for them.           *)
OneDevice == \A s, t \in Sessions : ViewerOf[s] = ViewerOf[t] => s = t

AttachedOver ==
  \A s \in Sessions : s \in attached /\ Register!Held(s) => found[s] # "nothing"

DepartingAreGone ==
  \A m \in Members : Departing(m) =>
    \A s \in SessionsOf(m) : ~Register!Held(s) /\ (s \in attached => found[s] # "nothing")

(* The watchers see every change, so that a flush names every channel with *)
(* an entry pending; and what a connected client was not sent yet is       *)
(* pending.                                                                *)
WatchersWatch ==
  /\ known = Channels
  /\ Watchers \subseteq attached
  /\ \A w \in Watchers, c \in Channels :
       <<ViewerOf[w], c>> \in grants /\ c \in subscribed[w]

UnsentIsPending ==
  \A s \in attached : \A c \in unsent[s] : pending[c] # Quiet

(* The hub and the register start empty, but for the watchers.             *)
LEMMA InitInv == Init => IInv
<1> SUFFICES ASSUME Init PROVE IInv
  OBVIOUS
<1> USE DEF Init, InitProjection, Register!InitRegister
<1>1. grants \subseteq Members \X Channels
  BY ViewerAssumption
<1>2. HubTypeOK
  BY <1>1, QuietType, NotPresentType, WatchersAssumption DEF HubTypeOK, ProjectionTypeOK
<1>3. TypeOK
  BY <1>2, EmptySeq DEF TypeOK
<1>4. Lists /\ Places /\ OneSettle
  BY DEF Lists, Once, Places, OneSettle, Register!Held
<1> QED BY <1>3, <1>4 DEF IInv

(* The register is well typed when the whole is.                           *)
LEMMA TypeParts ==
  TypeOK <=> /\ HubTypeOK /\ RegisterTypeOK
             /\ leaving \in Seq(Members)
             /\ place \in [Members -> Channels \cup {Zero}]
             /\ found \in [Clients -> {"nothing", "held", "late", "rejoined"}]
             /\ unsent \in [Clients -> SUBSET Channels]
BY DEF TypeOK, RegisterTypeOK

(* Where a member is shown is a channel or none.                           *)
LEMMA ShownType ==
  ASSUME TypeOK, NEW m \in Members
  PROVE  present[m].channel \in Channels \cup {Zero}
BY DEF TypeOK, HubTypeOK, ProjectionTypeOK, Presences, NotPresent

(* Connecting attaches a session, whatever the register holds for it.      *)
LEMMA ConnectsInv ==
  ASSUME IInv, NEW s \in Sessions, Connects(s)
  PROVE  IInv'
<1> s \in Clients /\ ViewerOf[s] \in Members
  BY ViewerAssumption DEF Sessions
<1>1. /\ attached' = attached \cup {s}
      /\ UNCHANGED <<now, revision, held, order, reaping, walk, gone, leaving>>
  BY DEF Connects, Attach
<1>2. HubTypeOK'
  BY DEF Connects, Attach, IInv, TypeOK, HubTypeOK, ProjectionTypeOK
<1>3. Found(s) \in {"nothing", "held", "late", "rejoined"}
  BY DEF Found
<1>4. /\ place' \in [Members -> Channels \cup {Zero}]
      /\ found' \in [Clients -> {"nothing", "held", "late", "rejoined"}]
  BY <1>3, ShownType DEF Connects, StaysInPlace, IInv, TypeOK
<1>5. TypeOK'
  BY <1>1, <1>2, <1>4 DEF Connects, SentEverything, IInv, TypeOK
<1>6. Lists' /\ Places' /\ OneSettle'
  BY <1>1 DEF IInv, Lists, Once, Places, OneSettle, Register!Held
<1> QED BY <1>5, <1>6 DEF IInv

(* A drop leaves the session in the register: it was there already, or it  *)
(* is put there.                                                           *)
LEMMA DropsHolds ==
  ASSUME IInv, NEW s \in Sessions, Drops(s)
  PROVE  /\ s \in attached /\ attached' = attached \ {s}
         /\ Register!Held(s)' /\ held'[s].member = ViewerOf[s]
         /\ \A t \in Clients \ {s} : held'[t] = held[t]
         /\ held'[s] = held[s] \/ held'[s].missed = {}
         /\ held' \in [Clients -> Register!Suspensions \cup {None}]
         /\ order' \in Seq(Clients) /\ Lists'
         /\ UNCHANGED <<now, revision, reaping, walk, gone, leaving, present, pending, unsent>>
<1> s \in Clients /\ ViewerOf[s] \in Members
  BY ViewerAssumption DEF Sessions
<1>1. /\ s \in attached /\ attached' = attached \ {s}
      /\ UNCHANGED <<now, leaving, present, pending, unsent>>
  BY DEF Drops, Detach
<1>2. CASE Register!Held(s)
  <2>1. UNCHANGED <<revision, held, order, reaping, walk, gone>>
    BY <1>2 DEF Drops
  <2>2. Lists'
    BY <2>1 DEF IInv, Lists, Once, Register!Held
  <2> QED BY <1>1, <1>2, <2>1, <2>2 DEF IInv, TypeOK, Places, Register!Held
<1>3. CASE ~Register!Held(s)
  <2>1. Register!Suspend(s, ViewerOf[s])
    BY <1>3 DEF Drops
  <2>2. UNCHANGED <<revision, reaping, walk, gone>>
    BY <2>1 DEF Register!Suspend
  <2> QED BY <1>1, <2>1, <2>2, SuspendHolds, TypeParts DEF IInv
<1> QED BY <1>2, <1>3

LEMMA DropsInv ==
  ASSUME IInv, NEW s \in Sessions, Drops(s)
  PROVE  IInv'
<1> s \in Clients /\ ViewerOf[s] \in Members
  BY ViewerAssumption DEF Sessions
<1>1. /\ attached' = attached \ {s}
      /\ Register!Held(s)' /\ held'[s].member = ViewerOf[s]
      /\ \A t \in Clients \ {s} : held'[t] = held[t]
      /\ held' \in [Clients -> Register!Suspensions \cup {None}]
      /\ order' \in Seq(Clients) /\ Lists'
      /\ UNCHANGED <<now, revision, reaping, walk, gone, leaving, unsent>>
  BY DropsHolds
<1>2. HubTypeOK'
  BY DEF Drops, Detach, IInv, TypeOK, HubTypeOK, ProjectionTypeOK
<1>3. /\ place' \in [Members -> Channels \cup {Zero}]
      /\ found' \in [Clients -> {"nothing", "held", "late", "rejoined"}]
  BY ShownType DEF Drops, StaysInPlace, IInv, TypeOK
<1>4. TypeOK'
  BY <1>1, <1>2, <1>3 DEF IInv, TypeOK
<1>5. Places'
  BY <1>1 DEF IInv, Places, Register!Held
<1>6. OneSettle'
  BY <1>1 DEF IInv, OneSettle
<1> QED BY <1>1, <1>4, <1>5, <1>6 DEF IInv

(* A resume takes it out of there again.                                   *)
LEMMA ResumesInv ==
  ASSUME IInv, NEW s \in Sessions, NEW f, Resumes(s, f)
  PROVE  IInv'
<1> s \in Clients
  BY DEF Sessions
<1>1. /\ attached' = attached \cup {s} /\ Register!Resume(s, f, ViewerOf[s])
      /\ UNCHANGED <<now, leaving, place, found>> /\ SentEverything(s)
  BY DEF Resumes, Attach
<1>2. HubTypeOK'
  BY DEF Resumes, Attach, IInv, TypeOK, HubTypeOK, ProjectionTypeOK
<1>3. /\ ~Register!Held(s)'
      /\ \A t \in Clients \ {s} : held'[t] = held[t]
      /\ held' \in [Clients -> Register!Suspensions \cup {None}]
      /\ order' \in Seq(Clients) /\ Lists'
      /\ UNCHANGED <<revision, reaping, walk, gone>>
  BY <1>1, ResumeHolds, TypeParts DEF IInv
<1>4. TypeOK'
  BY <1>1, <1>2, <1>3 DEF IInv, TypeOK, SentEverything
<1>5. Places'
  BY <1>1, <1>3 DEF IInv, Places, Register!Held
<1>6. OneSettle'
  BY <1>1, <1>3 DEF IInv, OneSettle
<1> QED BY <1>3, <1>4, <1>5, <1>6 DEF IInv

(* What a report changes outside the register.                             *)
LEMMA ReportsHolds ==
  ASSUME TypeOK, NEW m \in Members, NEW state \in States,
         Reports(Report(m, seq[m] + 1, state))
  PROVE  /\ HubTypeOK'
         /\ present' = [present EXCEPT ![m] = Publish(state)]
         /\ UNCHANGED <<known, grants, attached, subscribed>>
         /\ unsent' \in [Clients -> SUBSET Channels]
         /\ \A cl \in Clients : \A c \in unsent'[cl] :
              \/ c \in unsent[cl] /\ (pending[c] # Quiet => pending'[c] # Quiet)
              \/ pending'[c] # Quiet
<1> DEFINE r == Report(m, seq[m] + 1, state)
<1>1. /\ HubApply(r)
      /\ unsent' = [cl \in Clients |-> unsent[cl] \cup Owed(cl, r)]
  BY DEF Reports
<1>2. /\ HubTypeOK'
      /\ present' = [present EXCEPT ![m] = Publish(state)]
      /\ UNCHANGED <<known, grants, attached, subscribed>>
      /\ \A c \in Channels :
           /\ pending[c] # Quiet => pending'[c] # Quiet
           /\ Moves(r) /\ c \in {present[m].channel, state.channel} => pending'[c] # Quiet
  BY <1>1, NextReport DEF TypeOK
<1>3. present[m].channel \in Channels \cup {Zero} /\ state.channel \in Channels \cup {Zero}
  BY PublishType DEF TypeOK, HubTypeOK, ProjectionTypeOK, Presences, NotPresent
<1>4. \A cl \in Clients : /\ Owed(cl, r) \subseteq Channels
                          /\ \A c \in Owed(cl, r) : pending'[c] # Quiet
  BY <1>2, <1>3 DEF Owed, Report
<1>5. unsent \in [Clients -> SUBSET Channels]
  BY DEF TypeOK
<1> QED BY <1>1, <1>2, <1>4, <1>5

(* A report does not touch the register ...                                *)
LEMMA MemberReportsInv ==
  ASSUME IInv, NEW s \in Sessions, NEW state \in States, MemberReports(s, state)
  PROVE  IInv'
<1> DEFINE m == ViewerOf[s]
<1>1. m \in Members
  BY ViewerAssumption DEF Sessions
<1>2. /\ Reports(Report(m, seq[m] + 1, state))
      /\ place' = [place EXCEPT ![m] = state.channel]
      /\ found' = IF found[s] = "late" /\ state.channel # Zero
                    THEN [found EXCEPT ![s] = "rejoined"] ELSE found
      /\ UNCHANGED <<now, revision, held, order, reaping, walk, gone, leaving>>
  BY DEF MemberReports
<1>3. HubTypeOK' /\ attached' = attached /\ unsent' \in [Clients -> SUBSET Channels]
  BY <1>1, <1>2, ReportsHolds DEF IInv
<1>4. /\ place' \in [Members -> Channels \cup {Zero}]
      /\ found' \in [Clients -> {"nothing", "held", "late", "rejoined"}]
  BY <1>1, <1>2, PublishType DEF IInv, TypeOK
<1>6. TypeOK'
  BY <1>2, <1>3, <1>4 DEF IInv, TypeOK
<1>5. Lists' /\ Places' /\ OneSettle'
  BY <1>2, <1>3 DEF IInv, Lists, Once, Places, OneSettle, Register!Held
<1> QED BY <1>5, <1>6 DEF IInv

(* ... and the settle touches nothing else: it copies the order,           *)
LEMMA SettleBeginsInv ==
  ASSUME IInv, SettleBegins
  PROVE  IInv'
<1>1. /\ walk' = order /\ reaping' = TRUE /\ gone' = <<>> /\ leaving = <<>>
      /\ UNCHANGED <<hubVars, now, revision, held, order, leaving, place, found, unsent>>
  BY DEF SettleBegins, Register!ReapBegins, Idle
<1>2. TypeOK'
  BY <1>1, EmptySeq DEF IInv, TypeOK, HubTypeOK, ProjectionTypeOK, hubVars
<1>3. \A i \in DOMAIN order : order[i] \in Clients
  BY LenProperties DEF IInv, TypeOK
<1>4. Lists'
  BY <1>1, <1>3 DEF IInv, Lists, Once, Register!Held
<1>5. Places' /\ OneSettle'
  BY <1>1 DEF IInv, Places, OneSettle, Register!Held, hubVars
<1> QED BY <1>2, <1>4, <1>5 DEF IInv

(* forgets sessions, attached or not,                                      *)
LEMMA SettleJudgesInv ==
  ASSUME IInv, SettleJudges
  PROVE  IInv'
<1>1. /\ Register!ReapJudges
      /\ UNCHANGED <<hubVars, now, revision, reaping, leaving, place, found, unsent>>
  BY DEF SettleJudges, Register!ReapJudges
<1>2. /\ \A t \in Clients : Register!Held(t)' => Register!Held(t) /\ held'[t] = held[t]
      /\ held' \in [Clients -> Register!Suspensions \cup {None}]
      /\ order' \in Seq(Clients) /\ walk' \in Seq(Clients) /\ gone' \in Seq(Members)
      /\ Lists'
  BY <1>1, JudgesHolds, TypeParts DEF IInv
<1>3. TypeOK'
  BY <1>1, <1>2 DEF IInv, TypeOK, HubTypeOK, ProjectionTypeOK, hubVars
<1>4. Places' /\ OneSettle'
  BY <1>1, <1>2 DEF IInv, Places, OneSettle, hubVars
<1> QED BY <1>2, <1>3, <1>4 DEF IInv

(* and leaves its members to be reported, one after the other.             *)
LEMMA SettleReturnsInv ==
  ASSUME IInv, SettleReturns
  PROVE  IInv'
<1>1. /\ walk = <<>> /\ reaping' = FALSE /\ leaving' = gone
      /\ UNCHANGED <<hubVars, now, revision, held, order, walk, gone, place, found, unsent>>
  BY DEF SettleReturns, Register!ReapReturns
<1>2. TypeOK'
  BY <1>1 DEF IInv, TypeOK, HubTypeOK, ProjectionTypeOK, hubVars
<1>3. Lists' /\ Places' /\ OneSettle'
  BY <1>1 DEF IInv, Lists, Once, Places, OneSettle, Register!Held, hubVars
<1> QED BY <1>2, <1>3 DEF IInv

(* The leaves to be reported are the first and the rest.                   *)
LEMMA LeavingHead ==
  ASSUME TypeOK, leaving # <<>>
  PROVE  /\ Head(leaving) \in Members
         /\ Tail(leaving) \in Seq(Members)
         /\ \A m \in Members : (\E i \in DOMAIN leaving : leaving[i] = m) =>
              m = Head(leaving) \/ \E i \in DOMAIN Tail(leaving) : Tail(leaving)[i] = m
         /\ \A i \in DOMAIN Tail(leaving) : \E j \in DOMAIN leaving : leaving[j] = Tail(leaving)[i]
         /\ \E j \in DOMAIN leaving : leaving[j] = Head(leaving)
<1>1. leaving \in Seq(Members) /\ DOMAIN leaving = 1..Len(leaving) /\ Len(leaving) \in Nat
  BY LenProperties DEF TypeOK
<1>2. Len(leaving) >= 1 /\ Head(leaving) = leaving[1] /\ leaving[1] \in Members
  BY <1>1, EmptySeq, HeadTailProperties
<1>3. /\ Tail(leaving) \in Seq(Members)
      /\ DOMAIN Tail(leaving) = 1..Len(leaving) - 1
      /\ \A i \in 1..Len(leaving) - 1 : Tail(leaving)[i] = leaving[i + 1]
  BY <1>1, HeadTailProperties, LenProperties
<1>4. ASSUME NEW j \in 1..Len(leaving), j # 1
      PROVE  \E i \in DOMAIN Tail(leaving) : Tail(leaving)[i] = leaving[j]
  <2>1. j - 1 \in 1..Len(leaving) - 1 /\ (j - 1) + 1 = j
    BY <1>1, <1>4
  <2> QED BY <1>3, <2>1
<1>5. \A i \in 1..Len(leaving) - 1 : i + 1 \in 1..Len(leaving)
  BY <1>1
<1>6. 1 \in DOMAIN leaving
  BY <1>1, <1>2
<1> QED BY <1>1, <1>2, <1>3, <1>4, <1>5, <1>6

(* A leave is one report fewer to make.                                    *)
LEMMA LeaveIsReportedInv ==
  ASSUME IInv, LeaveIsReported
  PROVE  IInv'
<1> PICK m \in Members : m = Head(leaving)
  BY LeavingHead DEF IInv, LeaveIsReported
<1>1. /\ Reports(Report(m, seq[m] + 1, NotPresent))
      /\ leaving' = Tail(leaving) /\ leaving # <<>>
      /\ UNCHANGED <<now, revision, held, order, reaping, walk, gone, place, found>>
  BY DEF LeaveIsReported
<1>2. HubTypeOK' /\ attached' = attached /\ unsent' \in [Clients -> SUBSET Channels]
  BY <1>1, ReportsHolds, NotPresentType DEF IInv
<1>3. leaving' \in Seq(Members)
  BY <1>1, LeavingHead DEF IInv
<1>4. TypeOK'
  BY <1>1, <1>2, <1>3 DEF IInv, TypeOK
<1>5. Lists' /\ Places'
  BY <1>1, <1>2 DEF IInv, Lists, Once, Places, Register!Held
<1>6. OneSettle'
  BY <1>1 DEF IInv, OneSettle
<1> QED BY <1>4, <1>5, <1>6 DEF IInv

(* A flush publishes channels, and changes no place.                       *)
LEMMA IntervalEndsInv ==
  ASSUME IInv, IntervalEnds
  PROVE  IInv'
<1>1. /\ Register!Published(MovedIn) /\ Flush
      /\ UNCHANGED <<now, leaving, place, found>>
      /\ unsent' = [cl \in Clients |-> IF cl \in attached THEN {} ELSE unsent[cl]]
  BY DEF IntervalEnds
<1>2. MovedIn \in SUBSET Channels
  BY DEF MovedIn
<1>3. /\ revision' \in Nat
      /\ held' \in [Clients -> Register!Suspensions \cup {None}]
      /\ \A s \in Clients : /\ Register!Held(s)' <=> Register!Held(s)
                            /\ Register!Held(s) => held'[s].member = held[s].member
  BY <1>1, <1>2, PublishedHolds, TypeParts DEF IInv
<1>4. UNCHANGED <<order, reaping, walk, gone>>
  BY <1>1 DEF Register!Published
<1>5. HubTypeOK' /\ attached' = attached
  BY <1>1, QuietType DEF Flush, IInv, TypeOK, HubTypeOK, ProjectionTypeOK
<1>6. unsent' \in [Clients -> SUBSET Channels]
  BY <1>1 DEF IInv, TypeOK
<1>7. TypeOK'
  BY <1>1, <1>3, <1>4, <1>5, <1>6 DEF IInv, TypeOK
<1>8. \A i \in DOMAIN walk : walk[i] \in Clients
  BY LenProperties DEF IInv, TypeOK
<1>9. Lists' /\ Places' /\ OneSettle'
  BY <1>1, <1>3, <1>4, <1>5, <1>8 DEF IInv, Lists, Once, Places, OneSettle
<1> QED BY <1>7, <1>9 DEF IInv

(* Every step keeps the invariant.                                         *)
LEMMA NextInv == IInv /\ [Next]_vars => IInv'
<1> SUFFICES ASSUME IInv, [Next]_vars PROVE IInv'
  OBVIOUS
<1>1. CASE ClockMoves
  BY <1>1 DEF ClockMoves, Register!Tick, Register!registerVars, hubVars, IInv, TypeOK,
              HubTypeOK, ProjectionTypeOK, Lists, Once, Places, OneSettle, Register!Held
<1>2. CASE UNCHANGED vars
  BY <1>2 DEF vars, hubVars, IInv, TypeOK,
              HubTypeOK, ProjectionTypeOK, Lists, Once, Places, OneSettle, Register!Held
<1> QED BY <1>1, <1>2, ConnectsInv, DropsInv, ResumesInv, MemberReportsInv, SettleBeginsInv,
           SettleJudgesInv, SettleReturnsInv, LeaveIsReportedInv, IntervalEndsInv DEF Next

(* So it holds in every state of every behaviour.                          *)
LEMMA Invariant == Spec => []IInv
BY InitInv, NextInv, PTL DEF Spec

(* The hub, the register and what their owner remembers keep their types.  *)
THEOREM TypeCorrect == Spec => []TypeOK
<1>1. IInv => TypeOK
  BY DEF IInv
<1> QED BY <1>1, Invariant, PTL

-----------------------------------------------------------------------------
(* Only connecting makes a session connected, and only a settle ends that: *)
(* a drop, a resume, a report or a flush does neither.                     *)
LEMMA StayConnected ==
  ASSUME IInv, [Next]_vars, ~SettleJudges, NEW t \in Sessions
  PROVE  /\ Connected(t) => Connected(t)'
         /\ Connected(t)' /\ ~Connected(t) => Connects(t)
<1> t \in Clients
  BY DEF Sessions
<1> USE DEF Connected
<1>1. ASSUME NEW s \in Sessions, Connects(s)
      PROVE  /\ Connected(t) => Connected(t)'
             /\ Connected(t)' /\ ~Connected(t) => t = s
  BY <1>1 DEF Connects, Attach, Register!Held
<1>2. ASSUME NEW s \in Sessions, Drops(s) PROVE Connected(t)' <=> Connected(t)
  <2>1. /\ Register!Held(s)' /\ \A u \in Clients \ {s} : held'[u] = held[u]
        /\ s \in attached /\ attached' = attached \ {s}
    BY <1>2, DropsHolds
  <2> QED BY <2>1 DEF Register!Held
<1>3. ASSUME NEW s \in Sessions, NEW f, Resumes(s, f) PROVE Connected(t)' <=> Connected(t)
  <2>1. /\ Register!Held(s) /\ \A u \in Clients \ {s} : held'[u] = held[u]
        /\ attached' = attached \cup {s}
    <3>1. s \in Clients
      BY DEF Sessions
    <3> QED BY <1>3, <3>1, ResumeHolds, TypeParts DEF Resumes, Attach, IInv
  <2> QED BY <2>1 DEF Register!Held
<1>4. ASSUME NEW s \in Sessions, NEW state \in States, MemberReports(s, state)
      PROVE  Connected(t)' <=> Connected(t)
  BY <1>4 DEF MemberReports, Reports, HubApply, Register!Held
<1>5. CASE SettleBegins
  BY <1>5 DEF SettleBegins, Register!ReapBegins, hubVars, Register!Held
<1>6. CASE SettleReturns
  BY <1>6 DEF SettleReturns, Register!ReapReturns, hubVars, Register!Held
<1>7. CASE LeaveIsReported
  BY <1>7 DEF LeaveIsReported, Reports, HubApply, Register!Held
<1>8. CASE IntervalEnds
  <2>1. MovedIn \in SUBSET Channels /\ Register!Published(MovedIn) /\ attached' = attached
    BY <1>8 DEF IntervalEnds, MovedIn, Flush
  <2>2. Register!Held(t)' <=> Register!Held(t)
    BY <2>1, PublishedHolds, TypeParts DEF IInv
  <2> QED BY <2>1, <2>2
<1>9. CASE ClockMoves
  BY <1>9 DEF ClockMoves, Register!Tick, Register!registerVars, hubVars, Register!Held
<1>10. CASE UNCHANGED vars
  BY <1>10 DEF vars, hubVars, Register!Held
<1> QED BY <1>1, <1>2, <1>3, <1>4, <1>5, <1>6, <1>7, <1>8, <1>9, <1>10 DEF Next

(* What a settle's judgement ends is one session's place, and its member   *)
(* is among those that are returned.                                       *)
LEMMA JudgedDepart ==
  ASSUME IInv, SettleJudges
  PROVE  /\ \A t \in Sessions : Connected(t)' => Connected(t)
         /\ \A t \in Sessions : Connected(t) /\ ~Connected(t)' =>
              gone' = Append(gone, ViewerOf[t])
         /\ gone' # gone => \E t \in Sessions :
              gone' = Append(gone, ViewerOf[t]) /\ Register!Held(t) /\ ~Register!Held(t)'
         /\ reaping /\ reaping' /\ UNCHANGED <<hubVars, leaving>>
<1>1. /\ Register!ReapJudges /\ UNCHANGED <<hubVars, reaping, leaving>> /\ reaping
      /\ attached' = attached
  BY DEF SettleJudges, Register!ReapJudges, hubVars
<1>2. /\ \A t \in Clients : Register!Held(t)' => Register!Held(t)
      /\ \A t \in Clients : Register!Held(t) /\ ~Register!Held(t)' =>
           gone' = Append(gone, held[t].member)
      /\ gone' # gone => \E t \in Clients : Register!Held(t) /\ ~Register!Held(t)'
  BY <1>1, JudgesHolds, TypeParts DEF IInv
<1>3. \A t \in Clients : Register!Held(t) =>
        t \in Sessions /\ held[t].member = ViewerOf[t]
  BY DEF IInv, Places
<1>4. \A t \in Sessions : t \in Clients
  BY DEF Sessions
<1> QED BY <1>1, <1>2, <1>3, <1>4 DEF Connected

(* What a sequence lists once something is appended to it.                 *)
LEMMA AppendedIs ==
  ASSUME NEW q \in Seq(Members), NEW m \in Members
  PROVE  /\ \A n : (\E i \in DOMAIN q : q[i] = n) => \E i \in DOMAIN Append(q, m) : Append(q, m)[i] = n
         /\ \E i \in DOMAIN Append(q, m) : Append(q, m)[i] = m
         /\ \A i \in DOMAIN Append(q, m) : Append(q, m)[i] = m \/ \E j \in DOMAIN q : q[j] = Append(q, m)[i]
<1> DEFINE a == Append(q, m)
<1>1. /\ DOMAIN q = 1..Len(q) /\ Len(q) \in Nat /\ DOMAIN a = 1..Len(q) + 1
      /\ \A i \in 1..Len(q) : a[i] = q[i]
      /\ a[Len(q) + 1] = m
  BY AppendProperties, LenProperties
<1>2. \A i \in 1..Len(q) + 1 : i \in 1..Len(q) \/ i = Len(q) + 1
  BY <1>1
<1>3. Len(q) + 1 \in 1..Len(q) + 1 /\ \A i \in 1..Len(q) : i \in 1..Len(q) + 1
  BY <1>1
<1> HIDE DEF a
<1>4. \A i \in DOMAIN a : a[i] = m \/ \E j \in DOMAIN q : q[j] = a[i]
  BY <1>1, <1>2
<1>5. \E i \in DOMAIN a : a[i] = m
  BY <1>1, <1>3
<1>6. \A n : (\E i \in DOMAIN q : q[i] = n) => \E i \in DOMAIN a : a[i] = n
  BY <1>1, <1>3
<1> QED BY <1>4, <1>5, <1>6 DEF a

(* Who is departing stays so until the leave is reported, and only a       *)
(* settle's judgement adds to them.                                        *)
LEMMA DepartingStep ==
  ASSUME IInv, [Next]_vars, NEW m \in Members
  PROVE  /\ Departing(m) /\ ~Departing(m)' => LeaveIsReported /\ m = Head(leaving)
         /\ Departing(m)' /\ ~Departing(m) =>
              SettleJudges /\ \E t \in SessionsOf(m) : Register!Held(t) /\ ~Register!Held(t)'
<1> USE DEF Departing
<1>1. CASE Idle /\ UNCHANGED <<reaping, leaving, gone>>
  BY <1>1
<1>2. CASE SettleBegins
  BY <1>2 DEF SettleBegins, Register!ReapBegins, Idle, EmptySeq
<1>3. CASE SettleJudges
  <2>1. /\ reaping /\ reaping' /\ UNCHANGED leaving
        /\ gone' # gone => \E t \in Sessions :
             gone' = Append(gone, ViewerOf[t]) /\ Register!Held(t) /\ ~Register!Held(t)'
    BY <1>3, JudgedDepart
  <2>2. CASE gone' = gone
    BY <2>1, <2>2
  <2>3. CASE gone' # gone
    <3>1. PICK t \in Sessions :
            gone' = Append(gone, ViewerOf[t]) /\ Register!Held(t) /\ ~Register!Held(t)'
      BY <2>1, <2>3
    <3>2. ViewerOf[t] \in Members /\ gone \in Seq(Members)
      BY ViewerAssumption DEF Sessions, IInv, TypeOK
    <3>3. /\ (\E i \in DOMAIN gone : gone[i] = m) => \E i \in DOMAIN gone' : gone'[i] = m
          /\ (\E i \in DOMAIN gone' : gone'[i] = m) =>
               m = ViewerOf[t] \/ \E i \in DOMAIN gone : gone[i] = m
      <4>1. PICK n \in Members : n = ViewerOf[t] /\ gone' = Append(gone, n)
        BY <3>1, <3>2
      <4>2. /\ \A k : (\E i \in DOMAIN gone : gone[i] = k)
                  => \E i \in DOMAIN Append(gone, n) : Append(gone, n)[i] = k
            /\ \A i \in DOMAIN Append(gone, n) :
                 Append(gone, n)[i] = n \/ \E j \in DOMAIN gone : gone[j] = Append(gone, n)[i]
        BY <3>2, AppendedIs
      <4> QED BY <4>1, <4>2
    <3>4. m = ViewerOf[t] => t \in SessionsOf(m)
      BY DEF SessionsOf
    <3> QED BY <1>3, <2>1, <3>1, <3>3, <3>4
  <2> QED BY <2>2, <2>3
<1>4. CASE SettleReturns
  <2>1. reaping /\ ~reaping' /\ leaving' = gone
    BY <1>4 DEF SettleReturns, Register!ReapReturns
  <2>2. leaving = <<>>
    BY <2>1 DEF IInv, OneSettle
  <2> QED BY <2>1, <2>2
<1>5. CASE LeaveIsReported
  <2>1. leaving # <<>> /\ leaving' = Tail(leaving) /\ ~reaping /\ UNCHANGED <<reaping, gone>>
    BY <1>5 DEF LeaveIsReported, IInv, OneSettle
  <2> QED BY <1>5, <2>1, LeavingHead DEF IInv
<1>6. CASE ClockMoves \/ UNCHANGED vars
  BY <1>6 DEF ClockMoves, Register!Tick, Register!registerVars, vars
<1>7. ASSUME NEW s \in Sessions, NEW f, NEW state \in States,
             Connects(s) \/ Drops(s) \/ Resumes(s, f) \/ MemberReports(s, state) \/ IntervalEnds
      PROVE  Idle /\ UNCHANGED <<reaping, leaving, gone>>
  BY <1>7 DEF Connects, Drops, Resumes, MemberReports, IntervalEnds,
              Register!Suspend, Register!Resume, Register!Published
<1>8. CASE IntervalEnds
  BY <1>8, <1>1 DEF IntervalEnds, Register!Published
<1> QED BY <1>1, <1>2, <1>3, <1>4, <1>5, <1>6, <1>7, <1>8, NotPresentType DEF Next

(* The reported leave shows its member nowhere, and moves nobody else.     *)
LEMMA LeavingIsShownNowhere ==
  ASSUME IInv, LeaveIsReported, NEW m \in Members
  PROVE  /\ m = Head(leaving) => present'[m] = NotPresent
         /\ m # Head(leaving) => present'[m] = present[m]
<1>1. PICK n \in Members : n = Head(leaving)
  BY LeavingHead DEF IInv, LeaveIsReported
<1>2. Reports(Report(n, seq[n] + 1, NotPresent))
  BY <1>1 DEF LeaveIsReported
<1>3. present' = [present EXCEPT ![n] = Publish(NotPresent)]
  BY <1>2, ReportsHolds, NotPresentType DEF IInv
<1>4. Publish(NotPresent) = NotPresent
  BY DEF Publish, NotPresent
<1> QED BY <1>1, <1>2, <1>3, <1>4 DEF IInv, TypeOK, HubTypeOK, ProjectionTypeOK

(* A presence changes only by its member's own report, made while          *)
(* attached, or by the reported leave.                                     *)
LEMMA PresenceStep ==
  ASSUME IInv, [Next]_vars, NEW m \in Members
  PROVE  \/ present'[m] = present[m]
         \/ LeaveIsReported /\ m = Head(leaving) /\ present'[m] = NotPresent
         \/ \E s \in SessionsOf(m) : s \in attached /\ attached' = attached /\ Idle
<1>1. ASSUME NEW s \in Sessions, NEW state \in States, MemberReports(s, state), ViewerOf[s] = m
      PROVE  s \in SessionsOf(m) /\ s \in attached /\ attached' = attached /\ Idle
  BY <1>1 DEF MemberReports, Reports, HubApply, SessionsOf
<1>2. ASSUME NEW s \in Sessions, NEW state \in States, MemberReports(s, state), ViewerOf[s] # m
      PROVE  present'[m] = present[m]
  <2> DEFINE n == ViewerOf[s]
  <2>1. n \in Members
    BY ViewerAssumption DEF Sessions
  <2>2. Reports(Report(n, seq[n] + 1, state))
    BY <1>2 DEF MemberReports
  <2>3. present' = [present EXCEPT ![n] = Publish(state)]
    BY <2>1, <2>2, ReportsHolds DEF IInv
  <2> QED BY <1>2, <2>3 DEF IInv, TypeOK, HubTypeOK, ProjectionTypeOK
<1>3. CASE LeaveIsReported
  BY <1>3, LeavingIsShownNowhere
<1>4. ASSUME NEW s \in Sessions, NEW f,
             Connects(s) \/ Drops(s) \/ Resumes(s, f)
      PROVE  present' = present
  BY <1>4 DEF Connects, Drops, Resumes, Attach, Detach
<1>5. CASE SettleBegins \/ SettleJudges \/ SettleReturns \/ IntervalEnds \/ ClockMoves \/ UNCHANGED vars
  BY <1>5 DEF SettleBegins, SettleJudges, SettleReturns, IntervalEnds, Flush, ClockMoves, hubVars, vars
<1> QED BY <1>1, <1>2, <1>3, <1>4, <1>5 DEF Next

(* A presence without a connection, a held place or a coming leave cannot  *)
(* come about: whatever ends the one begins the other.                     *)
THEOREM NoGhosts == Spec => []NobodyIsAGhost
<1> DEFINE Shown == \A m \in Members : present[m] # NotPresent => ~Unconnected(m) \/ Departing(m)
<1>1. Init => Shown
  BY DEF Init, InitProjection
<1>2. IInv /\ Shown /\ [Next]_vars => Shown'
  <2> SUFFICES ASSUME IInv, Shown, [Next]_vars, NEW m \in Members, present'[m] # NotPresent
               PROVE  ~Unconnected(m)' \/ Departing(m)'
    OBVIOUS
  <2> USE DEF Unconnected
  <2>1. CASE \E s \in SessionsOf(m) : s \in attached /\ attached' = attached
    <3>1. PICK s \in SessionsOf(m) : s \in attached'
      BY <2>1
    <3> QED BY <3>1 DEF Connected, SessionsOf
  <2>2. CASE present'[m] = present[m] /\ Departing(m) /\ ~(LeaveIsReported /\ m = Head(leaving))
    BY <2>2, DepartingStep
  <2>3. CASE present'[m] = present[m] /\ ~Unconnected(m)
    <3>1. PICK s \in SessionsOf(m) : Connected(s)
      BY <2>3
    <3>2. s \in Sessions /\ ViewerOf[s] = m
      BY DEF SessionsOf
    <3>3. CASE ~SettleJudges
      BY <3>1, <3>2, <3>3, StayConnected DEF SessionsOf
    <3>4. CASE SettleJudges /\ ~Connected(s)'
      <4>1. gone' = Append(gone, m) /\ reaping'
        BY <3>1, <3>2, <3>4, JudgedDepart
      <4>2. gone \in Seq(Members)
        BY DEF IInv, TypeOK
      <4> QED BY <4>1, <4>2, AppendedIs DEF Departing
    <3> QED BY <3>2, <3>3, <3>4 DEF SessionsOf
  <2>4. CASE LeaveIsReported /\ m = Head(leaving)
    <3>1. present'[m] = NotPresent \/ \E s \in SessionsOf(m) : s \in attached /\ attached' = attached
      BY <2>4, PresenceStep, LeavingIsShownNowhere
    <3> QED BY <2>1, <3>1
  <2> QED BY <2>1, <2>2, <2>3, <2>4, PresenceStep
<1>3. Shown => NobodyIsAGhost
  BY DEF NobodyIsAGhost, Unconnected, Departing
<1> QED BY <1>1, <1>2, <1>3, Invariant, PTL DEF Spec

-----------------------------------------------------------------------------
(* A departing member keeps the owner inside settle.                       *)
LEMMA DepartingIsNotIdle ==
  ASSUME NEW m, Departing(m)
  PROVE  ~Idle
BY DEF Departing, Idle

(* While the owner settles, places end and none begins, and nobody         *)
(* connects or goes.                                                       *)
LEMMA SettlingStep ==
  ASSUME IInv, [Next]_vars, ~Idle
  PROVE  /\ UNCHANGED <<attached, place, found>>
         /\ now' = now \/ now' = now + 1
         /\ \A t \in Clients : Register!Held(t)' => held'[t] = held[t]
<1>1. CASE SettleJudges
  <2>1. \A t \in Clients : Register!Held(t)' => held'[t] = held[t]
    BY <1>1, JudgesHolds, TypeParts DEF SettleJudges, IInv
  <2> QED BY <1>1, <2>1 DEF SettleJudges, hubVars
<1>2. CASE SettleReturns
  BY <1>2 DEF SettleReturns, Register!ReapReturns, hubVars
<1>3. CASE LeaveIsReported
  BY <1>3 DEF LeaveIsReported, Reports, HubApply
<1>4. CASE ClockMoves \/ UNCHANGED vars
  BY <1>4 DEF ClockMoves, Register!Tick, Register!registerVars, hubVars, vars
<1>5. ASSUME NEW s \in Sessions PROVE ~Connects(s) /\ ~Drops(s)
  BY DEF Connects, Drops
<1>6. ASSUME NEW s \in Sessions, NEW f PROVE ~Resumes(s, f)
  BY DEF Resumes
<1>7. ASSUME NEW s \in Sessions, NEW state PROVE ~MemberReports(s, state)
  BY DEF MemberReports
<1>8. ~SettleBegins /\ ~IntervalEnds
  BY DEF SettleBegins, IntervalEnds
<1> QED BY <1>1, <1>2, <1>3, <1>4, <1>5, <1>6, <1>7, <1>8 DEF Next

(* A connection that begins finds nothing only where nothing is held, and  *)
(* the place of a session that has a connection is never made then.        *)
LEMMA NextAttachedOver ==
  ASSUME IInv, AttachedOver, [Next]_vars
  PROVE  AttachedOver'
<1> SUFFICES ASSUME NEW t \in Sessions, t \in attached', Register!Held(t)'
             PROVE  found'[t] # "nothing"
  BY DEF AttachedOver
<1> t \in Clients
  BY DEF Sessions
<1>0. found \in [Clients -> {"nothing", "held", "late", "rejoined"}]
  BY DEF IInv, TypeOK
<1>1. ASSUME NEW s \in Sessions, Connects(s) PROVE found'[t] # "nothing"
  <2>1. /\ attached' = attached \cup {s} /\ held' = held
        /\ found' = [found EXCEPT ![s] = Found(s)]
    BY <1>1 DEF Connects, Attach
  <2>2. Register!Held(t) /\ (t = s => Found(s) # "nothing")
    BY <2>1 DEF Found, Register!Held
  <2> QED BY <1>0, <2>1, <2>2 DEF AttachedOver
<1>2. ASSUME NEW s \in Sessions, Drops(s) PROVE found'[t] # "nothing"
  <2>1. t # s /\ t \in attached /\ held'[t] = held[t]
    BY <1>2, DropsHolds
  <2>2. found'[t] = found[t]
    BY <1>0, <1>2, <2>1 DEF Drops
  <2> QED BY <2>1, <2>2 DEF AttachedOver, Register!Held
<1>3. ASSUME NEW s \in Sessions, NEW f, Resumes(s, f) PROVE found'[t] # "nothing"
  <2>1. /\ attached' = attached \cup {s} /\ found' = found
        /\ Register!Resume(s, f, ViewerOf[s]) /\ s \in Clients
    BY <1>3 DEF Resumes, Attach, Sessions
  <2>2. ~Register!Held(s)' /\ \A u \in Clients \ {s} : held'[u] = held[u]
    BY <2>1, ResumeHolds, TypeParts DEF IInv
  <2> QED BY <2>1, <2>2 DEF AttachedOver, Register!Held
<1>4. ASSUME NEW s \in Sessions, NEW state \in States, MemberReports(s, state)
      PROVE  found'[t] # "nothing"
  <2>1. UNCHANGED <<attached, held>> /\ (found'[t] = "nothing" => found[t] = "nothing")
    BY <1>0, <1>4 DEF MemberReports, Reports, HubApply, Sessions
  <2> QED BY <2>1 DEF AttachedOver, Register!Held
<1>5. CASE IntervalEnds
  <2>1. MovedIn \in SUBSET Channels /\ Register!Published(MovedIn) /\ UNCHANGED <<attached, found>>
    BY <1>5 DEF IntervalEnds, MovedIn, Flush
  <2>2. Register!Held(t)
    BY <2>1, PublishedHolds, TypeParts DEF IInv
  <2> QED BY <2>1, <2>2 DEF AttachedOver
<1>6. CASE SettleBegins
  BY <1>6 DEF SettleBegins, Register!ReapBegins, hubVars, AttachedOver, Register!Held
<1>7. CASE ~Idle
  BY <1>7, SettlingStep DEF AttachedOver, Register!Held
<1>8. CASE ClockMoves \/ UNCHANGED vars
  BY <1>8 DEF ClockMoves, Register!Tick, Register!registerVars, hubVars, vars, AttachedOver, Register!Held
<1>9. SettleJudges \/ SettleReturns \/ LeaveIsReported => ~Idle
  BY DEF SettleJudges, Register!ReapJudges, SettleReturns, Register!ReapReturns, LeaveIsReported, Idle
<1> QED BY <1>1, <1>2, <1>3, <1>4, <1>5, <1>6, <1>7, <1>8, <1>9 DEF Next

(* A member with one device keeps no other place, while their leave is to  *)
(* be reported, than one they connected over.                              *)
LEMMA NextDeparting ==
  ASSUME OneDevice, IInv, AttachedOver, DepartingAreGone, [Next]_vars
  PROVE  DepartingAreGone'
<1> SUFFICES ASSUME NEW m \in Members, Departing(m)', NEW t \in SessionsOf(m)
             PROVE  ~Register!Held(t)' /\ (t \in attached' => found'[t] # "nothing")
  BY DEF DepartingAreGone, SessionsOf
<1>0. t \in Sessions /\ t \in Clients /\ ViewerOf[t] = m
  BY DEF SessionsOf, Sessions
<1>1. CASE Departing(m)
  <2>1. ~Idle
    BY <1>1, DepartingIsNotIdle
  <2>2. ~Register!Held(t) /\ (t \in attached => found[t] # "nothing")
    BY <1>1 DEF DepartingAreGone
  <2> QED BY <1>0, <2>1, <2>2, SettlingStep DEF Register!Held
<1>2. CASE ~Departing(m)
  <2>1. /\ SettleJudges
        /\ \E u \in SessionsOf(m) : Register!Held(u) /\ ~Register!Held(u)'
    BY <1>2, DepartingStep
  <2>2. Register!Held(t) /\ ~Register!Held(t)'
    BY <1>0, <2>1 DEF OneDevice, SessionsOf
  <2>3. UNCHANGED <<attached, found>>
    BY <2>1 DEF SettleJudges, hubVars
  <2> QED BY <1>0, <2>2, <2>3 DEF AttachedOver
<1> QED BY <1>1, <1>2

(* Who is inside the window was so before, unless the place is new.        *)
LEMMA InWindowBefore ==
  ASSUME TypeOK, NEW t \in Clients, InWindow(t)', Register!Held(t),
         held'[t].deadline = held[t].deadline, now' = now \/ now' = now + 1
  PROVE  InWindow(t)
<1>1. held[t].deadline \in Nat /\ now \in Nat
  BY HeldIsSuspension, TypeParts DEF Register!Suspensions, RegisterTypeOK
<1> QED BY <1>1 DEF InWindow, Register!Expired

(* With one device to a member, who is inside the window, or came back     *)
(* inside it, is where they asked to be: the leave that is reported is     *)
(* never theirs.  With two devices it can be, for a place is held for a    *)
(* session, and its end is reported of the member.                         *)
THEOREM PlacesAreKept ==
  ASSUME OneDevice
  PROVE  Spec => []PlaceIsKept
<1> DEFINE All == AttachedOver /\ DepartingAreGone /\ PlaceIsKept
<1>1. Init => All
  <2> SUFFICES ASSUME Init PROVE All
    OBVIOUS
  <2> USE DEF Init, InitProjection, Register!InitRegister
  <2>1. AttachedOver
    BY DEF AttachedOver, Register!Held, Sessions
  <2>2. DepartingAreGone
    BY DEF DepartingAreGone, Departing
  <2>3. PlaceIsKept
    BY NotPresentType, ViewerAssumption DEF PlaceIsKept, Sessions
  <2> QED BY <2>1, <2>2, <2>3
<1>2. IInv /\ All /\ [Next]_vars => All'
  <2> SUFFICES ASSUME IInv, All, [Next]_vars PROVE All'
    OBVIOUS
  <2>1. AttachedOver' /\ DepartingAreGone'
    BY NextAttachedOver, NextDeparting
  <2>2. ASSUME NEW t \in Sessions, found'[t] = "nothing", t \in attached' \/ InWindow(t)'
        PROVE  present'[ViewerOf[t]].channel = place'[ViewerOf[t]]
    <3> DEFINE m == ViewerOf[t]
    <3>0. t \in Clients /\ m \in Members /\ t \in SessionsOf(m)
      BY ViewerAssumption DEF Sessions, SessionsOf
    <3>a. /\ found \in [Clients -> {"nothing", "held", "late", "rejoined"}]
          /\ place \in [Members -> Channels \cup {Zero}]
      BY DEF IInv, TypeOK
    <3>b. found[t] = "nothing" /\ (t \in attached \/ InWindow(t))
            => present[m].channel = place[m]
      BY DEF PlaceIsKept
    <3>1. CASE ~Idle
      <4>1. /\ UNCHANGED <<attached, place, found>> /\ (now' = now \/ now' = now + 1)
            /\ Register!Held(t)' => held'[t] = held[t]
        BY <3>0, <3>1, SettlingStep
      <4>2. t \in attached \/ InWindow(t)
        <5>1. InWindow(t)' => Register!Held(t)'
          BY DEF InWindow
        <5>2. Register!Held(t)' => Register!Held(t) /\ held'[t].deadline = held[t].deadline
          BY <4>1 DEF Register!Held
        <5> QED BY <2>2, <3>0, <4>1, <5>1, <5>2, InWindowBefore DEF IInv
      <4>3. ~Departing(m)
        BY <2>2, <3>0, <4>1, <4>2 DEF DepartingAreGone, InWindow
      <4>4. ~(LeaveIsReported /\ m = Head(leaving))
        BY <4>3, LeavingHead DEF LeaveIsReported, Departing, IInv
      <4>5. present'[m] = present[m]
        BY <3>0, <3>1, <4>4, PresenceStep
      <4> QED BY <2>2, <3>b, <4>1, <4>2, <4>5
    <3>2. ASSUME NEW s \in Sessions, Connects(s) \/ Drops(s)
          PROVE  present'[m].channel = place'[m]
      <4>1. /\ StaysInPlace(s) /\ present' = present /\ now' = now /\ ViewerOf[s] \in Members
            /\ s # t => found'[t] = found[t]
        BY <3>a, <3>2, ViewerAssumption DEF Connects, Drops, Attach, Detach, Sessions
      <4>2. CASE ViewerOf[s] = m
        BY <3>a, <4>1, <4>2 DEF StaysInPlace
      <4>3. CASE ViewerOf[s] # m
        <5>1. s # t /\ place'[m] = place[m]
          BY <3>a, <4>1, <4>3 DEF StaysInPlace
        <5>2. held'[t] = held[t] /\ (t \in attached' => t \in attached)
          BY <3>0, <3>2, <5>1, DropsHolds DEF Connects, Attach
        <5>3. InWindow(t)' => InWindow(t)
          BY <4>1, <5>2 DEF InWindow, Register!Held, Register!Expired
        <5> QED BY <2>2, <3>b, <4>1, <5>1, <5>2, <5>3
      <4> QED BY <4>2, <4>3
    <3>3. ASSUME NEW s \in Sessions, NEW f, Resumes(s, f)
          PROVE  present'[m].channel = place'[m]
      <4>1. /\ UNCHANGED <<present, place, found, now>> /\ attached' = attached \cup {s}
            /\ Register!Resume(s, f, ViewerOf[s]) /\ s \in Clients
        BY <3>3 DEF Resumes, Attach, Sessions
      <4>2. InWindow(s)
        <5>1. Register!Refusal(s, f, ViewerOf[s]) = None
          BY <4>1 DEF Register!Resume
        <5>2. Register!Held(s)
          BY <5>1, AcceptedTicket
        <5>3. ~Register!Expired(s)
          BY <5>1, <5>2, NoSuspensionAssumption DEF Register!Refusal, Register!Refusals
        <5> QED BY <5>2, <5>3 DEF InWindow
      <4>3. CASE s = t
        BY <2>2, <3>b, <4>1, <4>2, <4>3
      <4>4. CASE s # t
        <5>1. held'[t] = held[t]
          BY <3>0, <4>1, <4>4, ResumeHolds, TypeParts DEF IInv
        <5>2. InWindow(t)' => InWindow(t)
          BY <4>1, <5>1 DEF InWindow, Register!Held, Register!Expired
        <5> QED BY <2>2, <3>b, <4>1, <4>4, <5>2
      <4> QED BY <4>3, <4>4
    <3>4. ASSUME NEW s \in Sessions, NEW state \in States, MemberReports(s, state)
          PROVE  present'[m].channel = place'[m]
      <4> DEFINE n == ViewerOf[s]
      <4>1. /\ Reports(Report(n, seq[n] + 1, state)) /\ n \in Members
            /\ place' = [place EXCEPT ![n] = state.channel]
            /\ found'[t] = "nothing" => found[t] = "nothing"
            /\ UNCHANGED <<now, held>>
        BY <3>0, <3>a, <3>4, ViewerAssumption DEF MemberReports, Sessions
      <4>2. present' = [present EXCEPT ![n] = Publish(state)] /\ attached' = attached
        BY <4>1, ReportsHolds DEF IInv
      <4>3. present \in [Members -> Presences]
        BY DEF IInv, TypeOK, HubTypeOK, ProjectionTypeOK
      <4>4. CASE n = m
        BY <3>0, <3>a, <4>1, <4>2, <4>3, <4>4, PublishType
      <4>5. CASE n # m
        <5>1. present'[m] = present[m] /\ place'[m] = place[m]
          BY <3>0, <3>a, <4>1, <4>2, <4>3, <4>5
        <5>2. InWindow(t)' => InWindow(t)
          BY <4>1 DEF InWindow, Register!Held, Register!Expired
        <5> QED BY <2>2, <3>b, <4>1, <4>2, <5>1, <5>2
      <4> QED BY <4>4, <4>5
    <3>5. CASE IntervalEnds
      <4>1. /\ MovedIn \in SUBSET Channels /\ Register!Published(MovedIn)
            /\ UNCHANGED <<attached, present, place, found, now>>
        BY <3>5 DEF IntervalEnds, MovedIn, Flush
      <4>2. /\ Register!Held(t)' <=> Register!Held(t)
            /\ Register!Held(t) => held'[t].deadline = held[t].deadline
        BY <3>0, <4>1, PublishedHolds, TypeParts DEF IInv
      <4>3. InWindow(t)' => InWindow(t)
        BY <4>1, <4>2 DEF InWindow, Register!Expired
      <4> QED BY <2>2, <3>b, <4>1, <4>3
    <3>6. CASE SettleBegins \/ ClockMoves \/ UNCHANGED vars
      <4>1. /\ UNCHANGED <<attached, present, place, found, held>>
            /\ now' = now \/ now' = now + 1
        BY <3>6 DEF SettleBegins, Register!ReapBegins, ClockMoves, Register!Tick,
                    Register!registerVars, hubVars, vars
      <4>2. InWindow(t)' => Register!Held(t)
        BY <4>1 DEF InWindow, Register!Held
      <4> QED BY <2>2, <3>0, <3>b, <4>1, <4>2, InWindowBefore DEF IInv
    <3>7. SettleJudges \/ SettleReturns \/ LeaveIsReported => ~Idle
      BY DEF SettleJudges, Register!ReapJudges, SettleReturns, Register!ReapReturns,
             LeaveIsReported, Idle
    <3> QED BY <3>1, <3>2, <3>3, <3>4, <3>5, <3>6, <3>7 DEF Next
  <2>3. PlaceIsKept'
    BY <2>2 DEF PlaceIsKept
  <2> QED BY <2>1, <2>3
<1> QED BY <1>1, <1>2, Invariant, PTL DEF Spec

-----------------------------------------------------------------------------
(* The watchers are never dropped, and nothing narrows what they see.      *)
LEMMA NextWatch ==
  ASSUME IInv, WatchersWatch, [Next]_vars
  PROVE  WatchersWatch'
<1>0. \A s \in Sessions : s \in Clients /\ s \notin Watchers
  BY DEF Sessions
<1>1. ASSUME NEW s \in Sessions, NEW f, Connects(s) \/ Resumes(s, f) PROVE WatchersWatch'
  BY <1>0, <1>1, WatchersAssumption DEF Connects, Resumes, Attach, WatchersWatch,
                                        IInv, TypeOK, HubTypeOK
<1>2. ASSUME NEW s \in Sessions, Drops(s) PROVE WatchersWatch'
  BY <1>0, <1>2, WatchersAssumption DEF Drops, Detach, WatchersWatch, IInv, TypeOK, HubTypeOK
<1>3. ASSUME NEW s \in Sessions, NEW state \in States, MemberReports(s, state) PROVE WatchersWatch'
  BY <1>3 DEF MemberReports, Reports, HubApply, WatchersWatch
<1>4. CASE LeaveIsReported
  BY <1>4 DEF LeaveIsReported, Reports, HubApply, WatchersWatch
<1>5. CASE SettleBegins \/ SettleJudges \/ SettleReturns \/ IntervalEnds \/ ClockMoves \/ UNCHANGED vars
  BY <1>5 DEF SettleBegins, SettleJudges, SettleReturns, IntervalEnds, Flush, ClockMoves,
              hubVars, vars, WatchersWatch
<1> QED BY <1>1, <1>2, <1>3, <1>4, <1>5 DEF Next

(* With somebody who sees everything, a flush names what is pending.       *)
LEMMA FlushNamesPending ==
  ASSUME WatchersWatch, Watchers # {}, NEW c \in Channels, pending[c] # Quiet
  PROVE  c \in MovedIn
<1>1. PICK w \in Watchers : w \in attached
  BY DEF WatchersWatch
<1>2. MembersSent(w, c, {})
  BY DEF MembersSent, Visible, WatchersWatch
<1> QED BY <1>1, <1>2 DEF MovedIn

(* What the owner's report leaves unsent is pending.                       *)
LEMMA ReportsUnsent ==
  ASSUME IInv, [Next]_vars,
         LeaveIsReported \/ \E s \in Sessions, state \in States : MemberReports(s, state)
  PROVE  /\ UNCHANGED <<attached, held>>
         /\ \A cl \in Clients : \A c \in unsent'[cl] :
              \/ c \in unsent[cl] /\ (pending[c] # Quiet => pending'[c] # Quiet)
              \/ pending'[c] # Quiet
<1>1. ASSUME NEW s \in Sessions, NEW state \in States, MemberReports(s, state)
      PROVE  \E m \in Members, st \in States :
               Reports(Report(m, seq[m] + 1, st)) /\ UNCHANGED held
  <2>1. ViewerOf[s] \in Members
    BY ViewerAssumption DEF Sessions
  <2> QED BY <1>1, <2>1 DEF MemberReports
<1>2. ASSUME LeaveIsReported
      PROVE  \E m \in Members, st \in States :
               Reports(Report(m, seq[m] + 1, st)) /\ UNCHANGED held
  <2>1. Head(leaving) \in Members
    BY <1>2, LeavingHead DEF IInv, LeaveIsReported
  <2> QED BY <1>2, <2>1, NotPresentType DEF LeaveIsReported
<1>3. PICK m \in Members, st \in States : Reports(Report(m, seq[m] + 1, st)) /\ UNCHANGED held
  BY <1>1, <1>2
<1> QED BY <1>3, ReportsHolds DEF IInv

(* A suspension that can still name what its client missed names all of    *)
(* it, as long as somebody is shown everything: what nobody is sent is not *)
(* in a delivery, and only what is in a delivery is published.             *)
THEOREM MissedIsNamed ==
  ASSUME Watchers # {}
  PROVE  Spec => []MissedNamesWhatMoved
<1> DEFINE All == WatchersWatch /\ UnsentIsPending /\ MissedNamesWhatMoved
<1>1. Init => All
  <2> SUFFICES ASSUME Init PROVE All
    OBVIOUS
  <2> USE DEF Init, Register!InitRegister
  <2>1. WatchersWatch
    BY WatchersAssumption DEF WatchersWatch
  <2>2. UnsentIsPending /\ MissedNamesWhatMoved
    BY WatchersAssumption DEF UnsentIsPending, MissedNamesWhatMoved, Sessions
  <2> QED BY <2>1, <2>2
<1>2. IInv /\ All /\ [Next]_vars => All'
  <2> SUFFICES ASSUME IInv, All, [Next]_vars PROVE All'
    OBVIOUS
  <2> USE DEF UnsentIsPending, MissedNamesWhatMoved
  <2>0. \A s \in Sessions : s \in Clients
    BY DEF Sessions
  <2>a. attached \subseteq Clients /\ unsent \in [Clients -> SUBSET Channels]
    BY DEF IInv, TypeOK, HubTypeOK
  <2>1. ASSUME NEW s \in Sessions, Connects(s)
        PROVE  UnsentIsPending' /\ MissedNamesWhatMoved'
    <3>1. /\ attached' = attached \cup {s} /\ unsent' = [unsent EXCEPT ![s] = {}]
          /\ UNCHANGED <<held, pending>>
      BY <2>1 DEF Connects, Attach, SentEverything
    <3> QED BY <2>0, <2>a, <3>1 DEF Register!Held
  <2>2. ASSUME NEW s \in Sessions, NEW f, Resumes(s, f)
        PROVE  UnsentIsPending' /\ MissedNamesWhatMoved'
    <3>1. /\ attached' = attached \cup {s} /\ unsent' = [unsent EXCEPT ![s] = {}]
          /\ UNCHANGED pending /\ Register!Resume(s, f, ViewerOf[s])
      BY <2>2 DEF Resumes, Attach, SentEverything
    <3>2. ~Register!Held(s)' /\ \A t \in Clients \ {s} : held'[t] = held[t]
      BY <2>0, <3>1, ResumeHolds, TypeParts DEF IInv
    <3> QED BY <2>0, <2>a, <3>1, <3>2 DEF Register!Held
  <2>3. ASSUME NEW s \in Sessions, Drops(s)
        PROVE  UnsentIsPending' /\ MissedNamesWhatMoved'
    <3>1. /\ s \in attached /\ attached' = attached \ {s} /\ UNCHANGED <<pending, unsent>>
          /\ \A t \in Clients \ {s} : held'[t] = held[t]
      BY <2>3, DropsHolds
    <3>2. \A c \in unsent[s] : pending[c] # Quiet
      BY <3>1
    <3> QED BY <2>0, <2>a, <3>1, <3>2 DEF Register!Held
  <2>4. ASSUME LeaveIsReported \/ \E s \in Sessions, state \in States : MemberReports(s, state)
        PROVE  UnsentIsPending' /\ MissedNamesWhatMoved'
    <3>1. /\ UNCHANGED <<attached, held>>
          /\ \A cl \in Clients : \A c \in unsent'[cl] :
               \/ c \in unsent[cl] /\ (pending[c] # Quiet => pending'[c] # Quiet)
               \/ pending'[c] # Quiet
      BY <2>4, ReportsUnsent
    <3>2. UnsentIsPending'
      BY <2>a, <3>1
    <3>3. MissedNamesWhatMoved'
      BY <2>0, <3>1 DEF Register!Held
    <3> QED BY <3>2, <3>3
  <2>5. ASSUME SettleJudges
        PROVE  UnsentIsPending' /\ MissedNamesWhatMoved'
    <3>1. /\ \A t \in Clients : Register!Held(t)' => Register!Held(t) /\ held'[t] = held[t]
          /\ UNCHANGED <<attached, unsent, pending>>
      BY <2>5, JudgesHolds, TypeParts DEF SettleJudges, hubVars, IInv
    <3> QED BY <2>0, <2>a, <3>1
  <2>6. ASSUME IntervalEnds
        PROVE  UnsentIsPending' /\ MissedNamesWhatMoved'
    <3>1. /\ Flush /\ Register!Published(MovedIn) /\ attached' = attached
          /\ unsent' = [cl \in Clients |-> IF cl \in attached THEN {} ELSE unsent[cl]]
      BY <2>6 DEF IntervalEnds, Flush
    <3>2. UnsentIsPending'
      BY <2>a, <3>1
    <3>3. MovedIn \in SUBSET Channels /\ MovedIn # {}
      BY <3>1, FlushNamesPending DEF MovedIn, Flush
    <3>4. ASSUME NEW t \in Sessions, Register!Held(t)', held'[t].missed # None,
                 NEW c \in unsent'[t]
          PROVE  c \in held'[t].missed
      <4>1. Register!Held(t) /\ held'[t].missed = Register!Collected(held[t].missed, MovedIn)
        BY <2>0, <3>1, <3>3, <3>4, PublishedHolds, TypeParts DEF IInv
      <4>2. held[t].missed # None /\ held'[t].missed = held[t].missed \cup MovedIn
        BY <3>4, <4>1 DEF Register!Collected
      <4>3. c \in unsent[t] /\ c \in Channels
        BY <2>0, <2>a, <3>1, <3>4
      <4>4. c \in held[t].missed \/ pending[c] # Quiet
        BY <4>1, <4>2, <4>3
      <4> QED BY <4>2, <4>3, <4>4, FlushNamesPending
    <3> QED BY <3>2, <3>4
  <2>7. ASSUME SettleBegins \/ SettleReturns \/ ClockMoves \/ UNCHANGED vars
        PROVE  UnsentIsPending' /\ MissedNamesWhatMoved'
    <3>1. UNCHANGED <<attached, held, unsent, pending>>
      BY <2>7 DEF SettleBegins, SettleReturns, ClockMoves, Register!ReapBegins,
                  Register!ReapReturns, Register!Tick, Register!registerVars, hubVars, vars
    <3> QED BY <3>1 DEF Register!Held
  <2>8. UnsentIsPending' /\ MissedNamesWhatMoved'
    BY <2>1, <2>2, <2>3, <2>4, <2>5, <2>6, <2>7 DEF Next
  <2> QED BY <2>8, NextWatch
<1> QED BY <1>1, <1>2, Invariant, PTL DEF Spec

=============================================================================
