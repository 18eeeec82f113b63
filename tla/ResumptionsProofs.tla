-------------------------- MODULE ResumptionsProofs --------------------------
(***************************************************************************)
(* What the register of suspended clients keeps for every set of sessions, *)
(* members and channels, every window and every breadth: its order and its *)
(* map never part, a suspension names exactly what moved, a place ends in  *)
(* a resume or in a leave, and a Reap leaves nobody behind.                *)
(***************************************************************************)
EXTENDS ResumptionsAlone, FiniteSetTheorems, SequenceTheorems, TLAPS

(* A sequence that lists nothing twice.                                    *)
Once(q) == \A i, j \in DOMAIN q : q[i] = q[j] => i = j

(* The sequence without its k-th element.                                  *)
Without(q, k) == SubSeq(q, 1, k - 1) \o SubSeq(q, k + 1, Len(q))

LEMMA WithoutProperties ==
  ASSUME NEW S, NEW q \in Seq(S), NEW k \in 1..Len(q)
  PROVE  /\ Without(q, k) \in Seq(S)
         /\ Len(Without(q, k)) = Len(q) - 1
         /\ \A i \in 1..Len(q) - 1 : Without(q, k)[i] = IF i < k THEN q[i] ELSE q[i + 1]
<1> DEFINE a == SubSeq(q, 1, k - 1)
           b == SubSeq(q, k + 1, Len(q))
<1> HIDE DEF a, b
<1>a. Len(q) \in Nat /\ \A i \in 1..Len(q) : q[i] \in S
  BY LenProperties
<1>0. Len(q) \in Int /\ k \in Int /\ 1 <= k /\ k <= Len(q)
  BY <1>a
<1>1. a \in Seq(S) /\ Len(a) = k - 1 /\ \A i \in 1..k - 1 : a[i] = q[i]
  <2>1. \A i \in 1..k - 1 : q[i] \in S
    BY <1>a, <1>0
  <2> QED BY <1>0, <2>1, SubSeqProperties DEF a
<1>2. b \in Seq(S) /\ Len(b) = Len(q) - k /\ \A i \in 1..Len(q) - k : b[i] = q[k + i]
  <2>1. \A i \in k + 1..Len(q) : q[i] \in S
    BY <1>a, <1>0
  <2>2. /\ b \in Seq(S)
        /\ Len(b) = IF k + 1 <= Len(q) THEN Len(q) - (k + 1) + 1 ELSE 0
        /\ \A i \in 1..Len(q) - (k + 1) + 1 : b[i] = q[(k + 1) + i - 1]
    BY <1>0, <2>1, SubSeqProperties DEF b
  <2>3. Len(b) = Len(q) - k
    <3>1. k + 1 <= Len(q) \/ k = Len(q)
      BY <1>0
    <3> QED BY <1>0, <2>2, <3>1
  <2>4. \A i \in 1..Len(q) - k : b[i] = q[k + i]
    <3> TAKE i \in 1..Len(q) - k
    <3>1. i \in 1..Len(q) - (k + 1) + 1 /\ (k + 1) + i - 1 = k + i
      BY <1>0
    <3> QED BY <2>2, <3>1
  <2> QED BY <2>2, <2>3, <2>4
<1>3. /\ a \o b \in Seq(S)
      /\ Len(a \o b) = Len(a) + Len(b)
      /\ \A i \in 1..Len(a) + Len(b) :
           (a \o b)[i] = IF i <= Len(a) THEN a[i] ELSE b[i - Len(a)]
  BY <1>1, <1>2, ConcatProperties
<1>4. Len(a) + Len(b) = Len(q) - 1
  BY <1>0, <1>1, <1>2
<1>5. ASSUME NEW i \in 1..Len(q) - 1
      PROVE  (a \o b)[i] = IF i < k THEN q[i] ELSE q[i + 1]
  <2>1. (a \o b)[i] = IF i <= k - 1 THEN a[i] ELSE b[i - (k - 1)]
    BY <1>1, <1>3, <1>4
  <2>2. CASE i < k
    BY <1>0, <1>1, <2>1, <2>2
  <2>3. CASE ~(i < k)
    <3>1. i - (k - 1) \in 1..Len(q) - k /\ k + (i - (k - 1)) = i + 1 /\ ~(i <= k - 1)
      BY <1>0, <2>3
    <3> QED BY <1>2, <2>1, <2>3, <3>1
  <2> QED BY <2>2, <2>3
<1>6. Without(q, k) = a \o b
  BY DEF Without, a, b
<1> QED BY <1>3, <1>4, <1>5, <1>6

-----------------------------------------------------------------------------
(* Suspending, collecting and forgetting, each as one fact.                *)
LEMMA CollectedType ==
  ASSUME NEW missed \in (SUBSET Channels) \cup {None}, NEW channels \in SUBSET Channels
  PROVE  Collected(missed, channels) \in (SUBSET Channels) \cup {None}
BY DEF Collected

LEMMA SuspendedIsHeld ==
  ASSUME NEW x \in Suspensions
  PROVE  x # None
BY NoneAssumption

LEMMA HeldIsSuspension ==
  ASSUME TypeOK, NEW s \in Sessions, Held(s)
  PROVE  held[s] \in Suspensions
BY DEF TypeOK, Held

LEMMA PublishedHolds ==
  ASSUME TypeOK, NEW channels \in SUBSET Channels, channels # {}, Published(channels)
  PROVE  /\ revision' = revision + 1
         /\ held' \in [Sessions -> Suspensions \cup {None}]
         /\ \A s \in Sessions :
              /\ Held(s)' <=> Held(s)
              /\ Held(s) =>
                   /\ held'[s].member = held[s].member
                   /\ held'[s].deadline = held[s].deadline
                   /\ held'[s].from = held[s].from
                   /\ held'[s].missed = Collected(held[s].missed, channels)
<1>1. /\ revision' = revision + 1
      /\ held' = [s \in Sessions |->
                    IF Held(s) THEN [held[s] EXCEPT !.missed = Collected(@, channels)] ELSE None]
  BY DEF Published
<1>2. ASSUME NEW s \in Sessions, Held(s)
      PROVE  /\ held'[s] \in Suspensions
             /\ held'[s].member = held[s].member
             /\ held'[s].deadline = held[s].deadline
             /\ held'[s].from = held[s].from
             /\ held'[s].missed = Collected(held[s].missed, channels)
  <2>1. held[s] \in Suspensions
    BY <1>2, HeldIsSuspension
  <2>2. Collected(held[s].missed, channels) \in (SUBSET Channels) \cup {None}
    BY <2>1, CollectedType DEF Suspensions
  <2> QED BY <1>1, <1>2, <2>1, <2>2 DEF Suspensions
<1>3. ASSUME NEW s \in Sessions, ~Held(s) PROVE held'[s] = None
  BY <1>1, <1>3
<1> QED BY <1>1, <1>2, <1>3, SuspendedIsHeld DEF Held

LEMMA SuspendHolds ==
  ASSUME TypeOK, NEW s \in Sessions, NEW m \in Members, Suspend(s, m)
  PROVE  /\ ~Held(s)
         /\ held'[s] = [member |-> m, deadline |-> now + Window, from |-> revision, missed |-> {}]
         /\ held'[s] \in Suspensions
         /\ \A t \in Sessions \ {s} : held'[t] = held[t]
         /\ held' \in [Sessions -> Suspensions \cup {None}]
         /\ order' \in Seq(Sessions)
         /\ Len(order') = Len(order) + 1
         /\ \A i \in 1..Len(order) : order'[i] = order[i]
         /\ order'[Len(order) + 1] = s
<1>1. [member |-> m, deadline |-> now + Window, from |-> revision, missed |-> {}] \in Suspensions
  BY WindowAssumption DEF Suspensions, TypeOK
<1>2. order \in Seq(Sessions) /\ held \in [Sessions -> Suspensions \cup {None}]
  BY DEF TypeOK
<1>3. ~Held(s) /\ order' = Append(order, s)
  BY DEF Suspend
<1>4. held' = [held EXCEPT ![s] =
                 [member |-> m, deadline |-> now + Window, from |-> revision, missed |-> {}]]
  BY DEF Suspend
<1> QED BY <1>1, <1>2, <1>3, <1>4, AppendProperties

(* The order lists the suspended sessions, each once; so does what a Reap  *)
(* still walks, which is nothing when none is under way.                   *)
Lists ==
  /\ \A s \in Sessions : Held(s) <=> \E i \in DOMAIN order : order[i] = s
  /\ Once(order)
  /\ Once(walk)
  /\ \A i \in DOMAIN walk : Held(walk[i])
  /\ reaping \/ walk = <<>>

LEMMA ForgetHolds ==
  ASSUME TypeOK, Lists, NEW s \in Sessions, Held(s), Forget(s)
  PROVE  /\ held'[s] = None
         /\ \A t \in Sessions \ {s} : held'[t] = held[t]
         /\ held' \in [Sessions -> Suspensions \cup {None}]
         /\ order' \in Seq(Sessions)
         /\ Len(order') = Len(order) - 1
         /\ \E k \in 1..Len(order) :
              /\ order[k] = s
              /\ \A i \in 1..Len(order) - 1 :
                   order'[i] = IF i < k THEN order[i] ELSE order[i + 1]
<1>1. order \in Seq(Sessions) /\ DOMAIN order = 1..Len(order)
  BY LenProperties DEF TypeOK
<1>2. \E i \in DOMAIN order : order[i] = s
  BY DEF Lists
<1> DEFINE k == PositionOf(s)
<1>3. k \in 1..Len(order) /\ order[k] = s
  BY <1>1, <1>2 DEF PositionOf
<1>4. order' = Without(order, k)
  BY DEF Forget, Without
<1>5. held' = [held EXCEPT ![s] = None] /\ held \in [Sessions -> Suspensions \cup {None}]
  BY DEF Forget, TypeOK
<1> HIDE DEF k
<1>6. /\ order' \in Seq(Sessions)
      /\ Len(order') = Len(order) - 1
      /\ \A i \in 1..Len(order) - 1 : order'[i] = IF i < k THEN order[i] ELSE order[i + 1]
  BY <1>1, <1>3, <1>4, WithoutProperties
<1> QED BY <1>3, <1>5, <1>6

(* A ticket that passes is one of a place that is held, in its window, for *)
(* its own member, and folds nothing that was not published.               *)
LEMMA AcceptedTicket ==
  ASSUME NEW s, NEW f, NEW m, Refusal(s, f, m) = None
  PROVE  Held(s) /\ ~Expired(s) /\ held[s].member = m /\ ~(f > revision)
<1>1. /\ None # "ErrNoSuspension"
      /\ None # "ErrResumeWindowPassed"
      /\ None # "ErrResumeNotYours"
      /\ None # "ErrResumeAhead"
  BY NoneAssumption DEF Refusals
<1> QED BY <1>1 DEF Refusal

(* What a Reap judges is held.                                             *)
LEMMA JudgedIsHeld ==
  ASSUME TypeOK, Lists, walk # <<>>
  PROVE  /\ Head(walk) \in Sessions
         /\ Held(Head(walk))
         /\ Tail(walk) \in Seq(Sessions)
         /\ Len(Tail(walk)) = Len(walk) - 1
         /\ \A i \in 1..Len(walk) - 1 : Tail(walk)[i] = walk[i + 1]
         /\ Len(walk) \in Nat /\ Len(walk) >= 1
         /\ DOMAIN walk = 1..Len(walk)
         /\ Head(walk) = walk[1]
<1>1. walk \in Seq(Sessions) /\ DOMAIN walk = 1..Len(walk) /\ Len(walk) \in Nat
  BY LenProperties DEF TypeOK
<1>2. Len(walk) >= 1
  BY <1>1, EmptySeq
<1>3. Head(walk) = walk[1]
  BY <1>1, <1>2
<1>4. 1 \in DOMAIN walk
  BY <1>1, <1>2
<1>5. Held(Head(walk))
  BY <1>3, <1>4 DEF Lists
<1>6. /\ Head(walk) \in Sessions
      /\ Tail(walk) \in Seq(Sessions)
      /\ Len(Tail(walk)) = Len(walk) - 1
      /\ \A i \in 1..Len(Tail(walk)) : Tail(walk)[i] = walk[i + 1]
  BY <1>1, HeadTailProperties
<1> QED BY <1>1, <1>2, <1>3, <1>5, <1>6

-----------------------------------------------------------------------------
LEMMA InitType == Init => TypeOK /\ Lists
<1> SUFFICES ASSUME Init PROVE TypeOK /\ Lists
  OBVIOUS
<1> USE DEF Init, InitRegister
<1>1. TypeOK
  BY EmptySeq DEF TypeOK
<1>2. Lists
  BY DEF Lists, Once, Held
<1> QED BY <1>1, <1>2

(* The steps the register's owner can take, with what each leaves alone.   *)
LEMMA NextType == TypeOK /\ Lists /\ [Next]_vars => TypeOK'
<1> SUFFICES ASSUME TypeOK, Lists, [Next]_vars PROVE TypeOK'
  OBVIOUS
<1>0. /\ now \in Nat /\ asked \in Nat /\ revision \in Nat
      /\ held \in [Sessions -> Suspensions \cup {None}]
      /\ order \in Seq(Sessions) /\ walk \in Seq(Sessions)
      /\ reaping \in BOOLEAN /\ gone \in Seq(Members)
      /\ answer \in Answers \cup {None}
      /\ log \in Seq(SUBSET Channels) /\ Len(log) = revision
  BY DEF TypeOK
<1>1. ASSUME NEW c \in SUBSET Channels, Publishes(c) PROVE TypeOK'
  <2> USE <1>0, <1>1 DEF Publishes
  <2>1. CASE c = {}
    BY <2>1 DEF Published, TypeOK
  <2>2. CASE c # {}
    <3>1. revision' = revision + 1 /\ held' \in [Sessions -> Suspensions \cup {None}]
      BY <2>2, PublishedHolds
    <3>2. log' \in Seq(SUBSET Channels) /\ Len(log') = Len(log) + 1
      BY <2>2, AppendProperties
    <3>3. UNCHANGED <<now, asked, order, reaping, walk, gone>> /\ answer' = None
      BY DEF Published
    <3> QED BY <3>1, <3>2, <3>3 DEF TypeOK
  <2> QED BY <2>1, <2>2
<1>2. ASSUME NEW s \in Sessions, NEW m \in Members, Suspends(s, m) PROVE TypeOK'
  <2>1. held' \in [Sessions -> Suspensions \cup {None}] /\ order' \in Seq(Sessions)
    BY <1>2, SuspendHolds DEF Suspends
  <2> QED BY <1>0, <1>2, <2>1 DEF Suspends, Suspend, TypeOK
<1>3. ASSUME NEW s \in Sessions, NEW f \in 0..MaxRevision + 1, NEW m \in Members,
             PresentsTicket(s, f, m)
      PROVE  TypeOK'
  <2>1. Refusal(s, f, m) = None /\ Forget(s)
    BY <1>3 DEF PresentsTicket, Resume
  <2>2. Held(s)
    BY <2>1, AcceptedTicket
  <2>3. held' \in [Sessions -> Suspensions \cup {None}] /\ order' \in Seq(Sessions)
    BY <2>1, <2>2, ForgetHolds
  <2>4. Difference(s, f) \in (SUBSET Channels) \cup {None}
    BY <2>2, HeldIsSuspension DEF Difference, Suspensions
  <2>5. f \in Nat
    BY MaxRevisionAssumption
  <2>6. answer' \in Answers
    BY <1>3, <2>4, <2>5 DEF PresentsTicket, Answers
  <2>7. UNCHANGED <<now, log, asked, revision, reaping, walk, gone>>
    BY <1>3 DEF PresentsTicket, Resume
  <2> QED BY <1>0, <2>3, <2>6, <2>7 DEF TypeOK
<1>4. CASE StartsReaping
  BY <1>0, <1>4, EmptySeq DEF StartsReaping, ReapBegins, TypeOK
<1>5. CASE Reaps /\ ReapJudges
  <2>1. walk # <<>> /\ walk' = Tail(walk) /\ UNCHANGED <<now, log, answer, asked, revision, reaping>>
    BY <1>5 DEF Reaps, ReapJudges
  <2>2. Head(walk) \in Sessions /\ Held(Head(walk)) /\ walk' \in Seq(Sessions)
    BY <2>1, JudgedIsHeld
  <2>3. CASE Expired(Head(walk))
    <3>1. Forget(Head(walk)) /\ gone' = Append(gone, held[Head(walk)].member)
      BY <1>5, <2>3 DEF ReapJudges
    <3>2. held[Head(walk)].member \in Members
      BY <2>2, HeldIsSuspension DEF Suspensions
    <3>3. gone' \in Seq(Members)
      BY <1>0, <3>1, <3>2, AppendProperties
    <3>4. held' \in [Sessions -> Suspensions \cup {None}] /\ order' \in Seq(Sessions)
      BY <2>2, <3>1, ForgetHolds
    <3> QED BY <1>0, <2>1, <2>2, <3>3, <3>4 DEF TypeOK
  <2>4. CASE ~Expired(Head(walk))
    BY <1>0, <1>5, <2>1, <2>2, <2>4 DEF ReapJudges, TypeOK
  <2> QED BY <2>3, <2>4
<1>6. CASE Reaps /\ ReapReturns
  BY <1>0, <1>6 DEF Reaps, ReapReturns, TypeOK
<1>7. CASE ClockMoves
  BY <1>0, <1>7 DEF ClockMoves, Tick, registerVars, TypeOK
<1>8. CASE UNCHANGED vars
  BY <1>0, <1>8 DEF vars, registerVars, TypeOK
<1> QED BY <1>1, <1>2, <1>3, <1>4, <1>5, <1>6, <1>7, <1>8 DEF Next, Reaps

(* Forgetting keeps the order and the map together, and every other place  *)
(* where it was relative to the rest.                                      *)
LEMMA ForgetLists ==
  ASSUME TypeOK, Lists, NEW s \in Sessions, Held(s), Forget(s)
  PROVE  /\ \A t \in Sessions : Held(t)' <=> \E i \in DOMAIN order' : order'[i] = t
         /\ Once(order)'
<1> PICK k \in 1..Len(order) :
           /\ order[k] = s
           /\ \A i \in 1..Len(order) - 1 :
                order'[i] = IF i < k THEN order[i] ELSE order[i + 1]
  BY ForgetHolds
<1>1. /\ Len(order) \in Nat /\ DOMAIN order = 1..Len(order)
      /\ DOMAIN order' = 1..Len(order) - 1
  <2>1. order \in Seq(Sessions) /\ order' \in Seq(Sessions) /\ Len(order') = Len(order) - 1
    BY ForgetHolds DEF TypeOK
  <2> QED BY <2>1, LenProperties
<1>2. \A i, j \in 1..Len(order) : order[i] = order[j] => i = j
  BY <1>1 DEF Lists, Once
<1>3. ASSUME NEW i \in 1..Len(order) - 1
      PROVE  \E p \in 1..Len(order) \ {k} : order'[i] = order[p] /\ p = IF i < k THEN i ELSE i + 1
  BY <1>1, <1>3
<1>4. ASSUME NEW p \in 1..Len(order), p # k
      PROVE  \E i \in 1..Len(order) - 1 : order'[i] = order[p]
  <2>1. CASE p < k
    BY <1>1, <2>1
  <2>2. CASE p > k
    <3>1. p - 1 \in 1..Len(order) - 1 /\ ~(p - 1 < k) /\ (p - 1) + 1 = p
      BY <1>1, <2>2
    <3>2. order'[p - 1] = order[p]
      BY <3>1
    <3> QED BY <3>1, <3>2
  <2> QED BY <1>1, <1>4, <2>1, <2>2
<1>5. ASSUME NEW t \in Sessions PROVE Held(t)' <=> \E i \in DOMAIN order' : order'[i] = t
  <2>1. CASE t = s
    <3>1. ~Held(t)'
      BY <2>1, ForgetHolds DEF Held
    <3>2. ~ \E i \in DOMAIN order' : order'[i] = t
      BY <1>1, <1>2, <1>3, <2>1
    <3> QED BY <3>1, <3>2
  <2>2. CASE t # s
    <3>1. Held(t)' <=> Held(t)
      BY <2>2, ForgetHolds DEF Held
    <3>2. Held(t) <=> \E p \in 1..Len(order) : order[p] = t
      BY <1>1 DEF Lists
    <3> QED BY <1>1, <1>3, <1>4, <2>2, <3>1, <3>2
  <2> QED BY <2>1, <2>2
<1>6. ASSUME NEW i \in 1..Len(order) - 1, NEW j \in 1..Len(order) - 1, order'[i] = order'[j]
      PROVE  i = j
  <2>1. PICK p \in 1..Len(order) : order'[i] = order[p] /\ p = IF i < k THEN i ELSE i + 1
    BY <1>3
  <2>2. PICK q \in 1..Len(order) : order'[j] = order[q] /\ q = IF j < k THEN j ELSE j + 1
    BY <1>3
  <2>3. p = q
    BY <1>2, <1>6, <2>1, <2>2
  <2> QED BY <1>1, <2>1, <2>2, <2>3
<1> QED BY <1>1, <1>5, <1>6 DEF Once

LEMMA NextLists == TypeOK /\ Lists /\ [Next]_vars => Lists'
<1> SUFFICES ASSUME TypeOK, Lists, [Next]_vars PROVE Lists'
  OBVIOUS
<1>0. order \in Seq(Sessions) /\ DOMAIN order = 1..Len(order) /\ Len(order) \in Nat
  BY LenProperties DEF TypeOK
<1>1. ASSUME NEW c \in SUBSET Channels, Publishes(c) PROVE Lists'
  <2>1. UNCHANGED <<order, walk, reaping>>
    BY <1>1 DEF Publishes, Published
  <2>2. \A s \in Sessions : Held(s)' <=> Held(s)
    <3>1. CASE c = {}
      BY <1>1, <3>1 DEF Publishes, Published, Held
    <3>2. CASE c # {}
      BY <1>1, <3>2, PublishedHolds DEF Publishes
    <3> QED BY <3>1, <3>2
  <2>3. \A i \in DOMAIN walk : walk[i] \in Sessions
    BY LenProperties DEF TypeOK
  <2> QED BY <2>1, <2>2, <2>3 DEF Lists, Once
<1>2. ASSUME NEW s \in Sessions, NEW m \in Members, Suspends(s, m) PROVE Lists'
  <2>1. /\ ~Held(s) /\ Held(s)'
        /\ \A t \in Sessions \ {s} : Held(t)' <=> Held(t)
    BY <1>2, SuspendHolds, SuspendedIsHeld DEF Suspends, Held
  <2>2. /\ order' \in Seq(Sessions) /\ Len(order') = Len(order) + 1
        /\ \A i \in 1..Len(order) : order'[i] = order[i]
        /\ order'[Len(order) + 1] = s
    BY <1>2, SuspendHolds DEF Suspends
  <2>3. DOMAIN order' = 1..Len(order) + 1
    BY <2>2, LenProperties
  <2>4. \A i \in 1..Len(order) : order[i] # s
    BY <1>0, <2>1 DEF Lists
  <2>5. walk' = <<>> /\ reaping' = reaping
    BY <1>2 DEF Suspends, Suspend, Lists
  <2>6. \A t \in Sessions : Held(t)' <=> \E i \in DOMAIN order' : order'[i] = t
    <3> TAKE t \in Sessions
    <3>1. CASE t = s
      BY <1>0, <2>1, <2>2, <2>3, <3>1
    <3>2. CASE t # s
      <4>1. Held(t) <=> \E i \in 1..Len(order) : order[i] = t
        BY <1>0 DEF Lists
      <4> QED BY <1>0, <2>1, <2>2, <2>3, <3>2, <4>1
    <3> QED BY <3>1, <3>2
  <2>7. Once(order)'
    <3>1. \A i, j \in 1..Len(order) : order[i] = order[j] => i = j
      BY <1>0 DEF Lists, Once
    <3> QED BY <1>0, <2>2, <2>3, <2>4, <3>1 DEF Once
  <2>8. Once(walk)' /\ \A i \in DOMAIN walk' : Held(walk[i])'
    BY <2>5 DEF Once
  <2> QED BY <2>5, <2>6, <2>7, <2>8 DEF Lists
<1>3. ASSUME NEW s \in Sessions, NEW f \in 0..MaxRevision + 1, NEW m \in Members,
             PresentsTicket(s, f, m)
      PROVE  Lists'
  <2>1. Forget(s) /\ Held(s) /\ walk' = <<>> /\ reaping' = reaping
    BY <1>3, AcceptedTicket DEF PresentsTicket, Resume, Lists
  <2>2. Once(walk)' /\ \A i \in DOMAIN walk' : Held(walk[i])'
    BY <2>1 DEF Once
  <2> QED BY <2>1, <2>2, ForgetLists DEF Lists
<1>4. CASE StartsReaping
  <2>1. walk' = order /\ reaping' = TRUE /\ UNCHANGED <<held, order>>
    BY <1>4 DEF StartsReaping, ReapBegins
  <2>2. \A i \in DOMAIN order : order[i] \in Sessions
    BY <1>0
  <2> QED BY <2>1, <2>2 DEF Lists, Once, Held
<1>5. CASE Reaps /\ ReapJudges
  <2>1. walk # <<>> /\ walk' = Tail(walk) /\ reaping' = reaping /\ reaping
    BY <1>5 DEF Reaps, ReapJudges
  <2>2. /\ Head(walk) \in Sessions /\ Held(Head(walk)) /\ Head(walk) = walk[1]
        /\ Len(walk) \in Nat /\ Len(walk) >= 1 /\ DOMAIN walk = 1..Len(walk)
        /\ \A i \in 1..Len(walk) - 1 : walk'[i] = walk[i + 1]
    BY <2>1, JudgedIsHeld
  <2>3. DOMAIN walk' = 1..Len(walk) - 1
    BY <2>1, JudgedIsHeld, LenProperties
  <2>4. Once(walk)'
    <3>1. \A i, j \in 1..Len(walk) : walk[i] = walk[j] => i = j
      BY <2>2 DEF Lists, Once
    <3> QED BY <2>2, <2>3, <3>1 DEF Once
  <2>5. \A i \in DOMAIN walk' : /\ walk'[i] \in Sessions \ {Head(walk)}
                                /\ Held(walk'[i])
    <3> TAKE i \in DOMAIN walk'
    <3>1. i \in 1..Len(walk) - 1 /\ i + 1 \in 1..Len(walk) /\ 1 \in 1..Len(walk) /\ i + 1 # 1
      BY <2>2, <2>3
    <3>2. walk[i + 1] # walk[1] /\ Held(walk[i + 1])
      BY <2>2, <3>1 DEF Lists, Once
    <3>3. walk[i + 1] \in Sessions
      BY <3>1, LenProperties DEF TypeOK
    <3> QED BY <2>2, <3>1, <3>2, <3>3
  <2>6. CASE Expired(Head(walk))
    <3>1. Forget(Head(walk))
      BY <1>5, <2>6 DEF ReapJudges
    <3>2. \A t \in Sessions \ {Head(walk)} : Held(t)' <=> Held(t)
      BY <2>2, <3>1, ForgetHolds DEF Held
    <3>3. \A i \in DOMAIN walk' : Held(walk[i])'
      BY <2>5, <3>2
    <3> QED BY <2>1, <2>2, <2>4, <3>1, <3>3, ForgetLists DEF Lists
  <2>7. CASE ~Expired(Head(walk))
    <3>1. UNCHANGED <<held, order>>
      BY <1>5, <2>7 DEF ReapJudges
    <3> QED BY <2>1, <2>4, <2>5, <3>1 DEF Lists, Once, Held
  <2> QED BY <2>6, <2>7
<1>6. CASE Reaps /\ ReapReturns
  BY <1>6 DEF Reaps, ReapReturns, Lists, Once, Held
<1>7. CASE ClockMoves
  BY <1>7 DEF ClockMoves, Tick, registerVars, Lists, Once, Held
<1>8. CASE UNCHANGED vars
  BY <1>8 DEF vars, registerVars, Lists, Once, Held
<1> QED BY <1>1, <1>2, <1>3, <1>4, <1>5, <1>6, <1>7, <1>8 DEF Next, Reaps

LEMMA Registered == Spec => [](TypeOK /\ Lists)
<1>1. TypeOK /\ Lists /\ [Next]_vars => (TypeOK /\ Lists)'
  BY NextType, NextLists
<1> QED BY InitType, <1>1, PTL DEF Spec

(* The register keeps its types.                                           *)
THEOREM TypeCorrect == Spec => []TypeOK
BY Registered, PTL

(* The order and the map of suspensions hold the same sessions, and a Reap *)
(* only ever reads suspensions that are there: forget takes a session out  *)
(* of both, and a Reap's own walk never meets a session twice.             *)
THEOREM OrderAndMapAgree == Spec => []OrderMatchesHeld
<1>1. Lists => OrderMatchesHeld
  BY DEF Lists, Once, OrderMatchesHeld
<1> QED BY <1>1, Registered, PTL

-----------------------------------------------------------------------------
(* What is published grows a suspension's gap by the batch's channels.     *)
LEMMA GapGrows ==
  ASSUME TypeOK, NEW c \in SUBSET Channels, c # {}, Publishes(c), NEW r \in Nat, r <= revision
  PROVE  MovedSince(r)' = MovedSince(r) \cup c
<1>1. log \in Seq(SUBSET Channels) /\ Len(log) = revision /\ revision \in Nat
  BY DEF TypeOK
<1>2. log' = Append(log, c) /\ revision' = revision + 1
  BY PublishedHolds DEF Publishes
<1>3. (\A i \in 1..revision : log'[i] = log[i]) /\ log'[revision + 1] = c
  BY <1>1, <1>2, AppendProperties
<1>4. MovedSince(r)' = UNION {log'[i] : i \in r + 1..revision + 1}
  BY <1>2 DEF MovedSince
<1>5. ASSUME NEW x, x \in UNION {log'[i] : i \in r + 1..revision + 1}
      PROVE  x \in MovedSince(r) \cup c
  <2>1. PICK i \in r + 1..revision + 1 : x \in log'[i]
    BY <1>5
  <2>2. CASE i = revision + 1
    BY <1>3, <2>1, <2>2
  <2>3. CASE i # revision + 1
    <3>1. i \in r + 1..revision /\ i \in 1..revision
      BY <1>1, <2>3
    <3> QED BY <1>3, <2>1, <3>1 DEF MovedSince
  <2> QED BY <2>2, <2>3
<1>6. ASSUME NEW x, x \in MovedSince(r) \cup c
      PROVE  x \in UNION {log'[i] : i \in r + 1..revision + 1}
  <2>1. CASE x \in c
    <3>1. revision + 1 \in r + 1..revision + 1
      BY <1>1
    <3> QED BY <1>3, <2>1, <3>1
  <2>2. CASE x \in MovedSince(r)
    <3>1. PICK i \in r + 1..revision : x \in log[i]
      BY <2>2 DEF MovedSince
    <3>2. i \in 1..revision /\ i \in r + 1..revision + 1
      BY <1>1
    <3> QED BY <1>3, <3>1, <3>2
  <2> QED BY <1>6, <2>1, <2>2
<1> QED BY <1>4, <1>5, <1>6

LEMMA GapIsFinite ==
  ASSUME TypeOK, NEW r \in Nat
  PROVE  /\ MovedSince(r) \in SUBSET Channels
         /\ IsFiniteSet(MovedSince(r))
         /\ Cardinality(MovedSince(r)) \in Nat
<1>1. \A i \in 1..revision : log[i] \in SUBSET Channels
  BY LenProperties DEF TypeOK
<1>2. \A i \in r + 1..revision : i \in 1..revision
  BY DEF TypeOK
<1>3. MovedSince(r) \in SUBSET Channels
  BY <1>1, <1>2 DEF MovedSince
<1> QED BY <1>3, ChannelsAssumption, FS_Subset, FS_CardinalityType

(* A suspension that knows the gap so far knows the gap with the batch.    *)
LEMMA CollectedIsTheGap ==
  ASSUME NEW gap \in SUBSET Channels, NEW c \in SUBSET Channels
  PROVE  Collected(IF Cardinality(gap) > Breadth THEN None ELSE gap, c)
           = IF Cardinality(gap \cup c) > Breadth THEN None ELSE gap \cup c
<1>1. IsFiniteSet(gap) /\ IsFiniteSet(gap \cup c) /\ gap \in SUBSET (gap \cup c)
  BY ChannelsAssumption, FS_Subset
<1>2. Cardinality(gap) <= Cardinality(gap \cup c)
  BY <1>1, FS_Subset
<1>3. Cardinality(gap) \in Nat /\ Cardinality(gap \cup c) \in Nat
  BY <1>1, FS_CardinalityType
<1>4. gap # None
  BY NoneAssumption
<1> QED BY <1>2, <1>3, <1>4, BreadthAssumption DEF Collected

(* MissedIsTheGap for one session, with the revision it dropped at named.  *)
GapFrom(s, r) ==
  /\ held[s].from = r
  /\ r <= revision
  /\ held[s].missed = IF Cardinality(MovedSince(r)) > Breadth THEN None ELSE MovedSince(r)

GapOf(s) == Held(s) => \E r \in Nat : GapFrom(s, r)

Gaps == \A s \in Sessions : GapOf(s)

LEMMA GapsAreAllOfThem == TypeOK => (MissedIsTheGap <=> Gaps)
<1> SUFFICES ASSUME TypeOK, NEW s \in Sessions, Held(s)
             PROVE  (\E r \in Nat : GapFrom(s, r)) <=>
                      /\ held[s].from <= revision
                      /\ held[s].missed =
                           IF Cardinality(MovedSince(held[s].from)) > Breadth
                             THEN None ELSE MovedSince(held[s].from)
  BY DEF MissedIsTheGap, Gaps, GapOf
<1>1. held[s].from \in Nat
  BY HeldIsSuspension DEF Suspensions
<1> QED BY <1>1 DEF GapFrom

LEMMA GapKept ==
  ASSUME UNCHANGED <<log, revision>>, NEW s, held'[s] = held[s], GapOf(s)
  PROVE  GapOf(s)'
BY DEF GapOf, GapFrom, Held, MovedSince

LEMMA InitGap == Init => Gaps /\ AnswerCoversTheGap
BY DEF Init, InitRegister, Held, Gaps, GapOf, AnswerCoversTheGap

LEMMA NextGap == TypeOK /\ Lists /\ Gaps /\ [Next]_vars => Gaps'
<1> SUFFICES ASSUME TypeOK, Lists, Gaps, [Next]_vars, NEW t \in Sessions
             PROVE  GapOf(t)'
  BY DEF Gaps
<1>0. GapOf(t)
  BY DEF Gaps
<1>1. ASSUME NEW c \in SUBSET Channels, Publishes(c) PROVE GapOf(t)'
  <2>1. CASE c = {}
    BY <1>0, <1>1, <2>1, GapKept DEF Publishes, Published
  <2>2. CASE c # {}
    <3>1. revision' = revision + 1 /\ revision \in Nat
      BY <1>1, <2>2, PublishedHolds DEF Publishes, TypeOK
    <3>2. CASE ~Held(t)
      BY <1>1, <2>2, <3>2, PublishedHolds DEF Publishes, GapOf
    <3>3. CASE Held(t)
      <4>1. PICK r \in Nat : GapFrom(t, r)
        BY <1>0, <3>3 DEF GapOf
      <4>2. held'[t].from = r /\ held'[t].missed = Collected(held[t].missed, c)
        BY <1>1, <2>2, <3>3, <4>1, PublishedHolds DEF Publishes, GapFrom
      <4>3. MovedSince(r)' = MovedSince(r) \cup c
        BY <1>1, <2>2, <4>1, GapGrows DEF GapFrom
      <4>4. MovedSince(r) \in SUBSET Channels
        BY GapIsFinite
      <4>5. held'[t].missed =
              IF Cardinality(MovedSince(r)') > Breadth THEN None ELSE MovedSince(r)'
        BY <4>1, <4>2, <4>3, <4>4, CollectedIsTheGap DEF GapFrom
      <4>6. r <= revision'
        BY <3>1, <4>1 DEF GapFrom
      <4> QED BY <4>2, <4>5, <4>6 DEF GapOf, GapFrom
    <3> QED BY <3>2, <3>3
  <2> QED BY <2>1, <2>2
<1>2. ASSUME NEW s \in Sessions, NEW m \in Members, Suspends(s, m) PROVE GapOf(t)'
  <2>1. UNCHANGED <<log, revision>>
    BY <1>2 DEF Suspends, Suspend
  <2>2. CASE t # s
    BY <1>0, <1>2, <2>1, <2>2, SuspendHolds, GapKept DEF Suspends
  <2>3. CASE t = s
    <3> PICK r \in Nat : r = revision
      BY DEF TypeOK
    <3>0. held'[s] =
            [member |-> m, deadline |-> now + Window, from |-> revision, missed |-> {}]
      BY <1>2, SuspendHolds DEF Suspends
    <3>1. held'[t].from = r /\ held'[t].missed = {}
      BY <2>3, <3>0
    <3>2. r + 1..r = {} /\ revision' = r
      BY <2>1
    <3>3. MovedSince(r)' = {}
      BY <2>1, <3>2 DEF MovedSince
    <3>4. Cardinality({}) = 0 /\ ~(0 > Breadth)
      BY BreadthAssumption, FS_EmptySet
    <3> QED BY <3>1, <3>2, <3>3, <3>4 DEF GapOf, GapFrom
  <2> QED BY <2>2, <2>3
<1>3. ASSUME NEW s \in Sessions, NEW f \in 0..MaxRevision + 1, NEW m \in Members,
             PresentsTicket(s, f, m)
      PROVE  GapOf(t)'
  <2>1. Forget(s) /\ Held(s) /\ UNCHANGED <<log, revision>>
    BY <1>3, AcceptedTicket DEF PresentsTicket, Resume
  <2>2. CASE t = s
    BY <2>1, <2>2, ForgetHolds DEF GapOf, Held
  <2>3. CASE t # s
    BY <1>0, <2>1, <2>3, ForgetHolds, GapKept
  <2> QED BY <2>2, <2>3
<1>4. CASE StartsReaping
  BY <1>0, <1>4, GapKept DEF StartsReaping, ReapBegins
<1>5. CASE Reaps /\ ReapJudges
  <2>1. walk # <<>> /\ UNCHANGED <<log, revision>>
    BY <1>5 DEF Reaps, ReapJudges
  <2>2. CASE Expired(Head(walk))
    <3>1. Forget(Head(walk)) /\ Head(walk) \in Sessions /\ Held(Head(walk))
      BY <1>5, <2>1, <2>2, JudgedIsHeld DEF ReapJudges
    <3>2. CASE t = Head(walk)
      BY <3>1, <3>2, ForgetHolds DEF GapOf, Held
    <3>3. CASE t # Head(walk)
      BY <1>0, <2>1, <3>1, <3>3, ForgetHolds, GapKept
    <3> QED BY <3>2, <3>3
  <2>3. CASE ~Expired(Head(walk))
    BY <1>0, <1>5, <2>1, <2>3, GapKept DEF ReapJudges
  <2> QED BY <2>2, <2>3
<1>6. CASE Reaps /\ ReapReturns
  BY <1>0, <1>6, GapKept DEF Reaps, ReapReturns
<1>7. CASE ClockMoves
  BY <1>0, <1>7, GapKept DEF ClockMoves, Tick, registerVars
<1>8. CASE UNCHANGED vars
  BY <1>0, <1>8, GapKept DEF vars, registerVars
<1> QED BY <1>1, <1>2, <1>3, <1>4, <1>5, <1>6, <1>7, <1>8 DEF Next, Reaps

(* The answer to a ticket is taken from the suspension: a client that says *)
(* it folded an earlier revision than it dropped at is told no difference. *)
LEMMA NextAnswer == TypeOK /\ Lists /\ Gaps /\ AnswerCoversTheGap /\ [Next]_vars => AnswerCoversTheGap'
<1> SUFFICES ASSUME TypeOK, Lists, Gaps, AnswerCoversTheGap, [Next]_vars
             PROVE  AnswerCoversTheGap'
  OBVIOUS
<1>1. CASE answer' = None
  BY <1>1 DEF AnswerCoversTheGap
<1>2. CASE UNCHANGED <<answer, log, revision>>
  BY <1>2 DEF AnswerCoversTheGap, MovedSince
<1>3. ASSUME NEW s \in Sessions, NEW f \in 0..MaxRevision + 1, NEW m \in Members,
             PresentsTicket(s, f, m), answer'.missed # None
      PROVE  MovedSince(f)' \subseteq answer'.missed
  <2>1. Held(s) /\ UNCHANGED <<log, revision>>
    BY <1>3, AcceptedTicket DEF PresentsTicket, Resume
  <2>2. answer'.missed = Difference(s, f)
    BY <1>3 DEF PresentsTicket
  <2>3. PICK r \in Nat : GapFrom(s, r)
    BY <2>1 DEF Gaps, GapOf
  <2>4. f \in Nat /\ revision \in Nat
    BY MaxRevisionAssumption DEF TypeOK
  <2>5. ~(f < r) /\ answer'.missed = MovedSince(r)
    BY <1>3, <2>2, <2>3, <2>4 DEF Difference, GapFrom
  <2>6. f + 1..revision \subseteq r + 1..revision
    BY <2>4, <2>5
  <2>7. MovedSince(f) \subseteq MovedSince(r)
    BY <2>6 DEF MovedSince
  <2>8. MovedSince(f)' = MovedSince(f)
    BY <2>1 DEF MovedSince
  <2> QED BY <2>5, <2>7, <2>8
<1>4. ASSUME NEW s \in Sessions, NEW f \in 0..MaxRevision + 1, NEW m \in Members,
             PresentsTicket(s, f, m)
      PROVE  AnswerCoversTheGap'
  <2>1. answer'.folded = f
    BY <1>4 DEF PresentsTicket
  <2> QED BY <1>3, <1>4, <2>1 DEF AnswerCoversTheGap, MovedSince
<1>5. ASSUME Reaps PROVE UNCHANGED <<answer, log, revision>>
  BY <1>5 DEF Reaps, ReapJudges, ReapReturns
<1>6. ASSUME ClockMoves \/ UNCHANGED vars PROVE UNCHANGED <<answer, log, revision>>
  BY <1>6 DEF ClockMoves, Tick, registerVars, vars
<1>7. ASSUME NEW c \in SUBSET Channels, Publishes(c) PROVE answer' = None
  BY <1>7 DEF Publishes
<1>8. ASSUME NEW s \in Sessions, NEW m \in Members, Suspends(s, m) PROVE answer' = None
  BY <1>8 DEF Suspends
<1>9. ASSUME StartsReaping PROVE answer' = None
  BY <1>9 DEF StartsReaping
<1> QED BY <1>1, <1>2, <1>4, <1>5, <1>6, <1>7, <1>8, <1>9 DEF Next

(* A suspension names every channel published since its client dropped and *)
(* no other, or says that it cannot tell, exactly when they are too many   *)
(* (Published, folded over any number of batches).                         *)
THEOREM SuspensionNamesTheGap == Spec => []MissedIsTheGap
<1>1. TypeOK /\ Lists /\ Gaps /\ [Next]_vars => Gaps'
  BY NextGap
<1>2. TypeOK /\ Gaps => MissedIsTheGap
  BY GapsAreAllOfThem
<1>3. Init => Gaps
  BY InitGap
<1> QED BY <1>1, <1>2, <1>3, Registered, PTL DEF Spec

(* Whatever revision a returning client says it folded, the difference it  *)
(* is answered covers every channel published after that one.              *)
THEOREM AnswersCoverTheGap == Spec => []AnswerCoversTheGap
<1>1. TypeOK /\ Lists /\ Gaps /\ [Next]_vars => Gaps'
  BY NextGap
<1>2. TypeOK /\ Lists /\ Gaps /\ AnswerCoversTheGap /\ [Next]_vars => AnswerCoversTheGap'
  BY NextAnswer
<1>3. Init => Gaps /\ AnswerCoversTheGap
  BY InitGap
<1> QED BY <1>1, <1>2, <1>3, Registered, PTL DEF Spec

-----------------------------------------------------------------------------
(* OrderedByDeadline made inductive: no deadline lies further away than a  *)
(* window, so a session that suspends now goes last.                       *)
Near == \A s \in Sessions : Held(s) => held[s].deadline <= now + Window

Ordered == Near /\ OrderedByDeadline

(* ReapTakesTheExpired made inductive: whoever was due when the Reap began *)
(* and is still held has yet to be judged.                                 *)
Judged ==
  /\ asked <= now
  /\ reaping => \A s \in Sessions :
       Held(s) => held[s].deadline > asked \/ \E i \in DOMAIN walk : walk[i] = s

LEMMA InitOrdered == Init => Ordered /\ Judged
BY DEF Init, InitRegister, Ordered, Near, Judged, OrderedByDeadline, Held

(* Ordered speaks of the held suspensions and of the order alone.          *)
LEMMA OrderedKept ==
  ASSUME UNCHANGED <<held, order, now>>, Ordered
  PROVE  Ordered'
BY DEF Ordered, Near, OrderedByDeadline, Held

LEMMA OrderedForgets ==
  ASSUME TypeOK, Lists, Ordered, NEW s \in Sessions, Held(s), Forget(s), UNCHANGED now
  PROVE  Ordered'
<1> PICK k \in 1..Len(order) :
           /\ order[k] = s
           /\ \A i \in 1..Len(order) - 1 :
                order'[i] = IF i < k THEN order[i] ELSE order[i + 1]
  BY ForgetHolds
<1>1. /\ order \in Seq(Sessions) /\ order' \in Seq(Sessions)
      /\ Len(order') = Len(order) - 1
      /\ \A t \in Sessions \ {s} : held'[t] = held[t]
      /\ held'[s] = None
  BY ForgetHolds DEF TypeOK
<1>2. /\ Len(order) \in Nat /\ DOMAIN order = 1..Len(order)
      /\ DOMAIN order' = 1..Len(order) - 1
  BY <1>1, LenProperties
<1>3. Near'
  BY <1>1 DEF Near, Ordered, Held
<1>4. ASSUME NEW i \in 1..Len(order) - 1, NEW j \in 1..Len(order) - 1, i < j
      PROVE  held'[order'[i]].deadline <= held'[order'[j]].deadline
  <2>1. PICK p \in 1..Len(order) : p = (IF i < k THEN i ELSE i + 1) /\ order'[i] = order[p]
    BY <1>2
  <2>2. PICK q \in 1..Len(order) : q = (IF j < k THEN j ELSE j + 1) /\ order'[j] = order[q]
    BY <1>2
  <2>3. p < q /\ p # k /\ q # k
    BY <1>2, <1>4, <2>1, <2>2
  <2>4. order[p] # s /\ order[q] # s
    BY <1>2, <2>3 DEF Lists, Once
  <2>5. held'[order[p]] = held[order[p]] /\ held'[order[q]] = held[order[q]]
    BY <1>1, <2>4, LenProperties
  <2>6. held[order[p]].deadline <= held[order[q]].deadline
    BY <1>2, <2>3 DEF Ordered, OrderedByDeadline
  <2> QED BY <2>1, <2>2, <2>5, <2>6
<1> QED BY <1>2, <1>3, <1>4 DEF Ordered, OrderedByDeadline

LEMMA OrderedSuspends ==
  ASSUME TypeOK, Lists, Ordered, NEW s \in Sessions, NEW m \in Members, Suspend(s, m), UNCHANGED now
  PROVE  Ordered'
<1>0. held'[s] = [member |-> m, deadline |-> now + Window, from |-> revision, missed |-> {}]
  BY SuspendHolds
<1>1. /\ ~Held(s)
      /\ \A t \in Sessions \ {s} : held'[t] = held[t]
      /\ order \in Seq(Sessions) /\ order' \in Seq(Sessions) /\ Len(order') = Len(order) + 1
      /\ \A i \in 1..Len(order) : order'[i] = order[i]
      /\ order'[Len(order) + 1] = s
  BY SuspendHolds DEF TypeOK
<1>2. /\ Len(order) \in Nat /\ DOMAIN order = 1..Len(order) /\ DOMAIN order' = 1..Len(order) + 1
      /\ \A i \in 1..Len(order) : order[i] \in Sessions
  BY <1>1, LenProperties
<1>3. now \in Nat /\ Window \in Nat
  BY WindowAssumption DEF TypeOK
<1>4. Near'
  BY <1>0, <1>1, <1>3 DEF Near, Ordered, Held
<1>5. ASSUME NEW i \in 1..Len(order)
      PROVE  /\ held'[order'[i]] = held[order[i]]
             /\ held[order[i]].deadline <= now + Window
  <2>1. Held(order[i]) /\ order[i] \in Sessions
    BY <1>2 DEF Lists
  <2>2. order[i] # s
    BY <1>1, <2>1
  <2>3. held'[order[i]] = held[order[i]]
    BY <1>1, <2>1, <2>2
  <2> QED BY <1>1, <2>1, <2>3 DEF Ordered, Near
<1>6. ASSUME NEW i \in 1..Len(order) + 1, NEW j \in 1..Len(order) + 1, i < j
      PROVE  held'[order'[i]].deadline <= held'[order'[j]].deadline
  <2>1. i \in 1..Len(order)
    BY <1>2, <1>6
  <2>2. CASE j \in 1..Len(order)
    <3>1. held[order[i]].deadline <= held[order[j]].deadline
      BY <1>2, <1>6, <2>1, <2>2 DEF Ordered, OrderedByDeadline
    <3> QED BY <1>5, <2>1, <2>2, <3>1
  <2>3. CASE j = Len(order) + 1
    BY <1>0, <1>1, <1>5, <2>1, <2>3
  <2> QED BY <1>2, <2>2, <2>3
<1> QED BY <1>2, <1>4, <1>6 DEF Ordered, OrderedByDeadline

LEMMA OrderedPublishes ==
  ASSUME TypeOK, Lists, Ordered, NEW c \in SUBSET Channels, Published(c), UNCHANGED now
  PROVE  Ordered'
<1>1. CASE c = {}
  BY <1>1, OrderedKept DEF Published
<1>2. CASE c # {}
  <2>1. order' = order
    BY DEF Published
  <2>2. \A t \in Sessions : /\ Held(t)' <=> Held(t)
                            /\ Held(t) => held'[t].deadline = held[t].deadline
    BY <1>2, PublishedHolds
  <2>3. \A i \in DOMAIN order : order[i] \in Sessions /\ Held(order[i])
    BY LenProperties DEF Lists, TypeOK
  <2>4. Near'
    BY <2>2 DEF Near, Ordered
  <2> QED BY <2>1, <2>2, <2>3, <2>4 DEF Ordered, OrderedByDeadline
<1> QED BY <1>1, <1>2

LEMMA NextOrdered == TypeOK /\ Lists /\ Ordered /\ [Next]_vars => Ordered'
<1> SUFFICES ASSUME TypeOK, Lists, Ordered, [Next]_vars PROVE Ordered'
  OBVIOUS
<1>1. ASSUME NEW c \in SUBSET Channels, Publishes(c) PROVE Ordered'
  BY <1>1, OrderedPublishes DEF Publishes
<1>2. ASSUME NEW s \in Sessions, NEW m \in Members, Suspends(s, m) PROVE Ordered'
  BY <1>2, OrderedSuspends DEF Suspends
<1>3. ASSUME NEW s \in Sessions, NEW f \in 0..MaxRevision + 1, NEW m \in Members,
             PresentsTicket(s, f, m)
      PROVE  Ordered'
  BY <1>3, AcceptedTicket, OrderedForgets DEF PresentsTicket, Resume
<1>4. CASE StartsReaping
  BY <1>4, OrderedKept DEF StartsReaping, ReapBegins
<1>5. CASE Reaps /\ ReapJudges
  <2>1. walk # <<>> /\ UNCHANGED now
    BY <1>5 DEF Reaps, ReapJudges
  <2>2. CASE Expired(Head(walk))
    BY <1>5, <2>1, <2>2, JudgedIsHeld, OrderedForgets DEF ReapJudges
  <2>3. CASE ~Expired(Head(walk))
    BY <1>5, <2>1, <2>3, OrderedKept DEF ReapJudges
  <2> QED BY <2>2, <2>3
<1>6. CASE Reaps /\ ReapReturns
  BY <1>6, OrderedKept DEF Reaps, ReapReturns
<1>7. CASE ClockMoves
  <2>1. now' = now + 1 /\ UNCHANGED <<held, order>>
    BY <1>7 DEF ClockMoves, Tick, registerVars
  <2>2. now \in Nat /\ Window \in Nat
    BY WindowAssumption DEF TypeOK
  <2>3. \A s \in Sessions : Held(s) => held[s].deadline \in Nat
    BY HeldIsSuspension DEF Suspensions
  <2> QED BY <2>1, <2>2, <2>3 DEF Ordered, Near, OrderedByDeadline, Held
<1>8. CASE UNCHANGED vars
  BY <1>8, OrderedKept DEF vars, registerVars
<1> QED BY <1>1, <1>2, <1>3, <1>4, <1>5, <1>6, <1>7, <1>8 DEF Next, Reaps

LEMMA NextJudged == TypeOK /\ Lists /\ Judged /\ [Next]_vars => Judged'
<1> SUFFICES ASSUME TypeOK, Lists, Judged, [Next]_vars PROVE Judged'
  OBVIOUS
<1>0. now \in Nat /\ asked \in Nat /\ asked <= now
  BY DEF TypeOK, Judged
<1>1. CASE reaping' = FALSE /\ UNCHANGED <<now, asked>>
  BY <1>0, <1>1 DEF Judged
<1>2. CASE UNCHANGED <<held, walk, reaping, asked>> /\ (now' = now \/ now' = now + 1)
  BY <1>0, <1>2 DEF Judged, Held
<1>3. CASE StartsReaping
  <2>1. walk' = order /\ asked' = now /\ UNCHANGED <<now, held, order>>
    BY <1>3 DEF StartsReaping, ReapBegins
  <2> QED BY <1>0, <2>1 DEF Judged, Lists, Held
<1>4. CASE Reaps /\ ReapJudges
  <2>1. walk # <<>> /\ walk' = Tail(walk) /\ reaping /\ UNCHANGED <<now, asked, reaping>>
    BY <1>4 DEF Reaps, ReapJudges
  <2>2. /\ Head(walk) \in Sessions /\ Held(Head(walk)) /\ Head(walk) = walk[1]
        /\ Len(walk) \in Nat /\ DOMAIN walk = 1..Len(walk)
        /\ \A i \in 1..Len(walk) - 1 : walk'[i] = walk[i + 1]
        /\ DOMAIN walk' = 1..Len(walk) - 1
    BY <2>1, JudgedIsHeld, LenProperties
  <2>3. \A t \in Sessions : (\E i \in DOMAIN walk : walk[i] = t) =>
          t = Head(walk) \/ \E i \in DOMAIN walk' : walk'[i] = t
    <3> SUFFICES ASSUME NEW i \in 1..Len(walk), i # 1
                 PROVE  \E j \in DOMAIN walk' : walk'[j] = walk[i]
      BY <2>2
    <3>1. i - 1 \in 1..Len(walk) - 1 /\ (i - 1) + 1 = i
      BY <2>2
    <3> QED BY <2>2, <3>1
  <2>4. CASE Expired(Head(walk))
    <3>1. /\ held'[Head(walk)] = None
          /\ \A t \in Sessions \ {Head(walk)} : held'[t] = held[t]
      BY <1>4, <2>2, <2>4, ForgetHolds DEF ReapJudges
    <3> QED BY <1>0, <2>1, <2>3, <3>1 DEF Judged, Held
  <2>5. CASE ~Expired(Head(walk))
    <3>1. held' = held
      BY <1>4, <2>5 DEF ReapJudges
    <3>2. held[Head(walk)].deadline \in Nat
      BY <2>2, HeldIsSuspension DEF Suspensions
    <3>3. held[Head(walk)].deadline > asked
      BY <1>0, <2>5, <3>2 DEF Expired
    <3> QED BY <1>0, <2>1, <2>3, <3>1, <3>3 DEF Judged, Held
  <2> QED BY <2>4, <2>5
<1>5. CASE Reaps /\ ReapReturns
  BY <1>1, <1>5 DEF Reaps, ReapReturns
<1>6. ASSUME NEW c \in SUBSET Channels, Publishes(c) PROVE reaping' = FALSE /\ UNCHANGED <<now, asked>>
  BY <1>6 DEF Publishes, Published, TypeOK
<1>7. ASSUME NEW s \in Sessions, NEW m \in Members, Suspends(s, m)
      PROVE  reaping' = FALSE /\ UNCHANGED <<now, asked>>
  BY <1>7 DEF Suspends, Suspend, TypeOK
<1>8. ASSUME NEW s \in Sessions, NEW f \in 0..MaxRevision + 1, NEW m \in Members,
             PresentsTicket(s, f, m)
      PROVE  reaping' = FALSE /\ UNCHANGED <<now, asked>>
  BY <1>8 DEF PresentsTicket, Resume, TypeOK
<1>9. ASSUME ClockMoves \/ UNCHANGED vars
      PROVE  UNCHANGED <<held, walk, reaping, asked>> /\ (now' = now \/ now' = now + 1)
  BY <1>9 DEF ClockMoves, Tick, registerVars, vars
<1> QED BY <1>1, <1>2, <1>3, <1>4, <1>5, <1>6, <1>7, <1>8, <1>9 DEF Next, Reaps

(* The order is the order in which windows run out (Suspend appends, the   *)
(* clock never goes back).                                                 *)
THEOREM DeadlinesAreOrdered == Spec => []OrderedByDeadline
<1>1. TypeOK /\ Lists /\ Ordered /\ [Next]_vars => Ordered'
  BY NextOrdered
<1>2. Init => Ordered
  BY InitOrdered
<1>3. Ordered => OrderedByDeadline
  BY DEF Ordered
<1> QED BY <1>1, <1>2, <1>3, Registered, PTL DEF Spec

(* A Reap that is about to return has forgotten everyone whose window had  *)
(* run out when it began, whatever the clock did meanwhile.                *)
THEOREM ReapLeavesNobody == Spec => []ReapTakesTheExpired
<1>1. TypeOK /\ Lists /\ Judged /\ [Next]_vars => Judged'
  BY NextJudged
<1>2. Init => Judged
  BY InitOrdered
<1>3. Judged => ReapTakesTheExpired
  BY DEF Judged, ReapTakesTheExpired
<1> QED BY <1>1, <1>2, <1>3, Registered, PTL DEF Spec

-----------------------------------------------------------------------------
(* Who is held changes in three ways only.                                 *)
LEMMA StepsThatEndAPlace ==
  ASSUME TypeOK, Lists, [Next]_vars, NEW t \in Sessions, Held(t), ~Held(t)'
  PROVE  \/ Expired(t) /\ gone' = Append(gone, held[t].member)
         \/ /\ ~Expired(t)
            /\ answer' # None
            /\ answer'.session = t
            /\ answer'.member = held[t].member
<1>1. ASSUME NEW c \in SUBSET Channels, Publishes(c) PROVE Held(t)'
  <2>1. CASE c = {}
    BY <1>1, <2>1 DEF Publishes, Published, Held
  <2>2. CASE c # {}
    BY <1>1, <2>2, PublishedHolds DEF Publishes
  <2> QED BY <2>1, <2>2
<1>2. ASSUME NEW s \in Sessions, NEW m \in Members, Suspends(s, m) PROVE Held(t)'
  <2>1. t # s /\ held'[t] = held[t]
    BY <1>2, SuspendHolds DEF Suspends
  <2> QED BY <2>1 DEF Held
<1>3. ASSUME NEW s \in Sessions, NEW f \in 0..MaxRevision + 1, NEW m \in Members,
             PresentsTicket(s, f, m)
      PROVE  /\ ~Expired(t)
             /\ answer' # None
             /\ answer'.session = t
             /\ answer'.member = held[t].member
  <2>1. Held(s) /\ ~Expired(s) /\ held[s].member = m /\ Forget(s)
    BY <1>3, AcceptedTicket DEF PresentsTicket, Resume
  <2>2. t = s
    BY <2>1, ForgetHolds DEF Held
  <2>3. answer' = [session |-> s, member |-> m, folded |-> f, missed |-> Difference(s, f)]
    BY <1>3 DEF PresentsTicket
  <2>4. Difference(s, f) \in (SUBSET Channels) \cup {None} /\ f \in Nat
    BY <2>1, HeldIsSuspension, MaxRevisionAssumption DEF Difference, Suspensions
  <2>5. answer' \in Answers
    BY <2>3, <2>4 DEF Answers
  <2> QED BY <2>1, <2>2, <2>3, <2>5, AnswerAssumption
<1>4. ASSUME Reaps, ReapJudges PROVE Expired(t) /\ gone' = Append(gone, held[t].member)
  <2>1. walk # <<>>
    BY <1>4 DEF ReapJudges
  <2>2. Head(walk) \in Sessions /\ Held(Head(walk))
    BY <2>1, JudgedIsHeld
  <2>3. Expired(Head(walk))
    BY <1>4 DEF ReapJudges, Held
  <2>4. Forget(Head(walk)) /\ gone' = Append(gone, held[Head(walk)].member)
    BY <1>4, <2>3 DEF ReapJudges
  <2>5. t = Head(walk)
    BY <2>2, <2>4, ForgetHolds DEF Held
  <2> QED BY <2>3, <2>4, <2>5
<1>5. ASSUME StartsReaping \/ (Reaps /\ ReapReturns) \/ ClockMoves \/ UNCHANGED vars PROVE Held(t)'
  BY <1>5 DEF StartsReaping, ReapBegins, Reaps, ReapReturns, ClockMoves, Tick, vars, registerVars, Held
<1> QED BY <1>1, <1>2, <1>3, <1>4, <1>5 DEF Next, Reaps

(* A held place ends with its member reported gone after the window, or    *)
(* with a ticket of that member accepted inside it, and in no other way.   *)
THEOREM PlacesEndInOneWay == Spec => PlacesEndOnce
<1>1. TypeOK /\ Lists /\ [Next]_vars =>
        [\A s \in Sessions :
           Held(s) /\ ~Held(s)' =>
             \/ Expired(s) /\ gone' = Append(gone, held[s].member)
             \/ /\ ~Expired(s)
                /\ answer' # None
                /\ answer'.session = s
                /\ answer'.member = held[s].member]_vars
  BY StepsThatEndAPlace
<1> QED BY <1>1, Registered, PTL DEF Spec, PlacesEndOnce
=============================================================================
