--------------------------- MODULE MediaFakeProofs ---------------------------
(* What holds of the media port's fake whatever the rooms, the members and   *)
(* the misbehaviours induced: its types, that whoever sends or receives may, *)
(* and that it is a media plane.                                             *)
EXTENDS MediaFake, TLAPS

(* The part of the state a call changes, typed.                              *)
RoomsOK ==
  /\ open \subseteq Rooms /\ draining \subseteq open
  /\ Seats \subseteq open \X Members /\ caps \in [Seats -> SUBSET Capabilities]
  /\ sources \subseteq Rooms \X Members \X Kinds
  /\ subs \subseteq Rooms \X Members \X Members \X Kinds
  /\ observed \subseteq open \X Members \X Figures

IInv == RoomsOK /\ Rights

LEMMA ValidKinds == \A k \in SourceKinds : ~ InvalidKind(k) => k \in Kinds
BY KindsAssumption DEF InvalidKind, SourceKinds

LEMMA InitIInv == Init => IInv
BY DEF Init, IInv, RoomsOK, Rights, Seats

(* A refusal, and a setting of the unit, leave the rooms alone.              *)
LEMMA QuietKeeps ==
  ASSUME IInv, UNCHANGED roomVars
  PROVE  IInv'
BY DEF IInv, RoomsOK, Rights, roomVars, Seats

LEMMA CreateKeeps ==
  ASSUME IInv, NEW r \in RoomIDs, CreateRoom(r)
  PROVE  IInv'
<1>1. CASE UNCHANGED roomVars
  BY <1>1, QuietKeeps
<1>2. CASE r # Nameless /\ open' = open \cup {r} /\ UNCHANGED <<draining, caps, sources, subs, observed>>
  <2>1. r \in Rooms
    BY <1>2 DEF RoomIDs
  <2> QED BY <1>2, <2>1 DEF IInv, RoomsOK, Rights, Seats
<1> QED BY <1>1, <1>2 DEF CreateRoom, Refuses, Fails, Does, CreationError, Ok

LEMMA DestroyKeeps ==
  ASSUME IInv, NEW r \in RoomIDs, DestroyRoom(r)
  PROVE  IInv'
<1>1. CASE UNCHANGED roomVars
  BY <1>1, QuietKeeps
<1>2. CASE /\ open' = open \ {r} /\ draining' = draining \ {r}
           /\ caps' = [s \in Seats \ Within(r, Seats) |-> caps[s]]
           /\ sources' = sources \ Within(r, sources)
           /\ subs' = subs \ Within(r, subs)
           /\ observed' = observed \ Within(r, observed)
  <2>1. Seats' = Seats \ Within(r, Seats)
    BY <1>2 DEF Seats
  <2>2. \A s \in Seats' : caps'[s] = caps[s] /\ s[1] # r
    BY <1>2, <2>1 DEF Within
  <2>3. RoomsOK'
    <3>1. open' \subseteq Rooms /\ draining' \subseteq open'
      BY <1>2 DEF IInv, RoomsOK
    <3>2. Seats' \subseteq open' \X Members
      BY <1>2, <2>1 DEF IInv, RoomsOK, Within
    <3>3. caps' \in [Seats' -> SUBSET Capabilities]
      BY <1>2, <2>1 DEF IInv, RoomsOK, Within
    <3>4. observed' \subseteq open' \X Members \X Figures
      BY <1>2 DEF IInv, RoomsOK, Within
    <3> QED BY <1>2, <3>1, <3>2, <3>3, <3>4 DEF IInv, RoomsOK
  <2>4. Rights'
    <3>1. ASSUME NEW x \in sources' PROVE <<x[1], x[2]>> \in Seats' /\ Publishing(x[3]) \in caps'[<<x[1], x[2]>>]
      <4>1. x \in sources /\ x[1] # r
        BY <1>2, <3>1 DEF Within
      <4>2. <<x[1], x[2]>> \in Seats' 
        BY <2>1, <4>1 DEF IInv, Rights, Within
      <4> QED BY <2>2, <4>1, <4>2 DEF IInv, Rights
    <3>2. ASSUME NEW x \in subs'
          PROVE  <<x[1], x[2]>> \in Seats' /\ "MaySubscribe" \in caps'[<<x[1], x[2]>>]
                   /\ <<x[1], x[3], x[4]>> \in sources'
      <4>1. x \in subs /\ x[1] # r
        BY <1>2, <3>2 DEF Within
      <4>2. <<x[1], x[2]>> \in Seats' 
        BY <2>1, <4>1 DEF IInv, Rights, Within
      <4>3. <<x[1], x[3], x[4]>> \in sources'
        BY <1>2, <4>1 DEF IInv, Rights, Within
      <4> QED BY <2>2, <4>1, <4>2, <4>3 DEF IInv, Rights
    <3> QED BY <3>1, <3>2 DEF Rights
  <2> QED BY <2>3, <2>4 DEF IInv
<1> QED BY <1>1, <1>2 DEF DestroyRoom, Refuses, Fails, Does

LEMMA AdmitKeeps ==
  ASSUME IInv, NEW r \in RoomIDs, NEW m \in MemberIDs, NEW set \in Offered, AdmitMember(r, m, set)
  PROVE  IInv'
<1>1. CASE UNCHANGED roomVars
  BY <1>1, QuietKeeps
<1>2. CASE /\ AdmissionError(r, m, set) = Ok
           /\ caps' = [s \in Seats \cup {<<r, m>>} |-> IF s = <<r, m>> THEN set ELSE caps[s]]
           /\ UNCHANGED <<open, draining, sources, subs, observed>>
  <2>1. r \in open /\ m \in Members /\ <<r, m>> \notin Seats
    BY <1>2 DEF AdmissionError, Ok, MemberIDs
  <2>2. Seats' = Seats \cup {<<r, m>>} /\ set \in SUBSET Capabilities
    BY <1>2, OfferedAssumption DEF Seats
  <2>3. \A s \in Seats : caps'[s] = caps[s]
    BY <1>2, <2>1
  <2>4. RoomsOK'
    <3>1. Seats' \subseteq open' \X Members
      BY <1>2, <2>1, <2>2 DEF IInv, RoomsOK
    <3>2. caps' \in [Seats' -> SUBSET Capabilities]
      BY <1>2, <2>2 DEF IInv, RoomsOK
    <3> QED BY <1>2, <3>1, <3>2 DEF IInv, RoomsOK
  <2>5. Rights'
    <3>1. \A x \in sources' : <<x[1], x[2]>> \in Seats' /\ Publishing(x[3]) \in caps'[<<x[1], x[2]>>]
      BY <1>2, <2>2, <2>3 DEF IInv, Rights
    <3>2. \A x \in subs' : /\ <<x[1], x[2]>> \in Seats'
                           /\ "MaySubscribe" \in caps'[<<x[1], x[2]>>]
                           /\ <<x[1], x[3], x[4]>> \in sources'
      BY <1>2, <2>2, <2>3 DEF IInv, Rights
    <3> QED BY <3>1, <3>2 DEF Rights
  <2> QED BY <2>4, <2>5 DEF IInv
<1> QED BY <1>1, <1>2 DEF AdmitMember, Refuses, Fails, Does

LEMMA RevokeKeeps ==
  ASSUME IInv, NEW r \in RoomIDs, NEW m \in MemberIDs, RevokeMember(r, m)
  PROVE  IInv'
<1>1. CASE UNCHANGED roomVars
  BY <1>1, QuietKeeps
<1>2. CASE /\ caps' = [s \in Seats \ {<<r, m>>} |-> caps[s]]
           /\ observed' = {o \in observed : <<o[1], o[2]>> # <<r, m>>}
           /\ sources' = {s \in sources : <<s[1], s[2]>> # <<r, m>>}
           /\ subs' = {s \in subs : ~ (s[1] = r /\ m \in {s[2], s[3]})}
           /\ UNCHANGED <<open, draining>>
  <2>1. Seats' = Seats \ {<<r, m>>} /\ \A s \in Seats' : caps'[s] = caps[s]
    BY <1>2 DEF Seats
  <2>2. RoomsOK'
    <3>1. caps' \in [Seats' -> SUBSET Capabilities]
      BY <1>2, <2>1 DEF IInv, RoomsOK
    <3>2. Seats' \subseteq open' \X Members
      BY <1>2, <2>1 DEF IInv, RoomsOK
    <3>3. sources' \subseteq sources /\ subs' \subseteq subs /\ observed' \subseteq observed
      BY <1>2
    <3> QED BY <1>2, <3>1, <3>2, <3>3 DEF IInv, RoomsOK
  <2>3. ASSUME NEW x \in sources' PROVE <<x[1], x[2]>> \in Seats' /\ Publishing(x[3]) \in caps'[<<x[1], x[2]>>]
    <3>1. x \in sources /\ <<x[1], x[2]>> \in Seats'
      BY <1>2, <2>1, <2>3 DEF IInv, Rights
    <3> QED BY <2>1, <3>1 DEF IInv, Rights
  <2>4. ASSUME NEW x \in subs'
        PROVE  /\ <<x[1], x[2]>> \in Seats'
               /\ "MaySubscribe" \in caps'[<<x[1], x[2]>>]
               /\ <<x[1], x[3], x[4]>> \in sources'
    <3>1. x \in subs /\ ~ (x[1] = r /\ m \in {x[2], x[3]})
      BY <1>2, <2>4
    <3>2. <<x[1], x[2]>> \in Seats'
      BY <2>1, <3>1 DEF IInv, Rights
    <3>3. <<x[1], x[3], x[4]>> \in sources'
      BY <1>2, <3>1 DEF IInv, Rights
    <3> QED BY <2>1, <3>1, <3>2, <3>3 DEF IInv, Rights
  <2> QED BY <2>2, <2>3, <2>4 DEF IInv, Rights
<1> QED BY <1>1, <1>2 DEF RevokeMember, Refuses, Fails, Does

LEMMA PublishKeeps ==
  ASSUME IInv, NEW r \in RoomIDs, NEW m \in MemberIDs, NEW k \in SourceKinds, PublishSource(r, m, k)
  PROVE  IInv'
<1>1. CASE UNCHANGED roomVars
  BY <1>1, QuietKeeps
<1>2. CASE /\ PublishError(r, m, k) = Ok
           /\ sources' \in {sources, sources \cup {<<r, m, k>>}}
           /\ UNCHANGED <<open, draining, caps, subs, observed>>
  <2>1. <<r, m>> \in Seats /\ Publishing(k) \in caps[<<r, m>>] /\ ~ InvalidKind(k)
    BY <1>2 DEF PublishError, MemberOf, Ok
  <2>2. r \in Rooms /\ m \in Members
    BY <2>1 DEF IInv, RoomsOK
  <2>3. k \in Kinds
    BY <2>1, ValidKinds
  <2>4. RoomsOK'
    <3>1. sources' \subseteq Rooms \X Members \X Kinds
      BY <1>2, <2>2, <2>3 DEF IInv, RoomsOK
    <3> QED BY <1>2, <3>1 DEF IInv, RoomsOK, Seats
  <2>5. Rights'
    <3>1. ASSUME NEW x \in sources'
          PROVE  <<x[1], x[2]>> \in Seats' /\ Publishing(x[3]) \in caps'[<<x[1], x[2]>>]
      <4>1. CASE x \in sources
        BY <1>2, <4>1 DEF IInv, Rights, Seats
      <4>2. CASE x = <<r, m, k>>
        <5>1. x[1] = r /\ x[2] = m /\ x[3] = k
          BY <4>2
        <5> QED BY <1>2, <2>1, <5>1 DEF Seats
      <4> QED BY <1>2, <3>1, <4>1, <4>2
    <3>2. \A x \in subs' : /\ <<x[1], x[2]>> \in Seats'
                           /\ "MaySubscribe" \in caps'[<<x[1], x[2]>>]
                           /\ <<x[1], x[3], x[4]>> \in sources'
      BY <1>2 DEF IInv, Rights, Seats
    <3> QED BY <3>1, <3>2 DEF Rights
  <2> QED BY <2>4, <2>5 DEF IInv
<1> QED BY <1>1, <1>2 DEF PublishSource, Refuses, Fails, Does

LEMMA UnpublishKeeps ==
  ASSUME IInv, NEW r \in RoomIDs, NEW m \in MemberIDs, NEW k \in SourceKinds, UnpublishSource(r, m, k)
  PROVE  IInv'
<1>1. CASE UNCHANGED roomVars
  BY <1>1, QuietKeeps
<1>2. CASE /\ sources' = sources \ {<<r, m, k>>}
           /\ subs' = {s \in subs : <<s[1], s[3], s[4]>> # <<r, m, k>>}
           /\ UNCHANGED <<open, draining, caps, observed>>
  <2>1. sources' \subseteq sources /\ subs' \subseteq subs
    BY <1>2
  <2>2. RoomsOK'
    BY <1>2, <2>1 DEF IInv, RoomsOK, Seats
  <2>3. ASSUME NEW x \in subs' PROVE <<x[1], x[3], x[4]>> \in sources'
    BY <1>2, <2>3 DEF IInv, Rights
  <2>4. Rights'
    BY <1>2, <2>1, <2>3 DEF IInv, Rights, Seats
  <2> QED BY <2>2, <2>4 DEF IInv
<1> QED BY <1>1, <1>2 DEF UnpublishSource, Refuses, Fails, Does

LEMMA SubscribeKeeps ==
  ASSUME IInv, NEW r \in Rooms, NEW s \in Members, NEW m \in Members, NEW k \in SourceKinds,
         Subscribe(r, s, m, k)
  PROVE  IInv'
<1>1. CASE UNCHANGED roomVars
  BY <1>1, QuietKeeps
<1>2. CASE /\ SubscribeError(r, s, m, k) = Ok
           /\ subs' = subs \cup {<<r, s, m, k>>}
           /\ UNCHANGED <<open, draining, caps, sources, observed>>
  <2>1. /\ <<r, s>> \in Seats /\ "MaySubscribe" \in caps[<<r, s>>]
        /\ <<r, m, k>> \in sources
    BY <1>2 DEF SubscribeError, MemberOf, Ok
  <2>2. k \in Kinds
    BY <2>1 DEF IInv, RoomsOK
  <2>3. RoomsOK'
    <3>1. subs' \subseteq Rooms \X Members \X Members \X Kinds
      BY <1>2, <2>2 DEF IInv, RoomsOK
    <3> QED BY <1>2, <3>1 DEF IInv, RoomsOK, Seats
  <2>4. Rights'
    <3>1. ASSUME NEW x \in subs'
          PROVE  /\ <<x[1], x[2]>> \in Seats'
                 /\ "MaySubscribe" \in caps'[<<x[1], x[2]>>]
                 /\ <<x[1], x[3], x[4]>> \in sources'
      <4>1. CASE x \in subs
        BY <1>2, <4>1 DEF IInv, Rights, Seats
      <4>2. CASE x = <<r, s, m, k>>
        <5>1. x[1] = r /\ x[2] = s /\ x[3] = m /\ x[4] = k
          BY <4>2
        <5> QED BY <1>2, <2>1, <5>1 DEF Seats
      <4> QED BY <1>2, <3>1, <4>1, <4>2
    <3> QED BY <1>2, <3>1 DEF IInv, Rights, Seats
  <2> QED BY <2>3, <2>4 DEF IInv
<1> QED BY <1>1, <1>2 DEF Subscribe, Refuses, Fails, Does

(* A subscription ends, by its subscriber's will or by itself.               *)
LEMMA EndKeeps ==
  ASSUME IInv, subs' \in SUBSET subs, UNCHANGED <<open, draining, caps, sources, observed>>
  PROVE  IInv'
<1>1. RoomsOK'
  BY DEF IInv, RoomsOK, Seats
<1>2. Rights'
  BY DEF IInv, Rights, Seats
<1> QED BY <1>1, <1>2 DEF IInv

LEMMA DrainKeeps ==
  ASSUME IInv, NEW r \in RoomIDs, DrainRoom(r)
  PROVE  IInv'
<1>1. CASE UNCHANGED roomVars
  BY <1>1, QuietKeeps
<1>2. CASE r \in open /\ draining' = draining \cup {r} /\ UNCHANGED <<open, caps, sources, subs, observed>>
  BY <1>2 DEF IInv, RoomsOK, Rights, Seats
<1> QED BY <1>1, <1>2 DEF DrainRoom, Refuses, Fails, Ok

LEMMA FiguresKeep ==
  ASSUME IInv, NEW r \in Rooms, NEW m \in Members, SetSpeaking(r, m) \/ SetHop(r, m)
  PROVE  IInv'
<1>1. r \in open /\ UNCHANGED <<open, draining, caps, sources, subs>>
  BY DEF SetSpeaking, SetHop, SetFigures
<1>2. observed' \subseteq observed \cup {<<r, m, f>> : f \in Figures}
  BY DEF SetSpeaking, SetHop, SetFigures, Toggled, Figures
<1>3. observed' \subseteq open \X Members \X Figures
  BY <1>1, <1>2 DEF IInv, RoomsOK
<1> QED BY <1>1, <1>3 DEF IInv, RoomsOK, Rights, Seats

-----------------------------------------------------------------------------
(* The calls that leave the rooms alone.                                     *)
Quiet == UNCHANGED roomVars

LEMMA BeginsQuietly == ASSUME NEW op \in Operations, NeverBegins(op) PROVE Quiet
BY DEF NeverBegins, Fails, Quiet

LEMMA ArrangesQuietly ==
  ASSUME NEW n, NEW range, NEW c, NEW r, NEW m, NEW k,
         \/ SetUnreachable \/ SetGainSupported \/ SetObservable \/ SetRoomLimit(n)
         \/ SetGainRange(range) \/ RefuseCapability(c) \/ FailRoomCreation(r)
         \/ NeverDeliverSource(m, k) \/ TimeOutAdmission(r, m)
  PROVE  Quiet
BY DEF SetUnreachable, SetGainSupported, SetObservable, SetRoomLimit, SetGainRange,
       RefuseCapability, FailRoomCreation, NeverDeliverSource, TimeOutAdmission, Arranges, Quiet

LEMMA ReadsQuietly ==
  ASSUME NEW op, NEW r, NEW s, NEW m, NEW k, NEW gain,
         Observe(op, r) \/ SetSubscriberGain(r, s, m, k, gain)
  PROVE  Quiet
BY DEF Observe, SetSubscriberGain, Refuses, Fails, Does, Quiet

LEMMA EndsOnly ==
  ASSUME NEW r, NEW s, NEW m, NEW k, Unsubscribe(r, s, m, k) \/ DropSubscription(r, s, m, k)
  PROVE  subs' \in SUBSET subs /\ UNCHANGED <<open, draining, caps, sources, observed>>
BY DEF Unsubscribe, DropSubscription, Refuses, Fails, Does, roomVars

LEMMA NextIInv == IInv /\ [Next]_vars => IInv'
<1> SUFFICES ASSUME IInv, [Next]_vars PROVE IInv'
  OBVIOUS
<1>1. ASSUME Quiet PROVE IInv'
  BY <1>1, QuietKeeps DEF Quiet
<1>2. ASSUME NEW op \in Operations, NeverBegins(op) PROVE IInv'
  BY <1>1, <1>2, BeginsQuietly
<1>3. CASE RoomIsCalled
  <2>1. PICK r \in RoomIDs :
          \/ CreateRoom(r) \/ DestroyRoom(r) \/ DrainRoom(r)
          \/ \E op \in {"SpeakingState", "HopMetrics"} : Observe(op, r)
    BY <1>3 DEF RoomIsCalled
  <2> QED BY <1>1, <2>1, CreateKeeps, DestroyKeeps, DrainKeeps, ReadsQuietly
<1>4. CASE MemberIsCalled
  <2>1. PICK r \in RoomIDs, m \in MemberIDs :
          \/ RevokeMember(r, m)
          \/ \E set \in Offered : AdmitMember(r, m, set)
          \/ \E k \in SourceKinds : PublishSource(r, m, k) \/ UnpublishSource(r, m, k)
    BY <1>4 DEF MemberIsCalled
  <2> QED BY <2>1, RevokeKeeps, AdmitKeeps, PublishKeeps, UnpublishKeeps
<1>5. CASE SubscriptionIsCalled
  <2>1. PICK r \in Rooms, s \in Members, m \in Members, k \in SourceKinds :
          \/ Subscribe(r, s, m, k) \/ Unsubscribe(r, s, m, k)
          \/ \E gain \in Gains : SetSubscriberGain(r, s, m, k, gain)
    BY <1>5 DEF SubscriptionIsCalled
  <2> QED BY <1>1, <2>1, SubscribeKeeps, EndsOnly, EndKeeps, ReadsQuietly
<1>6. CASE UnitIsArranged
  <2>1. ASSUME NEW r \in Rooms, NEW m \in Members, SetSpeaking(r, m) \/ SetHop(r, m) PROVE IInv'
    BY <2>1, FiguresKeep
  <2>2. ASSUME NEW r \in Rooms, NEW s \in Members, NEW m \in Members, NEW k \in Kinds,
               DropSubscription(r, s, m, k)
        PROVE  IInv'
    BY <2>2, EndsOnly, EndKeeps
  <2> QED BY <1>1, <1>6, <2>1, <2>2, ArrangesQuietly DEF UnitIsArranged
<1>7. CASE UNCHANGED vars
  BY <1>1, <1>7 DEF vars, Quiet
<1> QED BY <1>2, <1>3, <1>4, <1>5, <1>6, <1>7 DEF Next

(* Whoever sends or receives is admitted and may, and what is received is    *)
(* there, for any rooms, members, kinds and faults.                          *)
THEOREM RightsHold == Spec => []Rights
<1>1. IInv => Rights
  BY DEF IInv
<1> QED BY InitIInv, NextIInv, <1>1, PTL DEF Spec

-----------------------------------------------------------------------------
(* What the last call answered, and the unit, typed.                         *)
AnswerOK ==
  /\ DOMAIN unit = DOMAIN New
  /\ refusal \in [op : Operations \cup {"none"}, err : Errors \cup {Ok}]
  /\ AnswersAreDeclared

(* A call answers well when its error is one it declares.                    *)
LEMMA AnswerDeclared ==
  ASSUME AnswerOK, NEW op \in Operations, NEW err, Answers(op, err),
         err \in {Ok} \cup Common \cup DeclaredBy[op]
  PROVE  AnswerOK'
<1>1. DOMAIN unit' = DOMAIN New
  BY DEF AnswerOK, Answers
<1>2. CASE err \in {Ok} \cup Common
  <2>1. refusal' = NoRefusal
    BY <1>2 DEF Answers
  <2> QED BY <1>1, <2>1 DEF AnswerOK, NoRefusal, AnswersAreDeclared
<1>3. CASE err \notin {Ok} \cup Common
  <2>1. refusal' = [op |-> op, err |-> err] /\ err \in DeclaredBy[op]
    BY <1>3 DEF Answers
  <2>2. err \in Errors
    BY <2>1 DEF Errors
  <2> QED BY <1>1, <2>1, <2>2 DEF AnswerOK, AnswersAreDeclared
<1> QED BY <1>2, <1>3

LEMMA BeginsDeclared ==
  ASSUME AnswerOK, NEW op \in Operations, NeverBegins(op)
  PROVE  AnswerOK'
<1>1. PICK late \in BOOLEAN : Answers(op, Begin(late))
  BY DEF NeverBegins, Fails
<1>2. Begin(late) \in {Ok} \cup Common
  BY DEF Begin, Common
<1> QED BY <1>1, <1>2, AnswerDeclared

LEMMA RoomDeclared ==
  ASSUME AnswerOK, NEW r, CreateRoom(r) \/ DestroyRoom(r) \/ DrainRoom(r)
  PROVE  AnswerOK'
<1>1. CASE CreateRoom(r)
  <2>1. Answers("CreateRoom", CreationError(r))
    BY <1>1 DEF CreateRoom, Refuses, Fails, Does
  <2> QED BY <2>1, AnswerDeclared DEF CreationError, Operations, DeclaredBy
<1>2. CASE DestroyRoom(r)
  <2>1. Answers("DestroyRoom", IF r = Nameless THEN "ErrInvalidIdentity" ELSE Ok)
    BY <1>2 DEF DestroyRoom, Refuses, Fails, Does
  <2> QED BY <2>1, AnswerDeclared DEF Operations, DeclaredBy
<1>3. CASE DrainRoom(r)
  <2>1. PICK err \in {Ok, "ErrNoSuchRoom", "ErrDrainDeadlineExceeded"} : Answers("DrainRoom", err)
    BY <1>3 DEF DrainRoom, Refuses, Fails
  <2> QED BY <2>1, AnswerDeclared DEF Operations, DeclaredBy
<1> QED BY <1>1, <1>2, <1>3

LEMMA ObserveDeclared ==
  ASSUME AnswerOK, NEW op \in {"SpeakingState", "HopMetrics"}, NEW r, Observe(op, r)
  PROVE  AnswerOK'
<1>1. PICK err \in {Ok, "ErrNoSuchRoom", "ErrNotObservable"} : Answers(op, err)
  BY DEF Observe, Refuses, Fails, Does
<1> QED BY <1>1, AnswerDeclared DEF Operations, DeclaredBy

LEMMA MemberDeclared ==
  ASSUME AnswerOK, NEW r, NEW m, NEW set, AdmitMember(r, m, set) \/ RevokeMember(r, m)
  PROVE  AnswerOK'
<1>1. CASE AdmitMember(r, m, set)
  <2>1. Answers("AdmitMember", AdmissionError(r, m, set))
    BY <1>1 DEF AdmitMember, Refuses, Fails, Does
  <2> QED BY <2>1, AnswerDeclared DEF AdmissionError, Operations, DeclaredBy, Common
<1>2. CASE RevokeMember(r, m)
  <2>1. Answers("RevokeMember", IF r \notin open THEN "ErrNoSuchRoom" ELSE Ok)
    BY <1>2 DEF RevokeMember, Refuses, Fails, Does
  <2> QED BY <2>1, AnswerDeclared DEF Operations, DeclaredBy
<1> QED BY <1>1, <1>2

LEMMA SourceDeclared ==
  ASSUME AnswerOK, NEW r, NEW m, NEW k, PublishSource(r, m, k) \/ UnpublishSource(r, m, k)
  PROVE  AnswerOK'
<1>1. CASE PublishSource(r, m, k)
  <2>1. Answers("PublishSource", PublishError(r, m, k))
    BY <1>1 DEF PublishSource, Refuses, Fails, Does
  <2> QED BY <2>1, AnswerDeclared DEF PublishError, MemberOf, Operations, DeclaredBy, Absent
<1>2. CASE UnpublishSource(r, m, k)
  <2>1. Answers("UnpublishSource", IF InvalidKind(k) THEN "ErrInvalidIdentity" ELSE MemberOf(r, m))
    BY <1>2 DEF UnpublishSource, Refuses, Fails, Does
  <2> QED BY <2>1, AnswerDeclared DEF MemberOf, Operations, DeclaredBy, Absent
<1> QED BY <1>1, <1>2

LEMMA SubscriptionDeclared ==
  ASSUME AnswerOK, NEW r, NEW s, NEW m, NEW k, NEW gain,
         Subscribe(r, s, m, k) \/ Unsubscribe(r, s, m, k) \/ SetSubscriberGain(r, s, m, k, gain)
  PROVE  AnswerOK'
<1>1. CASE Subscribe(r, s, m, k)
  <2>1. Answers("Subscribe", SubscribeError(r, s, m, k))
    BY <1>1 DEF Subscribe, Refuses, Fails, Does
  <2> QED BY <2>1, AnswerDeclared DEF SubscribeError, MemberOf, Operations, DeclaredBy, Absent
<1>2. CASE Unsubscribe(r, s, m, k)
  <2>1. Answers("Unsubscribe", IF InvalidKind(k) THEN "ErrInvalidIdentity" ELSE MemberOf(r, s))
    BY <1>2 DEF Unsubscribe, Refuses, Fails, Does
  <2> QED BY <2>1, AnswerDeclared DEF MemberOf, Operations, DeclaredBy, Absent
<1>3. CASE SetSubscriberGain(r, s, m, k, gain)
  <2>1. Answers("SetSubscriberGain", GainError(r, s, m, k, gain))
    BY <1>3 DEF SetSubscriberGain, Refuses, Fails, Does
  <2> QED BY <2>1, AnswerDeclared DEF GainError, Operations, DeclaredBy
<1> QED BY <1>1, <1>2, <1>3

(* What a test sets changes settings and adds none.                          *)
LEMMA ArrangedAnswers ==
  ASSUME AnswerOK, DOMAIN unit' = DOMAIN unit, refusal' = NoRefusal
  PROVE  AnswerOK'
BY DEF AnswerOK, NoRefusal, AnswersAreDeclared

LEMMA ArrangesDeclared ==
  ASSUME AnswerOK, UnitIsArranged
  PROVE  AnswerOK'
<1>1. refusal' = NoRefusal
  BY DEF UnitIsArranged, SetUnreachable, SetGainSupported, SetObservable, SetRoomLimit,
         SetGainRange, RefuseCapability, FailRoomCreation, NeverDeliverSource,
         TimeOutAdmission, Arranges, SetSpeaking, SetHop, SetFigures, DropSubscription
<1>2. DOMAIN unit' = DOMAIN unit
  BY DEF UnitIsArranged, SetUnreachable, SetGainSupported, SetObservable, SetRoomLimit,
         SetGainRange, RefuseCapability, FailRoomCreation, NeverDeliverSource,
         TimeOutAdmission, Arranges, SetSpeaking, SetHop, SetFigures, DropSubscription
<1> QED BY <1>1, <1>2, ArrangedAnswers

LEMMA InitAnswerOK == Init => AnswerOK
BY DEF Init, AnswerOK, NoRefusal, AnswersAreDeclared

LEMMA NextAnswerOK == AnswerOK /\ [Next]_vars => AnswerOK'
<1> SUFFICES ASSUME AnswerOK, [Next]_vars PROVE AnswerOK'
  OBVIOUS
<1>1. ASSUME NEW op \in Operations, NeverBegins(op) PROVE AnswerOK'
  BY <1>1, BeginsDeclared
<1>2. CASE RoomIsCalled
  BY <1>2, RoomDeclared, ObserveDeclared DEF RoomIsCalled
<1>3. CASE MemberIsCalled
  BY <1>3, MemberDeclared, SourceDeclared DEF MemberIsCalled
<1>4. CASE SubscriptionIsCalled
  BY <1>4, SubscriptionDeclared DEF SubscriptionIsCalled
<1>5. CASE UnitIsArranged
  BY <1>5, ArrangesDeclared
<1>6. CASE UNCHANGED vars
  BY <1>6 DEF vars, AnswerOK, AnswersAreDeclared
<1> QED BY <1>1, <1>2, <1>3, <1>4, <1>5, <1>6 DEF Next

(* The fake keeps its types.                                                 *)
THEOREM TypeCorrect == Spec => []TypeOK
<1>1. IInv /\ AnswerOK => TypeOK
  BY DEF IInv, RoomsOK, AnswerOK, TypeOK
<1> QED BY InitIInv, NextIInv, InitAnswerOK, NextAnswerOK, <1>1, PTL DEF Spec

(* No operation answers an error its contract does not list, in whatever     *)
(* order its checks fall and whatever is set of the unit.                    *)
THEOREM AnswersComeFromTheList == Spec => []AnswersAreDeclared
<1>1. AnswerOK => AnswersAreDeclared
  BY DEF AnswerOK
<1> QED BY InitAnswerOK, NextAnswerOK, <1>1, PTL DEF Spec

-----------------------------------------------------------------------------
(* A step that changes neither seats nor drains, and at most ends            *)
(* subscriptions, is a plane on which flows ended.                           *)
LEMMA StillIsPlane ==
  ASSUME subs' \in SUBSET subs, UNCHANGED <<draining, caps>>
  PROVE  Plane!PlaneNext
BY DEF Plane!PlaneNext, Plane!FlowsEnd, Seats

LEMMA QuietIsPlane == ASSUME Quiet PROVE Plane!PlaneNext
BY StillIsPlane DEF Quiet, roomVars

LEMMA RoomIsPlane ==
  ASSUME NEW r \in RoomIDs, CreateRoom(r) \/ DestroyRoom(r) \/ DrainRoom(r), IInv
  PROVE  Plane!PlaneNext
<1>1. CASE Quiet
  BY <1>1, QuietIsPlane
<1>2. CASE CreateRoom(r)
  BY <1>1, <1>2, StillIsPlane DEF CreateRoom, Refuses, Fails, Does, Quiet
<1>3. CASE DestroyRoom(r) /\ ~ Quiet
  <2>1. /\ r \in Rooms
        /\ draining' = draining \ {r}
        /\ caps' = [s \in Seats \ Within(r, Seats) |-> caps[s]]
        /\ subs' = subs \ Within(r, subs)
    BY <1>3 DEF DestroyRoom, Refuses, Fails, Does, Quiet, Ok, RoomIDs
  <2>2. Seats' = Seats \ Within(r, Seats)
    BY <2>1 DEF Seats
  <2>3. Plane!IsDestroyed(r)
    BY <2>1, <2>2 DEF Plane!IsDestroyed, Plane!Within, Within
  <2> QED BY <2>1, <2>3 DEF Plane!PlaneNext
<1>4. CASE DrainRoom(r) /\ ~ Quiet
  <2>1. r \in open /\ draining' = draining \cup {r} /\ UNCHANGED <<caps, subs>>
    BY <1>4 DEF DrainRoom, Refuses, Fails, Quiet, Ok
  <2>2. r \in Rooms
    BY <2>1 DEF IInv, RoomsOK
  <2>3. Plane!Closes(r)
    BY <2>1 DEF Plane!Closes, Seats
  <2> QED BY <2>2, <2>3 DEF Plane!PlaneNext
<1> QED BY <1>1, <1>2, <1>3, <1>4

LEMMA MemberIsPlane ==
  ASSUME NEW r \in RoomIDs, NEW m \in MemberIDs, NEW set,
         AdmitMember(r, m, set) \/ RevokeMember(r, m), IInv
  PROVE  Plane!PlaneNext
<1>1. CASE Quiet
  BY <1>1, QuietIsPlane
<1>2. CASE AdmitMember(r, m, set) /\ ~ Quiet
  <2>1. /\ AdmissionError(r, m, set) = Ok
        /\ caps' = [s \in Seats \cup {<<r, m>>} |-> IF s = <<r, m>> THEN set ELSE caps[s]]
        /\ UNCHANGED <<draining, subs>>
    BY <1>2 DEF AdmitMember, Refuses, Fails, Does, Quiet
  <2>2. r \in Rooms /\ m \in Members /\ r \notin draining /\ <<r, m>> \notin Seats
    BY <2>1 DEF AdmissionError, Ok, RoomIDs, MemberIDs
  <2>3. Seats' = Seats \cup {<<r, m>>}
    BY <2>1 DEF Seats
  <2>4. Plane!Enters(r, m)
    BY <2>1, <2>2, <2>3 DEF Plane!Enters
  <2> QED BY <2>2, <2>4 DEF Plane!PlaneNext
<1>3. CASE RevokeMember(r, m) /\ ~ Quiet
  <2>1. /\ r \in open
        /\ caps' = [s \in Seats \ {<<r, m>>} |-> caps[s]]
        /\ subs' = {s \in subs : ~ (s[1] = r /\ m \in {s[2], s[3]})}
        /\ UNCHANGED draining
    BY <1>3 DEF RevokeMember, Refuses, Fails, Does, Quiet, Ok
  <2>2. Seats' = Seats \ {<<r, m>>}
    BY <2>1 DEF Seats
  <2>3. CASE m \in Members
    <3>1. Plane!Parts(r, m)
      BY <2>1, <2>2 DEF Plane!Parts
    <3> QED BY <2>1, <2>3, <3>1 DEF Plane!PlaneNext, IInv, RoomsOK
  <2>4. CASE m \notin Members
    <3>1. Seats' = Seats
      BY <2>2, <2>4 DEF IInv, RoomsOK
    <3>2. Plane!FlowsEnd
      BY <2>1, <3>1 DEF Plane!FlowsEnd
    <3> QED BY <3>2 DEF Plane!PlaneNext
  <2> QED BY <2>3, <2>4
<1> QED BY <1>1, <1>2, <1>3

LEMMA SourceIsPlane ==
  ASSUME NEW r, NEW m, NEW k, PublishSource(r, m, k) \/ UnpublishSource(r, m, k)
  PROVE  Plane!PlaneNext
<1>1. subs' \in SUBSET subs /\ UNCHANGED <<draining, caps>>
  BY DEF PublishSource, UnpublishSource, Refuses, Fails, Does, roomVars
<1> QED BY <1>1, StillIsPlane

LEMMA SubscribeIsPlane ==
  ASSUME NEW r \in Rooms, NEW s \in Members, NEW m \in Members, NEW k, Subscribe(r, s, m, k), IInv
  PROVE  Plane!PlaneNext
<1>1. CASE Quiet
  BY <1>1, QuietIsPlane
<1>2. CASE ~ Quiet
  <2>1. /\ SubscribeError(r, s, m, k) = Ok
        /\ subs' = subs \cup {<<r, s, m, k>>}
        /\ UNCHANGED <<draining, caps>>
    BY <1>2 DEF Subscribe, Refuses, Fails, Does, Quiet
  <2>2. <<r, s>> \in Seats /\ <<r, m>> \in Seats /\ <<r, m, k>> \in sources
    BY <2>1 DEF SubscribeError, MemberOf, Ok
  <2>3. k \in Kinds
    BY <2>2 DEF IInv, RoomsOK
  <2>4. Plane!Receives(r, s, m, k)
    BY <2>1, <2>2 DEF Plane!Receives, Seats
  <2> QED BY <2>3, <2>4 DEF Plane!PlaneNext
<1> QED BY <1>1, <1>2

(* The fake is a media plane, whatever is induced in it: nothing flows but   *)
(* between members of one room, nothing outlives its member or its room, and *)
(* a room that drains takes nobody in.                                       *)
THEOREM ImplementsPlane == Spec => PlaneSpec
<1>1. Init => Plane!Empty
  BY DEF Init, Plane!Empty, Seats
<1>2. IInv /\ [Next]_vars => [Plane!PlaneNext]_(Plane!planeVars)
  <2> SUFFICES ASSUME IInv, [Next]_vars PROVE Plane!PlaneNext \/ UNCHANGED Plane!planeVars
    OBVIOUS
  <2>1. ASSUME NEW op \in Operations, NeverBegins(op) PROVE Plane!PlaneNext
    BY <2>1, BeginsQuietly, QuietIsPlane
  <2>2. CASE RoomIsCalled
    BY <2>2, RoomIsPlane, ReadsQuietly, QuietIsPlane DEF RoomIsCalled
  <2>3. CASE MemberIsCalled
    BY <2>3, MemberIsPlane, SourceIsPlane DEF MemberIsCalled
  <2>4. CASE SubscriptionIsCalled
    <3>1. PICK r \in Rooms, s \in Members, m \in Members, k \in SourceKinds :
            \/ Subscribe(r, s, m, k) \/ Unsubscribe(r, s, m, k)
            \/ \E gain \in Gains : SetSubscriberGain(r, s, m, k, gain)
      BY <2>4 DEF SubscriptionIsCalled
    <3> QED BY <3>1, SubscribeIsPlane, EndsOnly, StillIsPlane, ReadsQuietly, QuietIsPlane
  <2>5. CASE UnitIsArranged
    <3>1. ASSUME NEW r, NEW m, SetSpeaking(r, m) \/ SetHop(r, m) PROVE Plane!PlaneNext
      BY <3>1, StillIsPlane DEF SetSpeaking, SetHop, SetFigures
    <3>2. ASSUME NEW r, NEW s, NEW m, NEW k, DropSubscription(r, s, m, k) PROVE Plane!PlaneNext
      BY <3>2, EndsOnly, StillIsPlane
    <3> QED BY <2>5, <3>1, <3>2, ArrangesQuietly, QuietIsPlane DEF UnitIsArranged
  <2>6. CASE UNCHANGED vars
    BY <2>6 DEF vars, roomVars, Plane!planeVars, Seats
  <2> QED BY <2>1, <2>2, <2>3, <2>4, <2>5, <2>6 DEF Next
<1> QED BY <1>1, <1>2, InitIInv, NextIInv, PTL DEF Spec, PlaneSpec, Plane!PlaneSpec
=============================================================================
