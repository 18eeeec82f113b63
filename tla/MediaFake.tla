------------------------------ MODULE MediaFake ------------------------------
(* The in-memory implementation of the media port (internal/media/fake),     *)
(* which every test above the port runs against, with the misbehaviours a    *)
(* test can induce in it.  Each operation holds the lock from begin to its   *)
(* return, so a call is one step.  A room is what of the relations below     *)
(* names it.                                                                 *)
EXTENDS MediaPort, FiniteSets
CONSTANTS Offered,      \* the capability sets callers admit with
          Limits,       \* room limits a test sets; negative is no limit
          Ranges,       \* gain ranges a test sets, as <<low, high>>
          Gains,        \* gains callers ask for
          MaxSeats,     \* bound: admissions at one time
          MaxInduced    \* bound: settings away from New's, and figures, at one time

ASSUME OfferedAssumption == Offered \subseteq SUBSET Capabilities

VARIABLES
  open,      \* the rooms there are
  draining,  \* those of them that drain
  caps,      \* a function from the seats taken, <<room, member>>, to capabilities
  sources,   \* <<room, member, kind>> for each source present
  subs,      \* <<room, subscriber, source member, source kind>>
  observed,  \* <<room, member, figure>> for each figure a test has set
  unit,      \* what a test set of the unit
  refusal    \* the operation just refused with an error not common to all

roomVars == <<open, draining, caps, sources, subs, observed>>
vars == <<roomVars, unit, refusal>>

Seats == DOMAIN caps
Within(r, S) == {x \in S : x[1] = r}
Figures == {"speaking", "hop"}

New == [unreachable |-> FALSE, roomLimit |-> -1, gainSupported |-> FALSE,
        gainRange |-> <<0, 4>>, observable |-> TRUE, admissionTimesOut |-> {},
        roomCreationFails |-> {}, sourceNeverArrives |-> {},
        capsNotExpressible |-> {}]

Induced(u, figures) == Cardinality({f \in DOMAIN u : u[f] # New[f]}) + Cardinality(figures)

NoRefusal == [op |-> "none", err |-> Ok]

Init ==
  /\ open = {} /\ draining = {} /\ caps = << >> /\ sources = {} /\ subs = {}
  /\ observed = {} /\ unit = New /\ refusal = NoRefusal

-----------------------------------------------------------------------------
(* begin: the caller's deadline first, then whether the unit is there.       *)
Begin(late) == IF late THEN "ErrCancelled"
               ELSE IF unit.unreachable THEN "ErrUnavailable" ELSE Ok

(* The call is recorded with its error; refused, it has changed nothing.     *)
Answers(op, err) ==
  /\ refusal' = IF err \in {Ok} \cup Common THEN NoRefusal ELSE [op |-> op, err |-> err]
  /\ UNCHANGED unit

Fails(op, err) == err # Ok /\ Answers(op, err) /\ UNCHANGED roomVars

(* How every operation begins, and ends when begin answers an error.         *)
NeverBegins(op) == \E late \in BOOLEAN : Fails(op, Begin(late))

Refuses(op, err) == ~ unit.unreachable /\ Fails(op, err)

Does(op, err) == ~ unit.unreachable /\ err = Ok /\ Answers(op, err)

MemberOf(r, m) == IF r \notin open THEN "ErrNoSuchRoom"
                  ELSE IF <<r, m>> \notin Seats THEN "ErrNoSuchMember" ELSE Ok

CreationError(r) ==
  IF r = Nameless THEN "ErrInvalidIdentity"
  ELSE IF r \in open THEN Ok
  ELSE IF \/ r \in unit.roomCreationFails
          \/ unit.roomLimit >= 0 /\ Cardinality(open) >= unit.roomLimit
  THEN "ErrRoomLimitReached" ELSE Ok

CreateRoom(r) ==
  LET err == CreationError(r)
  IN \/ Refuses("CreateRoom", err)
     \/ /\ Does("CreateRoom", err)
        /\ open' = open \cup {r}
        /\ UNCHANGED <<draining, caps, sources, subs, observed>>

(* Mutation of DestroyRoom: a room made anew still drains.                   *)
DestroyRoomDraining(r) ==
  LET err == IF r = Nameless THEN "ErrInvalidIdentity" ELSE Ok
  IN \/ Refuses("DestroyRoom", err)
     \/ /\ Does("DestroyRoom", err)
        /\ open' = open \ {r} /\ UNCHANGED draining
        /\ caps' = [s \in Seats \ Within(r, Seats) |-> caps[s]]
        /\ sources' = sources \ Within(r, sources)
        /\ subs' = subs \ Within(r, subs)
        /\ observed' = observed \ Within(r, observed)

DestroyRoom(r) ==
  LET err == IF r = Nameless THEN "ErrInvalidIdentity" ELSE Ok
  IN \/ Refuses("DestroyRoom", err)
     \/ /\ Does("DestroyRoom", err)
        /\ open' = open \ {r} /\ draining' = draining \ {r}
        /\ caps' = [s \in Seats \ Within(r, Seats) |-> caps[s]]
        /\ sources' = sources \ Within(r, sources)
        /\ subs' = subs \ Within(r, subs)
        /\ observed' = observed \ Within(r, observed)

(* Mutation of AdmissionError: a drain that gave up admits again.            *)
AdmissionErrorOnceDrained(r, m, set) ==
  IF Nameless \in {r, m} THEN "ErrInvalidIdentity"
  ELSE IF <<r, m>> \in unit.admissionTimesOut THEN "ErrCancelled"
  ELSE IF r \notin open THEN "ErrNoSuchRoom"
  ELSE IF <<r, m>> \in Seats THEN "ErrMemberAlreadyAdmitted"
  ELSE IF unit.capsNotExpressible \cap set # {}
  THEN "ErrPermissionsNotExpressible" ELSE Ok

AdmissionError(r, m, set) ==
  IF Nameless \in {r, m} THEN "ErrInvalidIdentity"
  ELSE IF <<r, m>> \in unit.admissionTimesOut THEN "ErrCancelled"
  ELSE IF r \notin open THEN "ErrNoSuchRoom"
  ELSE IF <<r, m>> \in Seats THEN "ErrMemberAlreadyAdmitted"
  ELSE IF unit.capsNotExpressible \cap set # {}
  THEN "ErrPermissionsNotExpressible"
  ELSE IF r \in draining THEN "ErrNoSuchRoom" ELSE Ok

AdmitMember(r, m, set) ==
  LET err == AdmissionError(r, m, set)
  IN \/ Refuses("AdmitMember", err)
     \/ /\ Does("AdmitMember", err)
        /\ Cardinality(Seats) < MaxSeats
        /\ caps' = [s \in Seats \cup {<<r, m>>} |-> IF s = <<r, m>> THEN set ELSE caps[s]]
        /\ UNCHANGED <<open, draining, sources, subs, observed>>

RevokeMember(r, m) ==
  LET err == IF r \notin open THEN "ErrNoSuchRoom" ELSE Ok
  IN \/ Refuses("RevokeMember", err)
     \/ /\ Does("RevokeMember", err)
        /\ caps' = [s \in Seats \ {<<r, m>>} |-> caps[s]]
        /\ observed' = {o \in observed : <<o[1], o[2]>> # <<r, m>>}
        /\ sources' = {s \in sources : <<s[1], s[2]>> # <<r, m>>}
        /\ subs' = {s \in subs : ~ (s[1] = r /\ m \in {s[2], s[3]})}
        /\ UNCHANGED <<open, draining>>

PublishError(r, m, k) ==
  IF InvalidKind(k) THEN "ErrInvalidIdentity"
  ELSE IF MemberOf(r, m) # Ok THEN MemberOf(r, m)
  ELSE IF Publishing(k) \notin caps[<<r, m>>] THEN "ErrNotPermitted"
  ELSE IF <<r, m, k>> \in sources THEN "ErrSourceAlreadyPublished" ELSE Ok

(* A publish may be answered yes and the source never arrive.                *)
PublishSource(r, m, k) ==
  LET err == PublishError(r, m, k)
  IN \/ Refuses("PublishSource", err)
     \/ /\ Does("PublishSource", err)
        /\ sources' = IF <<m, k>> \in unit.sourceNeverArrives THEN sources
                      ELSE sources \cup {<<r, m, k>>}
        /\ UNCHANGED <<open, draining, caps, subs, observed>>

(* Mutation of UnpublishSource: whoever received the source still does.      *)
UnpublishSourceOnly(r, m, k) ==
  LET err == IF InvalidKind(k) THEN "ErrInvalidIdentity" ELSE MemberOf(r, m)
  IN \/ Refuses("UnpublishSource", err)
     \/ /\ Does("UnpublishSource", err)
        /\ sources' = sources \ {<<r, m, k>>}
        /\ UNCHANGED <<open, draining, caps, subs, observed>>

UnpublishSource(r, m, k) ==
  LET err == IF InvalidKind(k) THEN "ErrInvalidIdentity" ELSE MemberOf(r, m)
  IN \/ Refuses("UnpublishSource", err)
     \/ /\ Does("UnpublishSource", err)
        /\ sources' = sources \ {<<r, m, k>>}
        /\ subs' = {s \in subs : <<s[1], s[3], s[4]>> # <<r, m, k>>}
        /\ UNCHANGED <<open, draining, caps, observed>>

SubscribeError(r, s, m, k) ==
  IF InvalidKind(k) THEN "ErrInvalidIdentity"
  ELSE IF MemberOf(r, s) # Ok THEN MemberOf(r, s)
  ELSE IF <<r, m>> \notin Seats THEN "ErrNoSuchMember"
  ELSE IF "MaySubscribe" \notin caps[<<r, s>>] THEN "ErrNotPermitted"
  ELSE IF <<r, m, k>> \notin sources THEN "ErrNoSuchSource" ELSE Ok

Subscribe(r, s, m, k) ==
  LET err == SubscribeError(r, s, m, k)
  IN \/ Refuses("Subscribe", err)
     \/ /\ Does("Subscribe", err)
        /\ subs' = subs \cup {<<r, s, m, k>>}
        /\ UNCHANGED <<open, draining, caps, sources, observed>>

Unsubscribe(r, s, m, k) ==
  LET err == IF InvalidKind(k) THEN "ErrInvalidIdentity" ELSE MemberOf(r, s)
  IN \/ Refuses("Unsubscribe", err)
     \/ /\ Does("Unsubscribe", err)
        /\ subs' = subs \ {<<r, s, m, k>>}
        /\ UNCHANGED <<open, draining, caps, sources, observed>>

(* Mutation of GainError: the room and the member are looked up first.       *)
GainErrorOfMember(r, s, m, k, gain) ==
  IF MemberOf(r, s) # Ok THEN MemberOf(r, s)
  ELSE IF ~ unit.gainSupported THEN "ErrGainNotSupported"
  ELSE IF <<r, s, m, k>> \notin subs THEN "ErrNoSuchSubscription"
  ELSE IF gain < unit.gainRange[1] \/ gain > unit.gainRange[2]
  THEN "ErrGainOutOfRange" ELSE Ok

GainError(r, s, m, k, gain) ==
  IF ~ unit.gainSupported THEN "ErrGainNotSupported"
  ELSE IF <<r, s, m, k>> \notin subs THEN "ErrNoSuchSubscription"
  ELSE IF gain < unit.gainRange[1] \/ gain > unit.gainRange[2]
  THEN "ErrGainOutOfRange" ELSE Ok

(* The gain is answered for and kept nowhere.                                *)
SetSubscriberGain(r, s, m, k, gain) ==
  LET err == GainError(r, s, m, k, gain)
  IN \/ Refuses("SetSubscriberGain", err)
     \/ Does("SetSubscriberGain", err) /\ UNCHANGED roomVars

(* SpeakingState and HopMetrics: a figure per member, read and not changed.  *)
Observe(op, r) ==
  LET err == IF r \notin open THEN "ErrNoSuchRoom"
             ELSE IF ~ unit.observable THEN "ErrNotObservable" ELSE Ok
  IN \/ Refuses(op, err)
     \/ Does(op, err) /\ UNCHANGED roomVars

(* The room drains from now on, also when the drain gives up.                *)
DrainRoom(r) ==
  LET err == IF r \notin open THEN "ErrNoSuchRoom"
             ELSE IF Within(r, Seats) # {} THEN "ErrDrainDeadlineExceeded" ELSE Ok
  IN \/ Refuses("DrainRoom", err) /\ err # "ErrDrainDeadlineExceeded"
     \/ /\ ~ unit.unreachable
        /\ err \in {Ok, "ErrDrainDeadlineExceeded"}
        /\ Answers("DrainRoom", err)
        /\ draining' = draining \cup {r}
        /\ UNCHANGED <<open, caps, sources, subs, observed>>

-----------------------------------------------------------------------------
(* What a test sets: the unit's limits and capabilities, and its faults.     *)
Arranges(u) ==
  /\ Induced(u, observed) =< MaxInduced
  /\ unit' = u /\ refusal' = NoRefusal /\ UNCHANGED roomVars

Toggled(S, x) == IF x \in S THEN S \ {x} ELSE S \cup {x}

SetUnreachable == Arranges([unit EXCEPT !.unreachable = ~ @])
SetRoomLimit(n) == Arranges([unit EXCEPT !.roomLimit = n])
SetGainSupported == Arranges([unit EXCEPT !.gainSupported = ~ @])
SetGainRange(range) == Arranges([unit EXCEPT !.gainRange = range])
SetObservable == Arranges([unit EXCEPT !.observable = ~ @])
FailRoomCreation(r) == Arranges([unit EXCEPT !.roomCreationFails = Toggled(@, r)])
TimeOutAdmission(r, m) == Arranges([unit EXCEPT !.admissionTimesOut = Toggled(@, <<r, m>>)])
NeverDeliverSource(m, k) == Arranges([unit EXCEPT !.sourceNeverArrives = Toggled(@, <<m, k>>)])
RefuseCapability(c) == Arranges([unit EXCEPT !.capsNotExpressible = Toggled(@, c)])

(* The figure a room will report of anybody, member or not.                  *)
SetFigures(r, figures) ==
  /\ r \in open
  /\ observed' = figures
  /\ Induced(unit, figures) =< MaxInduced
  /\ refusal' = NoRefusal
  /\ UNCHANGED <<open, draining, caps, sources, subs, unit>>

SetSpeaking(r, m) == SetFigures(r, Toggled(observed, <<r, m, "speaking">>))
SetHop(r, m) == SetFigures(r, observed \cup {<<r, m, "hop">>})

DropSubscription(r, s, m, k) ==
  /\ r \in open
  /\ subs' = subs \ {<<r, s, m, k>>}
  /\ refusal' = NoRefusal
  /\ UNCHANGED <<open, draining, caps, sources, observed, unit>>

-----------------------------------------------------------------------------
RoomIDs == Rooms \cup {Nameless}
MemberIDs == Members \cup {Nameless}
SourceKinds == Kinds \cup {UndefinedKind}

RoomIsCalled ==
  \E r \in RoomIDs :
    \/ CreateRoom(r) \/ DestroyRoom(r) \/ DrainRoom(r)
    \/ \E op \in {"SpeakingState", "HopMetrics"} : Observe(op, r)

MemberIsCalled ==
  \E r \in RoomIDs, m \in MemberIDs :
    \/ RevokeMember(r, m)
    \/ \E set \in Offered : AdmitMember(r, m, set)
    \/ \E k \in SourceKinds : PublishSource(r, m, k) \/ UnpublishSource(r, m, k)

SubscriptionIsCalled ==
  \E r \in Rooms, s, m \in Members, k \in SourceKinds :
    \/ Subscribe(r, s, m, k) \/ Unsubscribe(r, s, m, k)
    \/ \E gain \in Gains : SetSubscriberGain(r, s, m, k, gain)

UnitIsArranged ==
  \/ SetUnreachable \/ SetGainSupported \/ SetObservable
  \/ \E n \in Limits : SetRoomLimit(n)
  \/ \E range \in Ranges : SetGainRange(range)
  \/ \E c \in Capabilities : RefuseCapability(c)
  \/ \E r \in Rooms : FailRoomCreation(r)
  \/ \E m \in Members, k \in Kinds : NeverDeliverSource(m, k)
  \/ \E r \in Rooms, m \in Members :
       TimeOutAdmission(r, m) \/ SetSpeaking(r, m) \/ SetHop(r, m)
  \/ \E r \in Rooms, s, m \in Members, k \in Kinds : DropSubscription(r, s, m, k)

Next ==
  \/ \E op \in Operations : NeverBegins(op)
  \/ RoomIsCalled \/ MemberIsCalled \/ SubscriptionIsCalled \/ UnitIsArranged

Spec == Init /\ [][Next]_vars

-----------------------------------------------------------------------------
TypeOK ==
  /\ open \subseteq Rooms /\ draining \subseteq open
  /\ Seats \subseteq open \X Members /\ caps \in [Seats -> SUBSET Capabilities]
  /\ sources \subseteq Rooms \X Members \X Kinds
  /\ subs \subseteq Rooms \X Members \X Members \X Kinds
  /\ observed \subseteq open \X Members \X Figures
  /\ DOMAIN unit = DOMAIN New
  /\ refusal \in [op : Operations \cup {"none"}, err : Errors \cup {Ok}]

(* Whatever is sent in a room is sent by somebody admitted to it who may     *)
(* send that kind, and whatever is received is there and received by         *)
(* somebody admitted who may receive: through refused admissions, second     *)
(* admissions, revocations, drains, sources that never arrive and            *)
(* subscriptions the unit lost (AdmitMember, RevokeMember, UnpublishSource). *)
Rights ==
  /\ \A x \in sources : /\ <<x[1], x[2]>> \in Seats
                        /\ Publishing(x[3]) \in caps[<<x[1], x[2]>>]
  /\ \A x \in subs : /\ <<x[1], x[2]>> \in Seats
                     /\ "MaySubscribe" \in caps[<<x[1], x[2]>>]
                     /\ <<x[1], x[3], x[4]>> \in sources

(* port.go:165-168: an error not in an operation's list cannot come out of   *)
(* that operation, whatever was set of the unit and however the checks       *)
(* before it are ordered.                                                    *)
AnswersAreDeclared ==
  refusal.op # "none" => refusal.err \in DeclaredBy[refusal.op]

(* The fake is a media plane: with who sits where, what drains and who is    *)
(* subscribed to whom, each of its steps is one the port promises.           *)
Plane == INSTANCE MediaPlane WITH inside <- Seats, closing <- draining, flows <- subs
PlaneSpec == Plane!PlaneSpec
=============================================================================
