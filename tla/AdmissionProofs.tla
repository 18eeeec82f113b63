--------------------------- MODULE AdmissionProofs ---------------------------
(***************************************************************************)
(* What the way to an authenticated connection keeps for any number of     *)
(* connections, logins and tokens and whatever peers write: an open gate   *)
(* stands for somebody who proved who they are, and a refusal is final.    *)
(***************************************************************************)
EXTENDS Admission, TLAPS

(* The table holds the sessions that were given out and not revoked, each  *)
(* under its own token and for its own owner; what a login has drawn was   *)
(* drawn for somebody who proved who they are, and no other login's and no *)
(* holder's token is it.                                                   *)
TableInv ==
  /\ DOMAIN held = given \ revoked
  /\ \A t \in DOMAIN held : held[t].id = t /\ <<t, held[t].owner>> \in proven
  /\ revoked \subseteq given
  /\ \A t \in Tokens, o \in Owners, p \in Owners :
       <<t, o>> \in proven /\ <<t, p>> \in proven => o = p
  /\ \A t \in Tokens, o \in Owners : <<t, o>> \in proven =>
       t \in given \/ \E l \in Logins : opening[l] # None /\ opening[l].id = t
  /\ \A l \in Logins : opening[l] # None =>
       /\ opening[l].id \notin given /\ <<opening[l].id, opening[l].owner>> \in proven
       /\ \A k \in Logins \ {l} : opening[k] # None => opening[k].id # opening[l].id

TableTypeOK ==
  /\ now \in 0..MaxTime /\ DOMAIN held \subseteq Tokens
  /\ held \in [DOMAIN held -> Table!SessionsSeen]
  /\ opening \in [Logins -> Table!SessionsSeen \cup {None}]
  /\ proven \subseteq Tokens \X Owners /\ given \subseteq Tokens /\ revoked \subseteq Tokens

ConnTypeOK ==
  /\ wire \in [Conns -> Seq(Frames)] /\ \A c \in Conns : Len(wire[c]) =< MaxFrames
  /\ ended \in [Conns -> BOOLEAN] /\ authenticated \in [Conns -> BOOLEAN]
  /\ refused \in [Conns -> {Ok, "ErrUnauthenticated", "ErrUnknownMessage"}]
  /\ result \in [Conns -> ReadErrors \cup {None}]
  /\ reply \in [Conns -> {None, Refusal} \cup {Agreement(v) : v \in Nat}]
  /\ stage \in [Conns -> Stages] /\ dead \in [Conns -> BOOLEAN]
  /\ version \in [Conns -> Nat \cup {None}]
  /\ session \in [Conns -> Table!SessionsSeen \cup {None}]
  /\ DOMAIN token = Conns

(* The gate is shut until Admit opens it, and before that no refusal has   *)
(* been met on the connection; the last read of a refused one returned the *)
(* refusal.                                                                *)
GateInv(c) ==
  /\ authenticated[c] => stage[c] \in {"served", "closed"}
  /\ stage[c] \in {"none", "connected", "read", "found"} => refused[c] = Ok
  /\ refused[c] # Ok => result[c] = refused[c]

(* What Negotiate returned is what it wrote.                               *)
VersionInv(c) ==
  /\ \/ version[c] = None /\ reply[c] \in {None, Refusal}
     \/ /\ version[c] \in Nat /\ InRange(version[c])
        /\ reply[c] = Agreement(version[c])
  /\ stage[c] \in {"none", "connected"} => reply[c] = None
  /\ stage[c] \in {"agreed", "read", "found", "served"} => version[c] \in Nat

(* A token on its way through Admit is one that was given out, or nobody's;*)
(* if it was dead when it was read it is dead still.                       *)
TokenInv(c) ==
  /\ stage[c] = "read" => /\ token[c] \in given \cup {Invented}
                          /\ dead[c] => ~ Table!Live(token[c])
  /\ stage[c] = "found" \/ authenticated[c] =>
       /\ ~ dead[c]
       /\ session[c] # None /\ session[c].id \in given
       /\ <<session[c].id, session[c].owner>> \in proven

ConnInv == \A c \in Conns : GateInv(c) /\ VersionInv(c) /\ TokenInv(c)

IInv == TableTypeOK /\ TableInv /\ ConnTypeOK /\ ConnInv

-----------------------------------------------------------------------------
LEMMA InitInv == Init => IInv
<1> SUFFICES ASSUME Init PROVE IInv
  OBVIOUS
<1> USE DEF Init, InitConns, Table!InitTable
<1>1. TableTypeOK /\ TableInv
  BY BoundsAssumption DEF TableTypeOK, TableInv
<1>2. ConnTypeOK
  BY BoundsAssumption DEF ConnTypeOK, Stages, Ok
<1>3. ConnInv
  BY DEF ConnInv, GateInv, VersionInv, TokenInv
<1> QED BY <1>1, <1>2, <1>3 DEF IInv

LEMMA SequenceElement ==
  ASSUME NEW S, NEW s \in Seq(S), NEW i \in DOMAIN s
  PROVE  s[i] \in S
OBVIOUS

(* The first field of that number is a number, or reads as none.           *)
LEMMA VersionFieldType ==
  ASSUME NEW m \in Messages, NEW id
  PROVE  VersionField(m.fields, id) \in Nat \cup {Wide}
<1> DEFINE first == {i \in DOMAIN m.fields : /\ m.fields[i].id = id
                                             /\ \A j \in 1..i - 1 : m.fields[j].id # id}
<1>1. CASE first = {}
  BY <1>1 DEF VersionField
<1>2. CASE first # {}
  <2> DEFINE i == CHOOSE j \in first : TRUE
  <2>1. VersionField(m.fields, id) = m.fields[i].value
    BY <1>2 DEF VersionField
  <2>2. i \in DOMAIN m.fields
    BY <1>2
  <2>3. m.fields \in Seq([id : Nat, value : Nat \cup {Wide}])
    BY DEF Messages
  <2> HIDE DEF i
  <2>4. m.fields[i] \in [id : Nat, value : Nat \cup {Wide}]
    BY <2>2, <2>3, SequenceElement
  <2> QED BY <2>1, <2>4
<1> QED BY <1>1, <1>2

LEMMA HelloFrameType ==
  ASSUME NEW v \in Nat
  PROVE  HelloFrame(v).payload \in Messages
BY DEF HelloFrame, Message, Field, Messages

(* What Negotiate accepts is a number in the range.                        *)
LEMMA AcceptedIsInRange ==
  ASSUME ConnTypeOK, NEW c \in Conns, NEW fails, CanRead(c),
         NegotiationError(c, fails) = Ok
  PROVE  Proposed(c) \in Nat /\ InRange(Proposed(c))
<1> DEFINE f == Head(wire[c])
<1>1. HelloError(c) = Ok /\ InRange(Proposed(c))
  BY DEF NegotiationError, Ok
<1>2. DecodeError(c) = Ok /\ f.kind = Hello /\ Proposed(c) # Wide
  BY <1>1 DEF HelloError, Ok
<1>3. wire[c] # << >> /\ wire[c] \in Seq(Frames)
  BY <1>2 DEF DecodeError, Ok, ConnTypeOK
<1>4. f \in Frames
  BY <1>3
<1>5. f.payload \in Messages
  <2>1. CASE \E v \in 0..MaxSupportedVersion + 1 : f = HelloFrame(v)
    BY <2>1, HelloFrameType, VersionsAssumption
  <2>2. CASE f \in [kind : {Hello}, payload : HelloSent]
    BY <2>2, HelloAssumption
  <2> QED BY <1>2, <1>4, <2>1, <2>2
             DEF Frames, Hello, Authenticate, Reserved, SpaceState
<1>6. Proposed(c) \in Nat \cup {Wide}
  BY <1>5, VersionFieldType DEF Proposed
<1> QED BY <1>1, <1>2, <1>6

-----------------------------------------------------------------------------
(* What no step of the table undoes: what is proven or given out stays so, *)
(* and a token that was given out, or never drawn, does not come to life.  *)
TableKeeps ==
  /\ given \subseteq given' /\ proven \subseteq proven'
  /\ \A t \in given \cup {Invented} : ~ Table!Live(t) => ~ Table!Live(t)'

TableGood == TableTypeOK' /\ TableInv' /\ TableKeeps

LEMMA TickKeeps ==
  ASSUME TableTypeOK, TableInv, Table!Tick
  PROVE  TableGood
<1>1. TableTypeOK'
  BY BoundsAssumption DEF TableTypeOK, Table!Tick
<1>2. TableInv'
  BY DEF TableInv, Table!Tick
<1>3. TableKeeps
  <2> SUFFICES ASSUME NEW t \in DOMAIN held, ~ now < held[t].expires
               PROVE  ~ now + 1 < held[t].expires
    BY DEF TableKeeps, Table!Live, Table!Tick
  <2>1. held[t].expires \in Nat /\ now \in Nat
    BY DEF TableTypeOK, Table!SessionsSeen
  <2> QED BY <2>1
<1> QED BY <1>1, <1>2, <1>3 DEF TableGood

LEMMA AuthenticatesKeeps ==
  ASSUME TableTypeOK, TableInv,
         NEW l \in Logins, NEW o \in Owners, NEW account, NEW right, NEW t \in Tokens,
         Table!Authenticates(l, o, account, right, t),
         account \in {"held", "unknown", "malformed", "unreadable"}
  PROVE  TableGood
<1> USE DEF Table!Authenticates
<1>1. account = "held" /\ right
  BY DEF Table!Matched, Table!Ok
<1>2. proven' = proven \cup {<<t, o>>}
  BY <1>1
<1>3. Table!Session(t, o) \in Table!SessionsSeen /\ Table!Session(t, o).id = t
      /\ Table!Session(t, o).owner = o
  BY LifetimeAssumption, BoundsAssumption DEF TableTypeOK, Table!Session, Table!SessionsSeen
<1>4. TableTypeOK'
  BY <1>2, <1>3 DEF TableTypeOK
<1>5. TableInv'
  <2>1. \A k \in Logins : opening'[k] = IF k = l THEN Table!Session(t, o) ELSE opening[k]
    BY DEF TableTypeOK
  <2>2. \A k \in Logins : opening'[k] # None =>
          /\ opening'[k].id \notin given' /\ <<opening'[k].id, opening'[k].owner>> \in proven'
          /\ \A j \in Logins \ {k} : opening'[j] # None => opening'[j].id # opening'[k].id
    BY <1>2, <1>3, <2>1, NoneAssumption DEF TableInv
  <2>3. \A p \in Owners : <<t, p>> \notin proven
    BY DEF TableInv
  <2>4. \A u \in Tokens, p \in Owners, q \in Owners :
          <<u, p>> \in proven' /\ <<u, q>> \in proven' => p = q
    BY <1>2, <2>3 DEF TableInv
  <2>5. \A u \in Tokens, p \in Owners : <<u, p>> \in proven' =>
          u \in given' \/ \E k \in Logins : opening'[k] # None /\ opening'[k].id = u
    BY <1>2, <1>3, <2>1, NoneAssumption DEF TableInv
  <2> QED BY <1>2, <2>2, <2>4, <2>5 DEF TableInv
<1>6. TableKeeps
  BY <1>2 DEF TableKeeps, Table!Live
<1> QED BY <1>4, <1>5, <1>6 DEF TableGood

LEMMA OpensKeeps ==
  ASSUME TableTypeOK, TableInv, NEW l \in Logins, Table!Opens(l)
  PROVE  TableGood
<1> DEFINE s == opening[l]
<1>1. s \in Table!SessionsSeen /\ s.id \in Tokens /\ s.id \notin given
      /\ <<s.id, s.owner>> \in proven
  BY DEF Table!Opens, TableTypeOK, TableInv, Table!SessionsSeen
<1>2. /\ DOMAIN held' = DOMAIN held \cup {s.id}
      /\ held'[s.id] = s
      /\ \A t \in DOMAIN held \ {s.id} : held'[t] = held[t]
      /\ given' = given \cup {s.id}
      /\ opening' = [opening EXCEPT ![l] = None]
      /\ UNCHANGED <<now, proven, revoked>>
  BY DEF Table!Opens
<1>3. s.id \notin DOMAIN held /\ s.id \notin revoked
  BY <1>1 DEF TableInv
<1>4. \A t \in DOMAIN held' : held'[t] \in Table!SessionsSeen /\ held'[t].id = t
  <2>1. held \in [DOMAIN held -> Table!SessionsSeen] /\ \A t \in DOMAIN held : held[t].id = t
    BY DEF TableTypeOK, TableInv
  <2> QED BY <1>1, <1>2, <2>1
<1>5. TableTypeOK'
  <2>1. held' = [t \in DOMAIN held' |-> held'[t]]
    BY DEF Table!Opens
  <2> QED BY <1>1, <1>2, <1>4, <2>1 DEF TableTypeOK
<1>6. TableInv'
  <2>1. DOMAIN held' = given' \ revoked'
    BY <1>2, <1>3 DEF TableInv
  <2>2. \A k \in Logins : opening'[k] = IF k = l THEN None ELSE opening[k]
    BY <1>2 DEF TableTypeOK
  <2>3. \A k \in Logins : opening'[k] # None =>
          /\ opening'[k].id \notin given' /\ <<opening'[k].id, opening'[k].owner>> \in proven'
          /\ \A j \in Logins \ {k} : opening'[j] # None => opening'[j].id # opening'[k].id
    BY <1>2, <2>2 DEF TableInv, Table!Opens
  <2>4. \A u \in Tokens, p \in Owners : <<u, p>> \in proven' =>
          u \in given' \/ \E k \in Logins : opening'[k] # None /\ opening'[k].id = u
    BY <1>2, <2>2 DEF TableInv
  <2>5. \A t \in DOMAIN held' : <<t, held'[t].owner>> \in proven'
    BY <1>1, <1>2 DEF TableInv
  <2> QED BY <1>1, <1>2, <1>4, <2>1, <2>3, <2>4, <2>5 DEF TableInv
<1>7. TableKeeps
  <2>1. s.id \notin given \cup {Invented}
    BY <1>1, InventedAssumption
  <2> QED BY <1>2, <2>1 DEF TableKeeps, Table!Live
<1> QED BY <1>5, <1>6, <1>7 DEF TableGood

LEMMA RevokeKeeps ==
  ASSUME TableTypeOK, TableInv, NEW id \in Tokens, Table!Revoke(id)
  PROVE  TableGood
<1>1. /\ id \in DOMAIN held
      /\ DOMAIN held' = DOMAIN held \ {id}
      /\ \A t \in DOMAIN held' : held'[t] = held[t]
      /\ revoked' = revoked \cup {id}
      /\ UNCHANGED <<now, opening, proven, given>>
  BY DEF Table!Revoke
<1>2. TableTypeOK'
  <2>1. held' = [t \in DOMAIN held' |-> held'[t]]
    BY DEF Table!Revoke
  <2> QED BY <1>1, <2>1 DEF TableTypeOK
<1>3. TableInv'
  BY <1>1 DEF TableInv
<1>4. TableKeeps
  BY <1>1 DEF TableKeeps, Table!Live
<1> QED BY <1>2, <1>3, <1>4 DEF TableGood

-----------------------------------------------------------------------------
(* A table that moves moves nothing of a connection.                       *)
LEMMA TableMovesKeeps ==
  ASSUME IInv, TableMoves
  PROVE  IInv'
<1> USE DEF IInv
<1>1. TableGood
  BY TickKeeps, OpensKeeps, RevokeKeeps, AuthenticatesKeeps DEF TableMoves
<1>2. UNCHANGED <<connVars, serveVars>>
  BY DEF TableMoves
<1>3. \A c \in Conns : wire[c] \in Seq(Frames')
  <2>1. Frames \subseteq Frames'
    BY <1>1 DEF Frames, TableGood, TableKeeps
  <2>2. \A c \in Conns : wire[c] \in Seq(Frames)
    BY DEF ConnTypeOK
  <2> HIDE DEF IInv
  <2> QED BY <2>1, <2>2
<1>4. ConnTypeOK'
  BY <1>2, <1>3 DEF ConnTypeOK, connVars, serveVars
<1>5. ConnInv'
  BY <1>1, <1>2 DEF ConnInv, GateInv, VersionInv, TokenInv, TableGood, TableKeeps,
                    connVars, serveVars, InRange
<1> QED BY <1>1, <1>4, <1>5 DEF TableGood

LEMMA TableStays ==
  ASSUME IInv, UNCHANGED tableVars
  PROVE  /\ TableTypeOK' /\ TableInv' /\ Frames' = Frames
         /\ \A t : Table!Live(t)' = Table!Live(t)
BY DEF IInv, TableTypeOK, TableInv, Frames, tableVars, Table!Live

(* A read leaves a shorter stream of the frames that were written.         *)
LEMMA RestType ==
  ASSUME ConnTypeOK, NEW c \in Conns
  PROVE  Rest(c) \in Seq(Frames) /\ Len(Rest(c)) =< MaxFrames
<1>1. wire[c] \in Seq(Frames) /\ Len(wire[c]) =< MaxFrames
  BY DEF ConnTypeOK
<1> QED BY <1>1, BoundsAssumption DEF Rest

(* ReadFrame: what it keeps of the types, and that it refuses once.        *)
LEMMA ReadFrameKeeps ==
  ASSUME ConnTypeOK, NEW c \in Conns, NEW err, ReadFrame(c, err)
  PROVE  /\ wire' \in [Conns -> Seq(Frames)]
         /\ \A d \in Conns : Len(wire'[d]) =< MaxFrames
         /\ refused' \in [Conns -> {Ok, "ErrUnauthenticated", "ErrUnknownMessage"}]
         /\ \A d \in Conns : refused[d] # Ok => refused'[d] = refused[d]
         /\ \A d \in Conns \ {c} : refused'[d] = refused[d]
         /\ err = Ok => refused' = refused
         /\ \A d \in Conns : refused[d] # Ok => wire'[d] = wire[d]
         /\ result' \in [Conns -> ReadErrors \cup {None}]
         /\ result'[c] = err /\ \A d \in Conns \ {c} : result'[d] = result[d]
         /\ refused'[c] # Ok => err = refused'[c]
<1>1. \A d \in Conns : wire'[d] = IF refused[c] = Ok /\ d = c THEN Rest(c) ELSE wire[d]
  BY DEF ConnTypeOK, ReadFrame
<1>2. wire' \in [Conns -> Seq(Frames)]
  BY RestType DEF ConnTypeOK, ReadFrame
<1>3. \A d \in Conns : Len(wire'[d]) =< MaxFrames
  BY <1>1, RestType DEF ConnTypeOK
<1>4. refused[c] # Ok => err = refused[c]
  BY DEF ReadFrame, ReadError
<1>5. /\ refused' \in [Conns -> {Ok, "ErrUnauthenticated", "ErrUnknownMessage"}]
      /\ \A d \in Conns \ {c} : refused'[d] = refused[d]
  BY DEF ConnTypeOK, ReadFrame, Ok
<1>6. \A d \in Conns : refused[d] # Ok => refused'[d] = refused[d]
  BY <1>4 DEF ConnTypeOK, ReadFrame
<1>7. err = Ok => refused' = refused
  BY DEF ReadFrame, Ok
<1>8. err \in ReadErrors
  BY DEF ReadFrame, ReadError, FrameError, DecodeError, ReadErrors, Ok, ConnTypeOK
<1>9. /\ result' \in [Conns -> ReadErrors \cup {None}]
      /\ result'[c] = err /\ \A d \in Conns \ {c} : result'[d] = result[d]
  BY <1>8 DEF ReadFrame, ConnTypeOK
<1>10. refused'[c] # Ok => err = refused'[c]
  BY <1>4 DEF ReadFrame, ConnTypeOK, Ok
<1>11. \A d \in Conns : refused[d] # Ok => wire'[d] = wire[d]
  BY <1>1
<1> QED BY <1>2, <1>3, <1>5, <1>6, <1>7, <1>9, <1>10, <1>11

LEMMA HandlesKeeps ==
  ASSUME IInv, NEW c \in Conns, NEW tls, Handles(c, tls)
  PROVE  IInv'
<1> USE DEF IInv, Handles, connVars
<1>1. TableTypeOK' /\ TableInv' /\ Frames' = Frames /\ \A t : Table!Live(t)' = Table!Live(t)
  BY TableStays
<1>2. ConnTypeOK'
  BY <1>1 DEF ConnTypeOK, Stages
<1>3. ConnInv'
  BY <1>1 DEF ConnInv, GateInv, VersionInv, TokenInv, ConnTypeOK, tableVars, InRange
<1> QED BY <1>1, <1>2, <1>3

LEMMA NegotiatesKeeps ==
  ASSUME IInv, NEW c \in Conns, NEW fails, Negotiates(c, fails, NegotiationError(c, fails))
  PROVE  IInv'
<1> DEFINE err == NegotiationError(c, fails)
<1> USE DEF IInv
<1>1. TableTypeOK' /\ TableInv' /\ Frames' = Frames /\ \A t : Table!Live(t)' = Table!Live(t)
  BY TableStays DEF Negotiates
<1>2. CanRead(c) /\ (err = Ok => Proposed(c) \in Nat /\ InRange(Proposed(c)))
  BY AcceptedIsInRange DEF Negotiates, Negotiate
<1>3. wire' \in [Conns -> Seq(Frames')] /\ \A d \in Conns : Len(wire'[d]) =< MaxFrames
  BY <1>1, RestType DEF ConnTypeOK, Negotiates, Negotiate
<1> HIDE DEF err
<1>4. /\ stage[c] = "connected" /\ UNCHANGED <<ended, authenticated, refused, result, token, session, dead>>
      /\ stage' = [stage EXCEPT ![c] = IF err = Ok THEN "agreed" ELSE "closed"]
      /\ version' = [version EXCEPT ![c] = IF err = Ok THEN Proposed(c) ELSE None]
      /\ reply' = IF err = Ok THEN [reply EXCEPT ![c] = Agreement(Proposed(c))]
                  ELSE IF err = "ErrVersionUnsupported" THEN [reply EXCEPT ![c] = Refusal]
                  ELSE reply
  BY DEF Negotiates, Negotiate, err
<1>5. ConnTypeOK'
  BY <1>2, <1>3, <1>4 DEF ConnTypeOK, Stages
<1>6. ASSUME NEW d \in Conns
      PROVE  (GateInv(d) /\ VersionInv(d) /\ TokenInv(d))'
  <2>1. CASE d = c
    <3>1. GateInv(c)' /\ TokenInv(c)'
      BY <1>4 DEF ConnInv, ConnTypeOK, GateInv, TokenInv
    <3>2. VersionInv(c)'
      BY <1>2, <1>4, NoneAssumption
         DEF ConnInv, ConnTypeOK, VersionInv, InRange, GateInv
    <3> QED BY <2>1, <3>1, <3>2
  <2>2. CASE d # c
    <3>1. stage'[d] = stage[d] /\ version'[d] = version[d] /\ reply'[d] = reply[d]
      BY <1>4, <2>2 DEF ConnTypeOK
    <3> QED BY <1>1, <1>4, <3>1 DEF Negotiates, tableVars, ConnInv, GateInv, VersionInv, TokenInv, InRange
  <2> QED BY <2>1, <2>2
<1> QED BY <1>1, <1>5, <1>6 DEF ConnInv

LEMMA AuthenticateFrame ==
  ASSUME NEW f \in Frames, f.kind = Authenticate
  PROVE  f.payload \in given \cup {Invented}
<1>1. f \notin {HelloFrame(v) : v \in 0..MaxSupportedVersion + 1}
  <2>1. \A v : HelloFrame(v).kind = Hello
    BY DEF HelloFrame
  <2> QED BY <2>1 DEF Hello, Authenticate
<1>2. f \in [kind : {Authenticate}, payload : given \cup {Invented}]
  BY <1>1 DEF Frames, Hello, Authenticate, Reserved, SpaceState
<1> QED BY <1>2

LEMMA AdmitReadsKeeps ==
  ASSUME IInv, NEW c \in Conns, AdmitReads(c, ReadError(c))
  PROVE  IInv'
<1> DEFINE err == ReadError(c)
<1> USE DEF IInv
<1>1. TableTypeOK' /\ TableInv' /\ Frames' = Frames /\ \A t : Table!Live(t)' = Table!Live(t)
  BY TableStays DEF AdmitReads
<1>2. /\ stage[c] = "agreed" /\ ReadFrame(c, err)
      /\ UNCHANGED <<ended, reply, authenticated, version, session>>
      /\ UNCHANGED tableVars
  BY DEF AdmitReads, ReadFrame
<1>3. /\ wire' \in [Conns -> Seq(Frames)]
      /\ \A d \in Conns : Len(wire'[d]) =< MaxFrames
      /\ refused' \in [Conns -> {Ok, "ErrUnauthenticated", "ErrUnknownMessage"}]
      /\ \A d \in Conns \ {c} : refused'[d] = refused[d]
      /\ err = Ok => refused' = refused
      /\ result' \in [Conns -> ReadErrors \cup {None}]
      /\ result'[c] = err /\ \A d \in Conns \ {c} : result'[d] = result[d]
      /\ refused'[c] # Ok => err = refused'[c]
  BY <1>2, ReadFrameKeeps
<1>4. err = Ok => Head(wire[c]).payload \in given \cup {Invented} /\ refused[c] = Ok
  <2> SUFFICES ASSUME err = Ok
               PROVE  Head(wire[c]).payload \in given \cup {Invented} /\ refused[c] = Ok
    OBVIOUS
  <2>1. ~ authenticated[c]
    BY <1>2 DEF ConnInv, GateInv, ConnTypeOK
  <2>2. refused[c] = Ok /\ DecodeError(c) = Ok /\ Head(wire[c]).kind = Authenticate
    BY <2>1 DEF ReadError, FrameError, Ok
  <2>3. Head(wire[c]) \in Frames
    BY <2>2 DEF DecodeError, Ok, ConnTypeOK
  <2>4. Head(wire[c]).payload \in given \cup {Invented}
    BY <2>2, <2>3, AuthenticateFrame
  <2> QED BY <2>2, <2>4
<1>5. /\ err # Ok => UNCHANGED <<stage, token, dead>>
      /\ err = Ok => /\ stage' = [stage EXCEPT ![c] = "read"]
                    /\ token' = [token EXCEPT ![c] = Head(wire[c]).payload]
                    /\ dead' = [dead EXCEPT ![c] = ~ Table!Live(token'[c])]
  BY DEF AdmitReads
<1> HIDE DEF err
<1>6. err = Ok => /\ token'[c] = Head(wire[c]).payload
                  /\ dead' = [dead EXCEPT ![c] = ~ Table!Live(token'[c])]
                  /\ dead'[c] => ~ Table!Live(token'[c])
  BY <1>5 DEF ConnTypeOK
<1>7. ConnTypeOK'
  <2>1. (~ Table!Live(token'[c])) \in BOOLEAN
    OBVIOUS
  <2>2. dead' \in [Conns -> BOOLEAN]
    BY <1>5, <2>1 DEF ConnTypeOK
  <2> QED BY <1>1, <1>2, <1>3, <1>5, <2>2 DEF ConnTypeOK, Stages
<1>8. ASSUME NEW d \in Conns
      PROVE  (GateInv(d) /\ VersionInv(d) /\ TokenInv(d))'
  <2>1. VersionInv(d)'
    BY <1>2, <1>5 DEF ConnInv, VersionInv, ConnTypeOK, InRange
  <2>2. CASE d # c
    <3>1. stage'[d] = stage[d] /\ token'[d] = token[d] /\ dead'[d] = dead[d]
      BY <1>5, <2>2 DEF ConnTypeOK
    <3> QED BY <1>1, <1>2, <1>3, <2>1, <2>2, <3>1 DEF tableVars, ConnInv, GateInv, TokenInv
  <2>3. CASE d = c /\ err # Ok
    BY <1>2, <1>3, <1>5, <2>1, <2>3 DEF tableVars, ConnInv, GateInv, TokenInv
  <2>4. CASE d = c /\ err = Ok
    <3>1. stage'[c] = "read" /\ ~ authenticated[c] /\ refused'[c] = Ok
      BY <1>2, <1>3, <1>4, <1>5, <2>4 DEF ConnInv, GateInv, ConnTypeOK
    <3>2. token'[c] \in given \cup {Invented} /\ (dead'[c] => ~ Table!Live(token'[c]))
      BY <1>4, <1>6, <2>4
    <3>3. Table!Live(token[c])' = Table!Live(token'[c])
      BY <1>2 DEF Table!Live, tableVars
    <3> QED BY <1>2, <2>1, <2>4, <3>1, <3>2, <3>3 DEF GateInv, TokenInv, tableVars
  <2> QED BY <2>2, <2>3, <2>4
<1> QED BY <1>1, <1>7, <1>8 DEF ConnInv

LEMMA AdmitLooksUpKeeps ==
  ASSUME IInv, NEW c \in Conns, AdmitLooksUp(c, Table!Lookup(token[c]))
  PROVE  IInv'
<1> DEFINE err == Table!Lookup(token[c])
<1> USE DEF IInv
<1>1. TableTypeOK' /\ TableInv' /\ Frames' = Frames /\ \A t : Table!Live(t)' = Table!Live(t)
  BY TableStays DEF AdmitLooksUp
<1>2. /\ stage[c] = "read"
      /\ stage' = [stage EXCEPT ![c] = IF err = Ok THEN "found" ELSE "agreed"]
      /\ session' = [session EXCEPT ![c] = IF err = Ok THEN held[token[c]] ELSE None]
      /\ token' = [token EXCEPT ![c] = None]
      /\ dead' = [dead EXCEPT ![c] = err = Ok /\ dead[c]]
      /\ UNCHANGED <<connVars, tableVars, version>>
  BY DEF AdmitLooksUp, ConnTypeOK
<1>3. err = Ok => Table!Live(token[c])
  BY DEF Table!Lookup, Table!Live, Ok
<1>4. err = Ok => /\ held[token[c]] \in Table!SessionsSeen
                  /\ held[token[c]].id \in given
                  /\ <<held[token[c]].id, held[token[c]].owner>> \in proven
  BY <1>3 DEF Table!Live, TableTypeOK, TableInv
<1> HIDE DEF err
<1>5. ConnTypeOK'
  BY <1>1, <1>2, <1>4 DEF ConnTypeOK, Stages, connVars
<1>6. ASSUME NEW d \in Conns
      PROVE  (GateInv(d) /\ VersionInv(d) /\ TokenInv(d))'
  <2>1. GateInv(d)' /\ VersionInv(d)'
    BY <1>2 DEF ConnInv, GateInv, VersionInv, ConnTypeOK, InRange, connVars
  <2>2. CASE d # c
    <3>1. /\ stage'[d] = stage[d] /\ token'[d] = token[d] /\ dead'[d] = dead[d]
          /\ session'[d] = session[d]
      BY <1>2, <2>2 DEF ConnTypeOK
    <3> QED BY <1>1, <1>2, <2>1, <3>1 DEF connVars, tableVars, ConnInv, TokenInv
  <2>3. CASE d = c
    <3>1. ~ authenticated[c] /\ stage'[c] # "read"
      BY <1>2 DEF ConnInv, GateInv, ConnTypeOK
    <3>2. CASE err = Ok
      <4>1. ~ dead[c]
        BY <1>2, <1>3, <3>2 DEF ConnInv, TokenInv
      <4>2. session'[c] = held[token[c]] /\ ~ dead'[c]
        BY <1>2, <3>2, <4>1 DEF ConnTypeOK
      <4>3. /\ session'[c] # None /\ session'[c].id \in given
            /\ <<session'[c].id, session'[c].owner>> \in proven
        BY <1>4, <3>2, <4>2, NoneAssumption
      <4> QED BY <1>2, <2>1, <2>3, <3>1, <4>2, <4>3 DEF TokenInv, tableVars, connVars
    <3>3. CASE err # Ok
      BY <1>2, <2>1, <2>3, <3>1, <3>3 DEF TokenInv, ConnTypeOK, connVars
    <3> QED BY <3>2, <3>3
  <2> QED BY <2>2, <2>3
<1> QED BY <1>1, <1>5, <1>6 DEF ConnInv

LEMMA AdmitMarksKeeps ==
  ASSUME IInv, NEW c \in Conns, AdmitMarks(c)
  PROVE  IInv'
<1> USE DEF IInv, AdmitMarks, MarkAuthenticated
<1>1. TableTypeOK' /\ TableInv' /\ Frames' = Frames /\ \A t : Table!Live(t)' = Table!Live(t)
  BY TableStays
<1>2. ConnTypeOK'
  BY <1>1 DEF ConnTypeOK, Stages
<1>3. ConnInv'
  BY <1>1 DEF ConnInv, GateInv, VersionInv, TokenInv, ConnTypeOK, tableVars, InRange
<1> QED BY <1>1, <1>2, <1>3

LEMMA ServesFrameKeeps ==
  ASSUME IInv, NEW c \in Conns, ServesFrame(c, ReadError(c))
  PROVE  IInv'
<1> USE DEF IInv
<1>1. TableTypeOK' /\ TableInv' /\ Frames' = Frames /\ \A t : Table!Live(t)' = Table!Live(t)
  BY TableStays DEF ServesFrame
<1>2. /\ stage[c] = "served"
      /\ UNCHANGED <<ended, reply, authenticated>> /\ UNCHANGED <<tableVars, serveVars>>
      /\ wire' \in [Conns -> Seq(Frames)]
      /\ \A d \in Conns : Len(wire'[d]) =< MaxFrames
      /\ refused' \in [Conns -> {Ok, "ErrUnauthenticated", "ErrUnknownMessage"}]
      /\ \A d \in Conns \ {c} : refused'[d] = refused[d]
      /\ result' \in [Conns -> ReadErrors \cup {None}]
      /\ \A d \in Conns \ {c} : result'[d] = result[d]
      /\ refused'[c] # Ok => result'[c] = refused'[c]
  BY ReadFrameKeeps DEF ServesFrame, ReadFrame
<1>3. ConnTypeOK'
  BY <1>1, <1>2 DEF ConnTypeOK, serveVars
<1>4. ConnInv'
  BY <1>1, <1>2 DEF ConnInv, GateInv, VersionInv, TokenInv, tableVars, serveVars, InRange
<1> QED BY <1>1, <1>3, <1>4

LEMMA ClosesKeeps ==
  ASSUME IInv, NEW c \in Conns, Closes(c)
  PROVE  IInv'
<1> USE DEF IInv, Closes, connVars
<1>1. TableTypeOK' /\ TableInv' /\ Frames' = Frames /\ \A t : Table!Live(t)' = Table!Live(t)
  BY TableStays
<1>2. ConnTypeOK'
  BY <1>1 DEF ConnTypeOK, Stages
<1>3. ConnInv'
  BY <1>1 DEF ConnInv, GateInv, VersionInv, TokenInv, ConnTypeOK, tableVars, InRange
<1> QED BY <1>1, <1>2, <1>3

LEMMA PeerKeeps ==
  ASSUME IInv, NEW c \in Conns, PeerEnds(c) \/ \E f \in Frames : PeerWrites(c, f)
  PROVE  IInv'
<1> USE DEF IInv
<1>1. TableTypeOK' /\ TableInv' /\ Frames' = Frames /\ \A t : Table!Live(t)' = Table!Live(t)
  BY TableStays DEF PeerEnds, PeerWrites
<1>2. wire' \in [Conns -> Seq(Frames)] /\ \A d \in Conns : Len(wire'[d]) =< MaxFrames
  <2>1. CASE PeerEnds(c)
    BY <2>1 DEF PeerEnds, ConnTypeOK
  <2>2. ASSUME NEW f \in Frames, PeerWrites(c, f)
        PROVE  wire' \in [Conns -> Seq(Frames)] /\ \A d \in Conns : Len(wire'[d]) =< MaxFrames
    <3>1. /\ wire[c] \in Seq(Frames) /\ Len(wire[c]) < MaxFrames
          /\ wire' = [wire EXCEPT ![c] = Append(wire[c], f)]
      BY <2>2 DEF PeerWrites, ConnTypeOK
    <3>2. Append(wire[c], f) \in Seq(Frames) /\ Len(Append(wire[c], f)) =< MaxFrames
      BY <3>1, BoundsAssumption
    <3> QED BY <3>1, <3>2 DEF ConnTypeOK
  <2> QED BY <2>1, <2>2
<1>3. /\ UNCHANGED <<reply, authenticated, refused, result, tableVars, serveVars>>
      /\ ended' \in [Conns -> BOOLEAN]
  BY DEF PeerEnds, PeerWrites, ConnTypeOK
<1>4. ConnTypeOK'
  BY <1>1, <1>2, <1>3 DEF ConnTypeOK, serveVars
<1>5. ConnInv'
  BY <1>1, <1>3 DEF ConnInv, GateInv, VersionInv, TokenInv, tableVars, serveVars, InRange
<1> QED BY <1>1, <1>4, <1>5

LEMMA NextInv == ASSUME IInv, [Next]_vars PROVE IInv'
<1>1. CASE UNCHANGED vars
  <2>1. UNCHANGED <<connVars, tableVars, serveVars>>
    BY <1>1 DEF vars
  <2>2. TableTypeOK' /\ TableInv' /\ Frames' = Frames /\ \A t : Table!Live(t)' = Table!Live(t)
    BY <2>1, TableStays
  <2>3. ConnTypeOK'
    BY <2>1, <2>2 DEF connVars, serveVars, IInv, ConnTypeOK
  <2>4. ConnInv'
    BY <2>1, <2>2 DEF connVars, tableVars, serveVars, IInv, ConnInv, GateInv, VersionInv,
                      TokenInv, InRange
  <2> QED BY <2>2, <2>3, <2>4 DEF IInv
<1>2. CASE Next
  BY <1>2, TableMovesKeeps, HandlesKeeps, NegotiatesKeeps, AdmitReadsKeeps, AdmitLooksUpKeeps,
     AdmitMarksKeeps, ServesFrameKeeps, ClosesKeeps, PeerKeeps DEF Next
<1> QED BY <1>1, <1>2

LEMMA Invariance == Spec => []IInv
BY InitInv, NextInv, PTL DEF Spec

-----------------------------------------------------------------------------
(* Every variable keeps its type, for any number of connections, logins    *)
(* and tokens and whatever peers put into a hello.                         *)
THEOREM TypeCorrect == Spec => []TypeOK
<1>1. IInv => TypeOK
  BY DEF IInv, TableTypeOK, ConnTypeOK, TypeOK
<1> QED BY <1>1, Invariance, PTL

(* An open gate stands for somebody who proved who they are: Authenticate, *)
(* Open, Lookup and Admit let nobody else in, in whatever order they are   *)
(* served and whatever is sent (OnlyTheProvenAreAdmitted).                 *)
THEOREM AdmittedAreProven == Spec => []OnlyTheProvenAreAdmitted
<1>1. IInv => OnlyTheProvenAreAdmitted
  BY DEF IInv, ConnInv, TokenInv, OnlyTheProvenAreAdmitted
<1> QED BY <1>1, Invariance, PTL

(* A token that bought nothing when its frame was read opens no gate       *)
(* afterwards: no login brings a token that was given out back to life     *)
(* between Admit's read and its Lookup (DeadTokensAdmitNobody).            *)
THEOREM DeadStaysDead == Spec => []DeadTokensAdmitNobody
<1>1. IInv => DeadTokensAdmitNobody
  BY DEF IInv, ConnInv, TokenInv, DeadTokensAdmitNobody
<1> QED BY <1>1, Invariance, PTL

(* What a peer reads out of a reply is what the server wrote into it.      *)
LEMMA RepliesRead ==
  /\ \A v : Agreement(v).kind = VersionAgreed /\ AgreedVersion(Agreement(v)) = v
  /\ Refusal.kind = VersionRefused
  /\ RefusedVersions(Refusal) = <<MinSupportedVersion, MaxSupportedVersion>>
<1>1. ASSUME NEW v
      PROVE  Agreement(v).kind = VersionAgreed /\ AgreedVersion(Agreement(v)) = v
  <2> DEFINE fields == <<Field(1, v)>>
             first == {i \in DOMAIN fields : /\ fields[i].id = 1
                                             /\ \A j \in 1..i - 1 : fields[j].id # 1}
  <2>1. DOMAIN fields = {1} /\ fields[1].id = 1 /\ fields[1].value = v
    BY DEF Field
  <2>2. first = {1}
    BY <2>1
  <2>3. VersionField(fields, 1) = v
    BY <2>1, <2>2 DEF VersionField
  <2> QED BY <2>3 DEF AgreedVersion, Agreement, Message
<1>2. Refusal.kind = VersionRefused
  BY DEF Refusal
<1>3. RefusedVersions(Refusal) = <<MinSupportedVersion, MaxSupportedVersion>>
  <2> DEFINE fields == <<Field(1, MinSupportedVersion), Field(2, MaxSupportedVersion),
                         Field(3, Wide)>>
             First(id) == {i \in DOMAIN fields : /\ fields[i].id = id
                                                 /\ \A j \in 1..i - 1 : fields[j].id # id}
  <2>1. /\ DOMAIN fields = 1..3
        /\ fields[1].id = 1 /\ fields[1].value = MinSupportedVersion
        /\ fields[2].id = 2 /\ fields[2].value = MaxSupportedVersion
        /\ fields[3].id = 3
    BY DEF Field
  <2>2. Refusal.payload.fields = fields
    BY DEF Refusal, Message
  <2> HIDE DEF fields
  <2>3. First(1) = {1} /\ First(2) = {2}
    BY <2>1
  <2>4. VersionField(fields, 1) = MinSupportedVersion
    BY <2>1, <2>3 DEF VersionField
  <2>5. VersionField(fields, 2) = MaxSupportedVersion
    BY <2>1, <2>3 DEF VersionField
  <2> QED BY <2>2, <2>4, <2>5 DEF RefusedVersions
<1> QED BY <1>1, <1>2, <1>3

(* Whatever is proposed, in whatever fields: server and client hold the    *)
(* same version, it is one the server speaks, and a refused client was     *)
(* told the range (BothHoldTheVersion).                                    *)
THEOREM VersionsAgree == Spec => []BothHoldTheVersion
<1>1. IInv => BothHoldTheVersion
  <2> SUFFICES ASSUME IInv, NEW c \in Conns
               PROVE  /\ stage[c] \in {"agreed", "read", "found", "served"} =>
                           /\ InRange(version[c])
                           /\ reply[c].kind = VersionAgreed
                           /\ AgreedVersion(reply[c]) = version[c]
                      /\ reply[c] # None /\ stage[c] = "closed" /\ version[c] = None =>
                           /\ reply[c].kind = VersionRefused
                           /\ RefusedVersions(reply[c])
                                = <<MinSupportedVersion, MaxSupportedVersion>>
    BY DEF BothHoldTheVersion
  <2>1. VersionInv(c)
    BY DEF IInv, ConnInv
  <2> QED BY <2>1, RepliesRead, NoneAssumption DEF VersionInv
<1> QED BY <1>1, Invariance, PTL

(* Every token ever given out is in the list of whoever proved to be its   *)
(* owner and in no other, until it is revoked, for any number of logins    *)
(* that overlap (SessionsAreAccountedFor).                                 *)
THEOREM Accounted == Spec => []SessionsAreAccountedFor
<1>1. IInv => SessionsAreAccountedFor
  <2> SUFFICES ASSUME IInv, NEW o \in Owners
               PROVE  {s.id : s \in Table!List(o)} = {t \in given \ revoked : <<t, o>> \in proven}
    BY DEF SessionsAreAccountedFor
  <2>1. \A t \in DOMAIN held : held[t].id = t /\ held[t].owner \in Owners /\ t \in Tokens
    BY DEF IInv, TableInv, TableTypeOK, Table!SessionsSeen
  <2>2. \A t \in DOMAIN held : held[t].owner = o <=> <<t, o>> \in proven
    BY <2>1 DEF IInv, TableInv
  <2>3. {s.id : s \in Table!List(o)} = {t \in DOMAIN held : held[t].owner = o}
    BY <2>1 DEF Table!List
  <2>4. DOMAIN held = given \ revoked
    BY DEF IInv, TableInv
  <2> HIDE DEF IInv
  <2> QED BY <2>2, <2>3, <2>4
<1> QED BY <1>1, Invariance, PTL

(* A refused connection is never let in and read no further, whatever its  *)
(* peer goes on writing; every later read returns the error it was refused *)
(* with, in stage "agreed", where Admit is tried again, and in stage       *)
(* "served", where frames are read one after the other (RefusalsAreFinal). *)
THEOREM RefusedForGood == Spec => RefusalsAreFinal
<1> DEFINE Stays(c) == /\ refused'[c] = refused[c] /\ result'[c] = refused[c]
                       /\ wire'[c] = wire[c] \/ \E f \in Frames : wire'[c] = Append(wire[c], f)
                       /\ authenticated'[c] = authenticated[c]
                       /\ stage'[c] \in {stage[c], "closed"}
           Final == \A c \in Conns : refused[c] # Ok => Stays(c)
<1>1. ASSUME IInv, [Next]_vars PROVE Final
  <2> SUFFICES ASSUME NEW c \in Conns, refused[c] # Ok PROVE Stays(c)
    OBVIOUS
  <2>1. /\ stage[c] \in {"agreed", "served", "closed"} /\ result[c] = refused[c]
        /\ ConnTypeOK
    BY <1>1 DEF IInv, ConnInv, GateInv, ConnTypeOK, Stages
  <2>2. CASE UNCHANGED <<connVars, serveVars>>
    BY <2>1, <2>2 DEF connVars, serveVars
  <2>3. CASE TableMoves
    BY <2>2, <2>3 DEF TableMoves
  <2>4. ASSUME NEW d \in Conns, \/ AdmitMarks(d) \/ Closes(d) \/ PeerEnds(d)
                                \/ \E tls \in BOOLEAN : Handles(d, tls)
        PROVE  Stays(c)
    BY <2>1, <2>4 DEF AdmitMarks, MarkAuthenticated, Closes, PeerEnds, Handles,
                      ConnTypeOK, connVars, serveVars
  <2>5. ASSUME NEW d \in Conns, NEW f \in Frames, PeerWrites(d, f)
        PROVE  Stays(c)
    BY <2>1, <2>5 DEF PeerWrites, ConnTypeOK, serveVars
  <2>6. ASSUME NEW d \in Conns, NEW fails, Negotiates(d, fails, NegotiationError(d, fails))
        PROVE  Stays(c)
    BY <2>1, <2>6 DEF Negotiates, Negotiate, ConnTypeOK
  <2>7. ASSUME NEW d \in Conns, ReadFrame(d, ReadError(d))
        PROVE  /\ refused'[c] = refused[c] /\ result'[c] = refused[c]
               /\ wire'[c] = wire[c] /\ authenticated' = authenticated
    <3>1. c = d => ReadError(d) = refused[c]
      BY DEF ReadError
    <3> QED BY <2>1, <2>7, <3>1, ReadFrameKeeps DEF ReadFrame
  <2>8. ASSUME NEW d \in Conns, AdmitReads(d, ReadError(d))
        PROVE  Stays(c)
    <3>1. c = d => ReadError(d) # Ok
      BY DEF ReadError
    <3> QED BY <2>1, <2>7, <2>8, <3>1 DEF AdmitReads, ConnTypeOK
  <2>9. ASSUME NEW d \in Conns, AdmitLooksUp(d, Table!Lookup(token[d]))
        PROVE  Stays(c)
    BY <2>1, <2>9 DEF AdmitLooksUp, ConnTypeOK, connVars
  <2>10. ASSUME NEW d \in Conns, ServesFrame(d, ReadError(d))
        PROVE  Stays(c)
    BY <2>7, <2>10 DEF ServesFrame, serveVars
  <2> QED BY <1>1, <2>2, <2>3, <2>4, <2>5, <2>6, <2>8, <2>9, <2>10 DEF Next, vars
<1>2. Spec => [][Final]_vars
  <2>1. IInv /\ [Next]_vars => [Final]_vars
    BY <1>1
  <2> QED BY <2>1, Invariance, PTL DEF Spec
<1> QED BY <1>2 DEF RefusalsAreFinal

=============================================================================
