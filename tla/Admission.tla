------------------------------- MODULE Admission -------------------------------
(* From a request to an authenticated connection: the transport's handler,   *)
(* the version, and Admit (internal/auth/authenticate.go), whose read, whose *)
(* lookup and whose opening of the gate are three steps; while people        *)
(* authenticate, sessions are revoked and the clock moves.  The function     *)
(* Handler serves a connection with is not in the tree: it negotiates once,  *)
(* closes when that fails, tries Admit again when that fails, and reads      *)
(* frames once it succeeded, as the tests of the three packages do.          *)
EXTENDS Signalling
CONSTANTS Tokens, Owners, Logins, Lifetime, MaxTime,
          Transit,    \* what the deployment guarantees of the way here
          Invented,   \* a token nobody was given
          HelloSent,  \* payloads peers put in a hello beside a proposal
          MaxFrames   \* bound: frames a peer writes ahead of the server

ASSUME LifetimeAssumption == Lifetime \in Nat \ {0}
ASSUME BoundsAssumption == MaxTime \in Nat /\ MaxFrames \in Nat
ASSUME InventedAssumption == Invented \notin Tokens
ASSUME HelloAssumption == HelloSent \subseteq Messages

VARIABLES now, held, opening, proven, given, revoked,
          stage,    \* where the connection's goroutine is
          version,  \* what Negotiate returned
          token,    \* the payload Admit read
          session,  \* what Lookup returned
          dead      \* history: whether that token bought nothing when it was read

Table == INSTANCE Sessions

ASSUME NoneAssumption == /\ None \notin Tokens \cup {Invented} /\ None \notin Nat
                         /\ None \notin Table!SessionsSeen

serveVars == <<stage, version, token, session, dead>>
tableVars == <<now, held, opening, proven, given, revoked>>
vars == <<connVars, tableVars, serveVars>>

Confidential(tls) == Transit = "TLSTerminatedAhead" \/ tls

Init ==
  /\ InitConns /\ Table!InitTable
  /\ stage = [c \in Conns |-> "none"] /\ version = [c \in Conns |-> None]
  /\ token = [c \in Conns |-> None] /\ session = [c \in Conns |-> None]
  /\ dead = [c \in Conns |-> FALSE]

-----------------------------------------------------------------------------
(* Handler: a request that is not confidential makes no connection.          *)
Handles(c, tls) ==
  /\ stage[c] = "none" /\ Confidential(tls)
  /\ stage' = [stage EXCEPT ![c] = "connected"]
  /\ UNCHANGED <<connVars, tableVars, version, token, session, dead>>

Negotiates(c, writeFails, err) ==
  /\ stage[c] = "connected"
  /\ Negotiate(c, writeFails, err)
  /\ stage' = [stage EXCEPT ![c] = IF err = Ok THEN "agreed" ELSE "closed"]
  /\ version' = [version EXCEPT ![c] = IF err = Ok THEN Proposed(c) ELSE None]
  /\ UNCHANGED <<tableVars, token, session, dead>>

(* Admit reads a frame ...                                                   *)
AdmitReads(c, err) ==
  /\ stage[c] = "agreed"
  /\ ReadFrame(c, err)
  /\ IF err # Ok THEN UNCHANGED <<stage, token, dead>>
     ELSE /\ stage' = [stage EXCEPT ![c] = "read"]
          /\ token' = [token EXCEPT ![c] = Head(wire[c]).payload]
          /\ dead' = [dead EXCEPT ![c] = ~ Table!Live(token'[c])]
  /\ UNCHANGED <<tableVars, version, session>>

(* ... looks the session up ...                                              *)
AdmitLooksUp(c, err) ==
  /\ stage[c] = "read"
  /\ err = Table!Lookup(token[c])
  /\ stage' = [stage EXCEPT ![c] = IF err = Ok THEN "found" ELSE "agreed"]
  /\ session' = [session EXCEPT ![c] = IF err = Ok THEN held[token[c]] ELSE None]
  /\ token' = [token EXCEPT ![c] = None]
  /\ dead' = [dead EXCEPT ![c] = err = Ok /\ @]
  /\ UNCHANGED <<connVars, tableVars, version>>

(* ... and opens the gate.                                                   *)
AdmitMarks(c) ==
  /\ stage[c] = "found"
  /\ MarkAuthenticated(c)
  /\ stage' = [stage EXCEPT ![c] = "served"]
  /\ UNCHANGED <<tableVars, version, token, session, dead>>

ServesFrame(c, err) ==
  /\ stage[c] = "served"
  /\ ReadFrame(c, err)
  /\ UNCHANGED <<tableVars, serveVars>>

Closes(c) ==
  /\ stage[c] \in {"agreed", "served"}
  /\ stage' = [stage EXCEPT ![c] = "closed"]
  /\ UNCHANGED <<connVars, tableVars, version, token, session, dead>>

(* A peer writes anything at any time; of the tokens it may know, those that *)
(* were given out.                                                           *)
Frames ==
  {HelloFrame(v) : v \in 0..MaxSupportedVersion + 1}
    \cup [kind : {Hello}, payload : HelloSent]
    \cup [kind : {Authenticate}, payload : given \cup {Invented}]
    \cup [kind : {Reserved, SpaceState, 9}, payload : {None}]
    \cup [kind : {SpaceState}, payload : {TooLarge}]

PeerWrites(c, f) ==
  /\ stage[c] \notin {"none", "closed"} /\ ~ ended[c] /\ Len(wire[c]) < MaxFrames
  /\ wire' = [wire EXCEPT ![c] = Append(@, f)]
  /\ UNCHANGED <<ended, reply, authenticated, refused, result, tableVars, serveVars>>

PeerEnds(c) ==
  /\ stage[c] \notin {"none", "closed"} /\ ~ ended[c]
  /\ ended' = [ended EXCEPT ![c] = TRUE]
  /\ UNCHANGED <<wire, reply, authenticated, refused, result, tableVars, serveVars>>

TableMoves ==
  /\ \/ Table!Tick
     \/ \E l \in Logins : Table!Opens(l)
     \/ \E t \in Tokens : Table!Revoke(t)
     \/ \E l \in Logins, o \in Owners, right \in BOOLEAN, t \in Tokens,
           account \in {"held", "unknown", "malformed", "unreadable"} :
             Table!Authenticates(l, o, account, right, t)
  /\ UNCHANGED <<connVars, serveVars>>

Next ==
  \/ TableMoves
  \/ \E c \in Conns :
       \/ AdmitMarks(c) \/ Closes(c) \/ PeerEnds(c)
       \/ \E tls \in BOOLEAN : Handles(c, tls)
       \/ \E f \in Frames : PeerWrites(c, f)
       \/ \E fails \in BOOLEAN : Negotiates(c, fails, NegotiationError(c, fails))
       \/ AdmitReads(c, ReadError(c)) \/ ServesFrame(c, ReadError(c))
       \/ AdmitLooksUp(c, Table!Lookup(token[c]))

Spec == Init /\ [][Next]_vars

-----------------------------------------------------------------------------
ReadErrors == {Ok, "io.EOF", "ErrFrameTooLarge", "ErrKindReserved",
               "ErrUnauthenticated", "ErrUnknownMessage"}

Stages == {"none", "connected", "agreed", "read", "found", "served", "closed"}

TypeOK ==
  /\ now \in 0..MaxTime /\ DOMAIN held \subseteq Tokens
  /\ held \in [DOMAIN held -> Table!SessionsSeen]
  /\ opening \in [Logins -> Table!SessionsSeen \cup {None}]
  /\ proven \subseteq Tokens \X Owners /\ given \subseteq Tokens /\ revoked \subseteq Tokens
  /\ \A c \in Conns : Len(wire[c]) =< MaxFrames
  /\ ended \in [Conns -> BOOLEAN] /\ authenticated \in [Conns -> BOOLEAN]
  /\ refused \in [Conns -> {Ok, "ErrUnauthenticated", "ErrUnknownMessage"}]
  /\ result \in [Conns -> ReadErrors \cup {None}]
  /\ stage \in [Conns -> Stages] /\ dead \in [Conns -> BOOLEAN]
  /\ version \in [Conns -> Nat \cup {None}]
  /\ session \in [Conns -> Table!SessionsSeen \cup {None}]

(* An open gate stands for somebody who proved who they are: its session was *)
(* opened by an Authenticate whose credential matched the stored one of that *)
(* name, whatever is sent on the connection and in whatever order tables,    *)
(* logins and frames are served (Authenticate, Open, Lookup, Admit).         *)
OnlyTheProvenAreAdmitted ==
  \A c \in Conns : authenticated[c] =>
    /\ session[c] # None
    /\ session[c].id \in given /\ <<session[c].id, session[c].owner>> \in proven

(* A token that had been revoked, or had expired, when a connection's frame  *)
(* was read never opens that connection's gate.  A revocation after the      *)
(* lookup comes too late: Admit does not look again before it opens it.      *)
DeadTokensAdmitNobody ==
  \A c \in Conns : authenticated[c] => ~ dead[c]

(* conn.go: a refusal is terminal.  A refused connection is never let in;    *)
(* what its peer writes stays unread; and every later read returns the error *)
(* the connection was refused with, never a frame and no other error.        *)
RefusalsAreFinal ==
  [][\A c \in Conns : refused[c] # Ok =>
       /\ refused'[c] = refused[c] /\ result'[c] = refused[c]
       /\ wire'[c] = wire[c] \/ \E f \in Frames : wire'[c] = Append(wire[c], f)
       /\ authenticated'[c] = authenticated[c]
       /\ stage'[c] \in {stage[c], "closed"}]_vars

(* Both ends hold the same version and the server speaks it; a refused       *)
(* client was told the range and is served nothing (Negotiate,               *)
(* AgreedVersion, RefusedVersions).                                          *)
BothHoldTheVersion ==
  \A c \in Conns :
    /\ stage[c] \in {"agreed", "read", "found", "served"} =>
         /\ InRange(version[c])
         /\ reply[c].kind = VersionAgreed /\ AgreedVersion(reply[c]) = version[c]
    /\ reply[c] # None /\ stage[c] = "closed" /\ version[c] = None =>
         /\ reply[c].kind = VersionRefused
         /\ RefusedVersions(reply[c]) = <<MinSupportedVersion, MaxSupportedVersion>>

(* docs/privacy.md: a session is kept until its owner revokes it.  Every     *)
(* token ever given out is in the list of whoever proved to be its owner,    *)
(* and in nobody else's, until then: also when it has expired, when lookups  *)
(* found it expired, and when sessions enter the table in another order than *)
(* they were opened in (Open, Lookup, Revoke, List).                         *)
SessionsAreAccountedFor ==
  \A o \in Owners :
    {s.id : s \in Table!List(o)} = {t \in given \ revoked : <<t, o>> \in proven}
=============================================================================
