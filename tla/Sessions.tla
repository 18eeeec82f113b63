------------------------------- MODULE Sessions -------------------------------
(* The sessions a server has open (internal/auth/session.go) and the check   *)
(* that opens one (Authenticate in internal/auth/authenticate.go).  The      *)
(* table holds digests: a token is a model value here, drawn once, and the   *)
(* identifier drawn with it is the same value.  Open draws and reads the     *)
(* clock before it takes the lock, so it is two steps.                       *)
EXTENDS Integers, FiniteSets
CONSTANTS Tokens,    \* what randRead may draw; bound: how many sessions
          Owners,    \* the names of accounts
          Logins,    \* the goroutines that authenticate somebody
          Lifetime,  \* TokenLifetime
          MaxTime,   \* bound: the last instant of the clock
          None

VARIABLES now, held,   \* held: from the tokens in the table to their sessions
          opening,     \* what each login has drawn and not yet put there
          proven,      \* history: <<token, name>>, drawn for a name whose credential matched
          given,       \* history: tokens Open has returned
          revoked      \* history: tokens a Revoke removed

tableVars == <<now, held, opening, proven, given, revoked>>

Live(t) == t \in DOMAIN held /\ now < held[t].expires

Session(token, owner) ==
  [id |-> token, owner |-> owner, opened |-> now, expires |-> now + Lifetime]

SessionsSeen == [id : Tokens, owner : Owners, opened : Nat, expires : Nat]

InitTable == /\ now = 0 /\ held = << >> /\ opening = [l \in Logins |-> None]
             /\ proven = {} /\ given = {} /\ revoked = {}

Ok == "nil"

(* Mutation of Matched: an account is answered for whatever it was given.    *)
MatchedByName(account, right) ==
  IF account = "unreadable" THEN "reading the account"
  ELSE IF account = "malformed" THEN "parsing the stored credential"
  ELSE IF account = "unknown" THEN "ErrAuthentication" ELSE Ok

(* The account's stored credential against the one given.  An unknown name   *)
(* is verified against the decoy, which no credential matches.               *)
Matched(account, right) ==
  IF account = "unreadable" THEN "reading the account"
  ELSE IF account = "malformed" THEN "parsing the stored credential"
  ELSE IF account = "unknown" \/ ~ right THEN "ErrAuthentication" ELSE Ok

(* Authenticate, to where Open has drawn a token and read the clock.  Every  *)
(* other way through it, a failed draw among them, returns an error and      *)
(* changes nothing.                                                          *)
Authenticates(login, owner, account, right, token) ==
  /\ opening[login] = None
  /\ Matched(account, right) = Ok
  /\ \A l \in Logins : opening[l] # None => opening[l].id # token
  /\ token \notin given
  /\ opening' = [opening EXCEPT ![login] = Session(token, owner)]
  /\ proven' = IF account = "held" /\ right THEN proven \cup {<<token, owner>>} ELSE proven
  /\ UNCHANGED <<now, held, given, revoked>>

(* Open, under the lock, and its return.                                     *)
Opens(login) ==
  /\ opening[login] # None
  /\ LET s == opening[login] IN
     /\ held' = [t \in DOMAIN held \cup {s.id} |-> IF t = s.id THEN s ELSE held[t]]
     /\ given' = given \cup {s.id}
  /\ opening' = [opening EXCEPT ![login] = None]
  /\ UNCHANGED <<now, proven, revoked>>

(* Mutation of Lookup: a token is good for as long as it is in the table.    *)
LookupHeld(token) == IF token \notin DOMAIN held THEN "ErrNoSuchSession" ELSE Ok

Lookup(token) ==
  IF token \notin DOMAIN held THEN "ErrNoSuchSession"
  ELSE IF ~ now < held[token].expires THEN "ErrSessionExpired" ELSE Ok

(* Mutation of Revoke: a session that has expired is swept out in passing.   *)
RevokeSweeping(id) ==
  /\ id \in DOMAIN held
  /\ held' = [t \in {x \in DOMAIN held \ {id} : Live(x)} |-> held[t]]
  /\ revoked' = revoked \cup {id}
  /\ UNCHANGED <<now, opening, proven, given>>

(* Revoking an identifier nothing is held under reports so and changes       *)
(* nothing.                                                                  *)
Revoke(id) ==
  /\ id \in DOMAIN held
  /\ held' = [t \in DOMAIN held \ {id} |-> held[t]]
  /\ revoked' = revoked \cup {id}
  /\ UNCHANGED <<now, opening, proven, given>>

(* List: an owner's sessions, the expired ones included.                     *)
List(owner) == {held[t] : t \in {x \in DOMAIN held : held[x].owner = owner}}

Tick == now < MaxTime /\ now' = now + 1
        /\ UNCHANGED <<held, opening, proven, given, revoked>>
=============================================================================
