----------------------------- MODULE Resumptions -----------------------------
(***************************************************************************)
(* The register of suspended clients (internal/orchestration/resume.go):   *)
(* a client whose connection went keeps its member's place for a window;   *)
(* inside it a ticket resumes the session, after it Reap reports the       *)
(* member gone.  Every published batch of change has a revision, and a     *)
(* suspension collects the channels that moved while its client was away,  *)
(* until they are too many to name.                                        *)
(*                                                                         *)
(* The register's owner makes one call at a time.  Every call but Reap     *)
(* reads the clock once at most and is one action.  Reap asks the clock    *)
(* again for every suspension it walks, and the clock moves under it: it   *)
(* is one action per suspension, between which only the clock acts.        *)
(***************************************************************************)
EXTENDS Integers, Sequences, FiniteSets

CONSTANTS
  Sessions,   \* the sessions a client may claim continuity with
  Members,    \* identifiers of members
  Channels,   \* identifiers of channels
  Window,     \* how long a place is held, in ticks of the clock
  Breadth,    \* how many channels a suspension names before it gives up
  None        \* no suspension; a nil set; no refusal

ASSUME WindowAssumption == Window \in Nat \ {0}
ASSUME BreadthAssumption == Breadth \in Nat \ {0}
ASSUME ChannelsAssumption == IsFiniteSet(Channels)

VARIABLES
  now,        \* the injected clock
  revision,   \* the highest revision published
  held,       \* session -> its suspension, or None
  order,      \* the suspended sessions in the order they suspended
  reaping,    \* whether a Reap is under way
  walk,       \* the sessions that Reap has still to judge
  gone        \* the members that Reap is going to return

registerVars == <<revision, held, order, reaping, walk, gone>>

-----------------------------------------------------------------------------
(* missed is None once the suspension can no longer say what was missed.   *)
Suspensions ==
  [member : Members, deadline : Nat, from : Nat, missed : (SUBSET Channels) \cup {None}]

Refusals ==
  {"ErrNoSuspension", "ErrResumeWindowPassed", "ErrResumeNotYours", "ErrResumeAhead"}

ASSUME NoneAssumption ==
  /\ None \notin Suspensions
  /\ None \notin Refusals
  /\ \A channels \in SUBSET Channels : None # channels

Held(session) == held[session] # None

(* Grace.Expired: the deadline itself counts as expired.                   *)
Expired(session) == held[session].deadline <= now

(* forget: the session leaves both the map and the order.                  *)
PositionOf(session) == CHOOSE i \in DOMAIN order : order[i] = session

(* Mutation of Forget: the session stays in the order.                     *)
ForgetInTheMap(session) ==
  held' = [held EXCEPT ![session] = None] /\ UNCHANGED order

Forget(session) ==
  /\ held' = [held EXCEPT ![session] = None]
  /\ order' = LET k == PositionOf(session) IN
                SubSeq(order, 1, k - 1) \o SubSeq(order, k + 1, Len(order))

(* Mutation of Collected: a breadth of n names n - 1 channels.             *)
CollectedBelowBreadth(missed, channels) ==
  IF missed = None THEN None
  ELSE IF Cardinality(missed \cup channels) >= Breadth THEN None
  ELSE missed \cup channels

(* A batch's channels added to what a suspension missed.                   *)
Collected(missed, channels) ==
  IF missed = None THEN None
  ELSE IF Cardinality(missed \cup channels) > Breadth THEN None
  ELSE missed \cup channels

-----------------------------------------------------------------------------
InitRegister ==
  /\ now = 0
  /\ revision = 0
  /\ held = [s \in Sessions |-> None]
  /\ order = <<>>
  /\ reaping = FALSE
  /\ walk = <<>>
  /\ gone = <<>>

(* A batch touching no channel is not a batch: it leaves the revision      *)
(* where it is and records nothing.                                        *)
Published(channels) ==
  /\ ~reaping
  /\ IF channels = {}
       THEN UNCHANGED <<revision, held>>
       ELSE /\ revision' = revision + 1
            /\ held' = [s \in Sessions |->
                          IF Held(s)
                            THEN [held[s] EXCEPT !.missed = Collected(@, channels)]
                            ELSE None]
  /\ UNCHANGED <<order, reaping, walk, gone>>

(* Mutation of Suspend: the newest suspension goes first.                  *)
SuspendInFront(session, member) ==
  /\ ~reaping
  /\ ~Held(session)
  /\ held' = [held EXCEPT ![session] =
                [member |-> member, deadline |-> now + Window,
                 from |-> revision, missed |-> {}]]
  /\ order' = <<session>> \o order
  /\ UNCHANGED <<revision, reaping, walk, gone>>

(* Refused, and without effect, for a session that is suspended already.   *)
Suspend(session, member) ==
  /\ ~reaping
  /\ ~Held(session)
  /\ held' = [held EXCEPT ![session] =
                [member |-> member, deadline |-> now + Window,
                 from |-> revision, missed |-> {}]]
  /\ order' = Append(order, session)
  /\ UNCHANGED <<revision, reaping, walk, gone>>

(* Mutation of Refusal: whose place it is is not asked.                    *)
RefusalToNobody(session, folded, member) ==
  IF ~Held(session) THEN "ErrNoSuspension"
  ELSE IF Expired(session) THEN "ErrResumeWindowPassed"
  ELSE IF folded > revision THEN "ErrResumeAhead"
  ELSE None

(* The four refusals in the order they are decided, None for a ticket that *)
(* passes all four.  A refused ticket changes nothing.                     *)
Refusal(session, folded, member) ==
  IF ~Held(session) THEN "ErrNoSuspension"
  ELSE IF Expired(session) THEN "ErrResumeWindowPassed"
  ELSE IF held[session].member # member THEN "ErrResumeNotYours"
  ELSE IF folded > revision THEN "ErrResumeAhead"
  ELSE None

(* Mutation of Difference: what the client folded is not looked at.        *)
DifferenceAsRecorded(session, folded) == held[session].missed

(* What an accepted ticket is answered: the channels that moved, or None   *)
(* when the register can no longer tell and everything follows.            *)
Difference(session, folded) ==
  IF folded < held[session].from THEN None ELSE held[session].missed

(* Mutation of Resume: the suspension is not forgotten.                    *)
ResumeKeeping(session, folded, member) ==
  /\ ~reaping
  /\ Refusal(session, folded, member) = None
  /\ UNCHANGED <<revision, held, order, reaping, walk, gone>>

(* An accepted ticket is good once: the suspension is forgotten.           *)
Resume(session, folded, member) ==
  /\ ~reaping
  /\ Refusal(session, folded, member) = None
  /\ Forget(session)
  /\ UNCHANGED <<revision, reaping, walk, gone>>

(* Reap walks a copy of the order ...                                      *)
ReapBegins ==
  /\ ~reaping
  /\ reaping' = TRUE
  /\ walk' = order
  /\ gone' = <<>>
  /\ UNCHANGED <<revision, held, order>>

(* Mutation of ReapJudges: the order is walked while it shrinks, so that   *)
(* whoever follows a forgotten session is passed over.                     *)
ReapJudgesEverySecond ==
  /\ reaping
  /\ walk # <<>>
  /\ IF Expired(Head(walk))
       THEN /\ gone' = Append(gone, held[Head(walk)].member)
            /\ Forget(Head(walk))
            /\ walk' = SubSeq(walk, 3, Len(walk))
       ELSE walk' = Tail(walk) /\ UNCHANGED <<gone, held, order>>
  /\ UNCHANGED <<revision, reaping>>

(* Mutation of ReapJudges: who is gone is reported and kept.               *)
ReapJudgesKeeping ==
  /\ reaping
  /\ walk # <<>>
  /\ gone' = IF Expired(Head(walk)) THEN Append(gone, held[Head(walk)].member) ELSE gone
  /\ walk' = Tail(walk)
  /\ UNCHANGED <<revision, held, order, reaping>>

(* Mutation of ReapJudges: who is gone is forgotten and not reported.      *)
ReapJudgesSilently ==
  /\ reaping
  /\ walk # <<>>
  /\ IF Expired(Head(walk)) THEN Forget(Head(walk)) ELSE UNCHANGED <<held, order>>
  /\ walk' = Tail(walk)
  /\ UNCHANGED <<revision, reaping, gone>>

(* ... judges one suspension after the other ...                           *)
ReapJudges ==
  /\ reaping
  /\ walk # <<>>
  /\ IF Expired(Head(walk))
       THEN /\ gone' = Append(gone, held[Head(walk)].member)
            /\ Forget(Head(walk))
       ELSE UNCHANGED <<gone, held, order>>
  /\ walk' = Tail(walk)
  /\ UNCHANGED <<revision, reaping>>

(* ... and returns the members whose place is no longer held.              *)
ReapReturns ==
  /\ reaping
  /\ walk = <<>>
  /\ reaping' = FALSE
  /\ UNCHANGED <<revision, held, order, walk, gone>>

Tick == now' = now + 1 /\ UNCHANGED registerVars
=============================================================================
