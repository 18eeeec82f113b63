---------------------------- MODULE ResumeServer ----------------------------
(***************************************************************************)
(* One space's presence hub and its register of suspended clients, driven  *)
(* by the one owner that makes both sets of calls.  The server that will   *)
(* own them is not in the tree; what it does with their answers is the rig *)
(* of internal/orchestration/resume_test.go: flush tells the register      *)
(* which channels the flush moved, settle reports a leave for every member *)
(* Reap returns.                                                           *)
(*                                                                         *)
(* place, found and unsent are not in the code.  place is the channel a    *)
(* member's own last report asked for, or was shown in when a connection   *)
(* of theirs last began or went.  found is what the register still held    *)
(* for a session when its connection began, and "rejoined" once a member   *)
(* who came too late, and was shown in a channel still, has joined again.  *)
(* unsent are the channels in which somebody else moved and of which a     *)
(* client has not been sent anything since.                                *)
(***************************************************************************)
EXTENDS PresenceHub, Sequences

CONSTANTS
  Watchers,   \* clients that stay attached and subscribed to every channel
  Window,     \* how long a suspended client's place is held
  Breadth,    \* how many channels a suspension names
  MaxSeq,     \* bound: how many reports are made about one member
  MaxTime     \* bound: the last instant of the clock

ASSUME WatchersAssumption == Watchers \subseteq Clients
ASSUME WindowAssumption == Window \in Nat \ {0}

VARIABLES
  now, revision, held, order, reaping, walk, gone,   \* the register's
  leaving,                                           \* reaped, their leave unreported
  place, found, unsent                               \* history

Register == INSTANCE Resumptions WITH Sessions <- Clients

ASSUME NoSuspensionAssumption ==
  None \notin Register!Suspensions /\ None \notin Register!Refusals

vars == <<hubVars, now, revision, held, order, reaping, walk, gone, leaving, place, found, unsent>>

Sessions == Clients \ Watchers

(* The owner is inside settle while a Reap is under way or a leave still   *)
(* to be reported.                                                         *)
Idle == ~reaping /\ leaving = <<>>

-----------------------------------------------------------------------------
(* newResumeRig: every channel known and visible, the watchers subscribed. *)
Init ==
  /\ InitProjection
  /\ known = Channels
  /\ grants = {ViewerOf[cl] : cl \in Clients} \X Channels
  /\ attached = Watchers
  /\ subscribed = [cl \in Clients |-> IF cl \in Watchers THEN Channels ELSE {}]
  /\ pending = [c \in Channels |-> Quiet]
  /\ Register!InitRegister
  /\ leaving = <<>>
  /\ place = [m \in Members |-> Zero]
  /\ found = [cl \in Clients |-> "nothing"]
  /\ unsent = [cl \in Clients |-> {}]

SentEverything(client) == unsent' = [unsent EXCEPT ![client] = {}]

(* What a connection that begins finds held for its session.  A ticket for *)
(* a place whose window has passed is refused and leaves it held, with its *)
(* member still shown in a channel or in none.                             *)
Found(session) ==
  IF ~Register!Held(session) THEN "nothing"
  ELSE IF Register!Expired(session) /\ present[ViewerOf[session]] # NotPresent THEN "late"
  ELSE "held"

StaysInPlace(session) ==
  place' = [place EXCEPT ![ViewerOf[session]] = present[ViewerOf[session]].channel]

(* A member's own session connects normally: the first time, with no       *)
(* ticket, or after its ticket was refused.  The hub does not ask the      *)
(* register.                                                               *)
Connects(session) ==
  /\ Idle
  /\ Attach(session)
  /\ SentEverything(session)
  /\ found' = [found EXCEPT ![session] = Found(session)]
  /\ StaysInPlace(session)
  /\ UNCHANGED <<now, revision, held, order, reaping, walk, gone, leaving>>

(* The connection goes: the hub forgets the client and the register holds  *)
(* the member's place.  It refuses a session it holds already, whose       *)
(* window goes on from where it began.                                     *)
Drops(session) ==
  /\ Idle
  /\ now + Window <= MaxTime
  /\ Detach(session)
  /\ IF Register!Held(session)
       THEN UNCHANGED <<revision, held, order, reaping, walk, gone>>
       ELSE Register!Suspend(session, ViewerOf[session])
  /\ found' = [found EXCEPT ![session] = "nothing"]
  /\ StaysInPlace(session)
  /\ UNCHANGED <<now, leaving, unsent>>

(* A ticket is presented on an authenticated connection.  An accepted one  *)
(* attaches the client, and the answer brings it up to date; a refused one *)
(* changes nothing.                                                        *)
Resumes(session, folded) ==
  /\ Idle
  /\ Register!Resume(session, folded, ViewerOf[session])
  /\ Attach(session)
  /\ SentEverything(session)
  /\ UNCHANGED <<now, leaving, place, found>>

(* The channels a report moves, owed from now on to everybody else.        *)
Owed(client, r) ==
  IF Moves(r) /\ ViewerOf[client] # r.member
    THEN {present[r.member].channel, r.state.channel} \ {Zero}
    ELSE {}

Reports(r) ==
  /\ HubApply(r)
  /\ unsent' = [cl \in Clients |-> unsent[cl] \cup Owed(cl, r)]

(* A connected member joins a channel, mutes, or leaves.                   *)
MemberReports(session, state) ==
  LET m == ViewerOf[session] IN
  /\ Idle
  /\ session \in attached \ Watchers
  /\ seq[m] < MaxSeq
  /\ Reports(Report(m, seq[m] + 1, state))
  /\ place' = [place EXCEPT ![m] = state.channel]
  /\ found' = IF found[session] = "late" /\ state.channel # Zero
                THEN [found EXCEPT ![session] = "rejoined"] ELSE found
  /\ UNCHANGED <<now, revision, held, order, reaping, walk, gone, leaving>>

(* Connected, or taken to be for as long as the place is held.             *)
Connected(session) == session \in attached \/ Register!Held(session)

SessionsOf(member) == {s \in Sessions : ViewerOf[s] = member}

(* settle: every member whose window has run out ...                       *)
SettleBegins ==
  /\ Idle
  /\ Register!ReapBegins
  /\ UNCHANGED <<hubVars, now, leaving, place, found, unsent>>

SettleJudges ==
  /\ Register!ReapJudges
  /\ UNCHANGED <<hubVars, now, leaving, place, found, unsent>>

SettleReturns ==
  /\ Register!ReapReturns
  /\ leaving' = gone
  /\ UNCHANGED <<hubVars, now, place, found, unsent>>

(* Mutation of LeaveIsReported: the leave carries the sequence last used.  *)
LeaveRepeatsItsSequence ==
  /\ leaving # <<>>
  /\ LET m == Head(leaving) IN Reports(Report(m, seq[m], NotPresent))
  /\ leaving' = Tail(leaving)
  /\ UNCHANGED <<now, revision, held, order, reaping, walk, gone, place, found>>

(* ... is reported as having left, with the member's next sequence.        *)
LeaveIsReported ==
  /\ leaving # <<>>
  /\ LET m == Head(leaving) IN Reports(Report(m, seq[m] + 1, NotPresent))
  /\ leaving' = Tail(leaving)
  /\ UNCHANGED <<now, revision, held, order, reaping, walk, gone, place, found>>

(* Mutation of MovedIn: only the counts of a delivery are read.            *)
MovedInCounts ==
  {c \in Channels : \E cl \in attached : CountSent(cl, c, {})}

(* flush: the channels named in any delivery are the batch that is         *)
(* published.                                                              *)
MovedIn ==
  {c \in Channels : \E cl \in attached : CountSent(cl, c, {}) \/ MembersSent(cl, c, {})}

IntervalEnds ==
  /\ Idle
  /\ Flush
  /\ Register!Published(MovedIn)
  /\ unsent' = [cl \in Clients |-> IF cl \in attached THEN {} ELSE unsent[cl]]
  /\ UNCHANGED <<now, leaving, place, found>>

ClockMoves ==
  /\ now < MaxTime
  /\ Register!Tick
  /\ UNCHANGED <<hubVars, leaving, place, found, unsent>>

Next ==
  \/ \E s \in Sessions : Connects(s) \/ Drops(s)
  \/ \E s \in Sessions, f \in 0..revision : Resumes(s, f)
  \/ \E s \in Sessions, state \in States : MemberReports(s, state)
  \/ SettleBegins
  \/ SettleJudges
  \/ SettleReturns
  \/ LeaveIsReported
  \/ IntervalEnds
  \/ ClockMoves

Spec == Init /\ [][Next]_vars

FairSpec ==
  Spec /\ WF_vars(ClockMoves) /\ WF_vars(SettleBegins) /\ WF_vars(SettleJudges)
       /\ WF_vars(SettleReturns) /\ WF_vars(LeaveIsReported)

-----------------------------------------------------------------------------
TypeOK ==
  /\ HubTypeOK
  /\ now \in Nat /\ revision \in Nat
  /\ held \in [Clients -> Register!Suspensions \cup {None}]
  /\ order \in Seq(Clients)
  /\ walk \in Seq(Clients) /\ reaping \in BOOLEAN
  /\ gone \in Seq(Members) /\ leaving \in Seq(Members)
  /\ place \in [Members -> Channels \cup {Zero}]
  /\ found \in [Clients -> {"nothing", "held", "late", "rejoined"}]
  /\ unsent \in [Clients -> SUBSET Channels]

(* Nobody is shown in a channel with no connection, no place held and no   *)
(* leave about to be reported: a drop always ends in a resume or a leave.  *)
NobodyIsAGhost ==
  \A m \in Members : present[m] # NotPresent =>
    \/ \E s \in SessionsOf(m) : Connected(s)
    \/ \E i \in DOMAIN leaving : leaving[i] = m
    \/ reaping /\ \E i \in DOMAIN gone : gone[i] = m

InWindow(session) == Register!Held(session) /\ ~Register!Expired(session)

(* resume.go: below the window the member's occupancy is never released.   *)
(* A member who dropped is where they were for as long as the window runs, *)
(* and where they asked to be once they came back inside it, or connected  *)
(* with nothing held: no other drop, refused ticket, settlement or leave   *)
(* moves them.                                                             *)
PlaceIsKept ==
  \A s \in Sessions :
    found[s] = "nothing" /\ (s \in attached \/ InWindow(s))
      => present[ViewerOf[s]].channel = place[ViewerOf[s]]

(* resume.go: above the window the client rejoins normally, "which is one  *)
(* leave and then one join".  A member whose ticket came too late, who was *)
(* told to join normally and did, is where they joined: the leave that the *)
(* place before still owes does not come after the join.                   *)
LeaveThenJoin ==
  \A s \in Sessions :
    found[s] = "rejoined" => present[ViewerOf[s]].channel = place[ViewerOf[s]]

(* A suspension that can still name what its client missed names every     *)
(* channel that moved since the client was last sent anything of it, or a  *)
(* flush that will name it is still to come.                               *)
MissedNamesWhatMoved ==
  \A s \in Sessions : Register!Held(s) =>
    (held[s].missed # None =>
       \A c \in unsent[s] : c \in held[s].missed \/ pending[c] # Quiet)

(* A member none of whose sessions is connected any more is eventually     *)
(* shown in no channel, unless one of them comes back.                     *)
AbsenteesLeave ==
  \A m \in Members :
    (SessionsOf(m) \cap attached = {} /\ present[m] # NotPresent)
      ~> (SessionsOf(m) \cap attached # {} \/ present[m] = NotPresent)
=============================================================================
