-------------------------- MODULE ResumptionsAlone --------------------------
(***************************************************************************)
(* The register of suspended clients driven by an owner that suspends,     *)
(* resumes, reaps and publishes in every order, with every ticket.         *)
(*                                                                         *)
(* log, answer and asked are not in the code.  log remembers the published *)
(* batches, answer what the last accepted ticket was answered, asked when  *)
(* the last Reap began.                                                    *)
(***************************************************************************)
EXTENDS Resumptions

CONSTANTS
  MaxTime,      \* bound: the last instant of the clock
  MaxRevision   \* bound: how many batches are published

ASSUME MaxTimeAssumption == MaxTime \in Nat
ASSUME MaxRevisionAssumption == MaxRevision \in Nat

VARIABLES
  log,      \* revision -> the channels of the batch it numbers
  answer,   \* the last accepted ticket and its answer, None after another call
  asked     \* the instant the last Reap began

vars == <<now, registerVars, log, answer, asked>>

-----------------------------------------------------------------------------
Init ==
  /\ InitRegister
  /\ log = <<>>
  /\ answer = None
  /\ asked = 0

Publishes(channels) ==
  /\ revision < MaxRevision
  /\ Published(channels)
  /\ log' = IF channels = {} THEN log ELSE Append(log, channels)
  /\ answer' = None
  /\ UNCHANGED <<now, asked>>

(* Nothing is suspended so late that the bound on the clock would keep its *)
(* window from running out.                                                *)
Suspends(session, member) ==
  /\ now + Window <= MaxTime
  /\ Suspend(session, member)
  /\ answer' = None
  /\ UNCHANGED <<now, log, asked>>

(* A ticket may fold any revision, one never published included.           *)
PresentsTicket(session, folded, member) ==
  /\ Resume(session, folded, member)
  /\ answer' = [session |-> session, member |-> member, folded |-> folded,
                missed |-> Difference(session, folded)]
  /\ UNCHANGED <<now, log, asked>>

StartsReaping == ReapBegins /\ asked' = now /\ answer' = None /\ UNCHANGED <<now, log>>

Reaps == (ReapJudges \/ ReapReturns) /\ UNCHANGED <<now, log, answer, asked>>

ClockMoves == now < MaxTime /\ Tick /\ UNCHANGED <<log, answer, asked>>

Next ==
  \/ \E c \in SUBSET Channels : Publishes(c)
  \/ \E s \in Sessions, m \in Members : Suspends(s, m)
  \/ \E s \in Sessions, f \in 0..MaxRevision + 1, m \in Members : PresentsTicket(s, f, m)
  \/ StartsReaping
  \/ Reaps
  \/ ClockMoves

Spec == Init /\ [][Next]_vars

(* Time passes, and the register's owner keeps asking who is gone.         *)
FairSpec == Spec /\ WF_vars(ClockMoves) /\ WF_vars(StartsReaping) /\ WF_vars(Reaps)

-----------------------------------------------------------------------------
Answers ==
  [session : Sessions, member : Members, folded : Nat, missed : (SUBSET Channels) \cup {None}]

ASSUME AnswerAssumption == None \notin Answers

TypeOK ==
  /\ now \in Nat /\ asked \in Nat
  /\ revision \in Nat
  /\ held \in [Sessions -> Suspensions \cup {None}]
  /\ order \in Seq(Sessions) /\ walk \in Seq(Sessions)
  /\ reaping \in BOOLEAN
  /\ gone \in Seq(Members)
  /\ answer \in Answers \cup {None}
  /\ log \in Seq(SUBSET Channels) /\ Len(log) = revision

(* The order lists every suspended session once and nothing else, and what *)
(* a Reap still walks is still held: it reads the suspension of every      *)
(* session without asking whether there is one.                            *)
OrderMatchesHeld ==
  /\ \A s \in Sessions : Held(s) <=> \E i \in DOMAIN order : order[i] = s
  /\ \A i, j \in DOMAIN order : order[i] = order[j] => i = j
  /\ \A i \in DOMAIN walk : Held(walk[i])

(* A window that began earlier ends no later, so the sessions due at one   *)
(* instant are the first ones of the order.                                *)
OrderedByDeadline ==
  \A i, j \in DOMAIN order :
    i < j => held[order[i]].deadline <= held[order[j]].deadline

(* The channels published after revision r.                                *)
MovedSince(r) == UNION {log[i] : i \in r + 1..revision}

(* A suspension knows exactly the channels published since its client      *)
(* dropped, or says it cannot tell, and it says so just when they are more *)
(* than it may name.                                                       *)
MissedIsTheGap ==
  \A s \in Sessions : Held(s) =>
    /\ held[s].from <= revision
    /\ held[s].missed = IF Cardinality(MovedSince(held[s].from)) > Breadth
                          THEN None ELSE MovedSince(held[s].from)

(* An answer that names a difference names every channel published after   *)
(* the revision the client says it folded, whichever revision that is.     *)
AnswerCoversTheGap ==
  answer # None =>
    (answer.missed # None => MovedSince(answer.folded) \subseteq answer.missed)

(* A held place ends in one of two ways: Reap reports its member gone, and *)
(* the window has run out, or a ticket of its own member is accepted, and  *)
(* it has not.  No refusal, and no call for another session, drops it.     *)
PlacesEndOnce ==
  [][\A s \in Sessions :
       Held(s) /\ ~Held(s)' =>
         \/ Expired(s) /\ gone' = Append(gone, held[s].member)
         \/ /\ ~Expired(s)
            /\ answer' # None
            /\ answer'.session = s
            /\ answer'.member = held[s].member]_vars

(* A Reap that returns leaves nobody behind whose window had run out when  *)
(* it began, although it asks the clock again for each of them.            *)
ReapTakesTheExpired ==
  reaping /\ walk = <<>> =>
    \A s \in Sessions : Held(s) => held[s].deadline > asked

(* No place is held forever: every drop ends in a resume or in a leave.    *)
EveryPlaceIsSettled ==
  \A s \in Sessions : Held(s) ~> ~Held(s)
=============================================================================
