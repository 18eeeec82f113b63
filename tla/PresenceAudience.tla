-------------------------- MODULE PresenceAudience --------------------------
(***************************************************************************)
(* The presence hub together with what its clients have been told.         *)
(*                                                                         *)
(* told and seen are not in the code: they are the screens of the clients, *)
(* folded out of the messages the hub returns, which a connection delivers *)
(* in order.  told is the count a client holds for a channel, seen the     *)
(* members it lists in a channel it subscribed to.                         *)
(***************************************************************************)
EXTENDS PresenceHub

CONSTANTS
  MaxSeq,      \* bound: the highest sequence number of a report
  ReadsFail    \* whether reading a grant may fail

ASSUME MaxSeqAssumption == MaxSeq \in Nat
ASSUME ReadsFailAssumption == ReadsFail \in BOOLEAN

VARIABLES told, seen

vars == <<hubVars, told, seen>>

Failures == IF ReadsFail THEN SUBSET (Clients \X Channels) ELSE {{}}

ToldNothing == [c \in Channels |-> None]
SeesNobody == [c \in Channels |-> [m \in Members |-> NotPresent]]

-----------------------------------------------------------------------------
Init ==
  /\ InitHub
  /\ told = [cl \in Clients |-> ToldNothing]
  /\ seen = [cl \in Clients |-> SeesNobody]

(* The snapshot of a client that opens the space: the count of every       *)
(* channel it can see.                                                     *)
ClientAttaches(client, failed) ==
  /\ Attach(client)
  /\ told' = [told EXCEPT ![client] =
                [c \in Channels |-> IF Visible(client, c, failed) THEN counts[c] ELSE None]]
  /\ UNCHANGED seen

ClientDetaches(client) ==
  /\ Detach(client)
  /\ told' = [told EXCEPT ![client] = ToldNothing]
  /\ seen' = [seen EXCEPT ![client] = SeesNobody]

(* The answer to a subscription: the channel's count and its list.         *)
ClientSubscribes(client, channel, failed) ==
  /\ Subscribe(client, channel, failed)
  /\ told' = [told EXCEPT ![client][channel] = counts[channel]]
  /\ seen' = [seen EXCEPT ![client][channel] = ListOf(channel)]

(* A client that unsubscribes has stopped showing the list.                *)
ClientUnsubscribes(client, channel) ==
  /\ Unsubscribe(client, channel)
  /\ seen' = [seen EXCEPT ![client][channel] = SeesNobody[channel]]
  /\ UNCHANGED told

(* A list with one flush's updates of a channel folded in.                 *)
Updated(list, channel) ==
  [m \in Members |-> IF pending[channel].members[m] = None
                       THEN list[m]
                       ELSE pending[channel].members[m]]

IntervalEnds(failed) ==
  /\ Flush
  /\ told' = [cl \in Clients |-> [c \in Channels |->
                IF cl \in attached /\ CountSent(cl, c, failed)
                  THEN counts[c] ELSE told[cl][c]]]
  /\ seen' = [cl \in Clients |-> [c \in Channels |->
                IF cl \in attached /\ MembersSent(cl, c, failed)
                  THEN Updated(seen[cl][c], c) ELSE seen[cl][c]]]

ReportArrives(r) == HubApply(r) /\ UNCHANGED <<told, seen>>

ChannelIsAdded(channel) == AddChannel(channel) /\ UNCHANGED <<told, seen>>

GrantIsMade(member, channel) == Grant(member, channel) /\ UNCHANGED <<told, seen>>

Next ==
  \/ \E c \in Channels : ChannelIsAdded(c)
  \/ \E cl \in Clients, c \in Channels : GrantIsMade(ViewerOf[cl], c)
  \/ \E cl \in Clients : ClientDetaches(cl)
  \/ \E cl \in Clients, c \in Channels : ClientUnsubscribes(cl, c)
  \/ \E cl \in Clients, f \in Failures : ClientAttaches(cl, f)
  \/ \E cl \in Clients, c \in Channels, f \in Failures : ClientSubscribes(cl, c, f)
  \/ \E m \in Members, s \in 1..MaxSeq, state \in States : ReportArrives(Report(m, s, state))
  \/ \E f \in Failures : IntervalEnds(f)

Spec == Init /\ [][Next]_vars

(* The transport's owner flushes once per coalescing interval.             *)
FairSpec == Spec /\ WF_vars(\E f \in Failures : IntervalEnds(f))

-----------------------------------------------------------------------------
TypeOK ==
  /\ HubTypeOK
  /\ told \in [Clients -> [Channels -> Nat \cup {None}]]
  /\ seen \in [Clients -> [Channels -> [Members -> Presences]]]

(* A count a client holds is the channel's count, or a flush is still to   *)
(* correct it.  Counts are resulting counts, not differences, and every    *)
(* move records the channel it left and the channel it joined.             *)
HeldCountIsCurrent ==
  \A cl \in attached, c \in Channels :
    told[cl][c] \in {None, counts[c]} \/ pending[c].moved

(* A list a client is shown is the channel's list, but for the members a   *)
(* flush is still to update: nobody who left stays on it, nobody who       *)
(* joined is missing, and a self-mute reaches it.                          *)
ShownListIsCurrent ==
  \A cl \in attached : \A c \in subscribed[cl], m \in Members :
    seen[cl][c][m] = ListOf(c)[m] \/ pending[c].members[m] # None

(* A client holds nothing of a channel it was never granted the sight of:  *)
(* no count and no name reached it, by push or by request, also when       *)
(* reading a grant fails.  And the names behind a count reach only clients *)
(* that asked for them.                                                    *)
NothingHiddenIsHeld ==
  \A cl \in Clients, c \in Channels :
    /\ told[cl][c] # None \/ seen[cl][c] # SeesNobody[c]
         => <<ViewerOf[cl], c>> \in grants
    /\ seen[cl][c] # SeesNobody[c] => c \in subscribed[cl]

(* A client whose count of a channel went stale holds the current count    *)
(* some interval later, or has gone.                                       *)
StaleCountIsCorrected ==
  \A cl \in Clients, c \in Channels :
    (cl \in attached /\ told[cl][c] \notin {None, counts[c]})
      ~> (cl \notin attached \/ told[cl][c] = counts[c])
=============================================================================
