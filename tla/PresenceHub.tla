----------------------------- MODULE PresenceHub -----------------------------
(***************************************************************************)
(* The two-tier presence fan-out of one space                              *)
(* (internal/orchestration/presence_hub.go): the projection, the attached  *)
(* clients with the membership lists each is showing, and the changes      *)
(* coalesced since the last flush.                                         *)
(*                                                                         *)
(* The hub is not safe for concurrent use: its owner makes one call at a   *)
(* time, so an action here is one whole call.  What a call returns is      *)
(* given by CountSent, MembersSent and ListOf; who receives it, and in     *)
(* which order the entries are listed, is left to the modules that compose *)
(* the hub (PresenceAudience, ResumeServer).                               *)
(***************************************************************************)
EXTENDS PresenceProjection

CONSTANTS
  Clients,    \* identifiers of connections
  ViewerOf,   \* the member each connection authenticated as
  None        \* "no update", "never told"

ASSUME ViewerAssumption == ViewerOf \in [Clients -> Members]
ASSUME NoneAssumption == None \notin Presences /\ None \notin Nat

VARIABLES
  known,       \* the channels the hub was told of
  grants,      \* <<member, channel>>: who was granted see-channel on what
  attached,    \* the attached clients
  subscribed,  \* client -> the channels whose membership it is shown
  pending      \* channel -> what happened to it since the last flush

hubVars == <<seq, present, counts, known, grants, attached, subscribed, pending>>

-----------------------------------------------------------------------------
(* A pending entry remembers whether the count moved and, per member, the  *)
(* last update: NotPresent for one who left, their presence for one who is *)
(* in the channel.  A channel whose entry is Quiet has none.               *)
Quiet == [moved |-> FALSE, members |-> [m \in Members |-> None]]

Pendings == [moved : BOOLEAN, members : [Members -> Presences \cup {None}]]

(* Mutation of Visible: every channel of the space is everybody's.         *)
VisibleToAll(client, channel, failed) ==
  channel \in known /\ <<client, channel>> \notin failed

(* The see permission, asked of a grantor that answers "nothing granted"   *)
(* when it cannot read: failed holds the questions whose read fails.       *)
Visible(client, channel, failed) ==
  /\ channel \in known
  /\ <<ViewerOf[client], channel>> \in grants
  /\ <<client, channel>> \notin failed

(* Mutation of CountSent: only to those who are shown the membership.      *)
CountToSubscribers(client, channel, failed) ==
  /\ pending[channel].moved
  /\ Visible(client, channel, failed)
  /\ channel \in subscribed[client]

(* What a flush sends one client about one channel: its count, and the     *)
(* updates of the members in it.                                           *)
CountSent(client, channel, failed) ==
  pending[channel].moved /\ Visible(client, channel, failed)

MembersSent(client, channel, failed) ==
  /\ pending[channel] # Quiet
  /\ Visible(client, channel, failed)
  /\ channel \in subscribed[client]

(* The presence of a member in a channel's list, NotPresent off the list.  *)
ListOf(channel) ==
  [m \in Members |-> IF present[m].channel = channel THEN present[m] ELSE NotPresent]

-----------------------------------------------------------------------------
InitHub ==
  /\ InitProjection
  /\ known = {}
  /\ grants = {}
  /\ attached = {}
  /\ subscribed = [cl \in Clients |-> {}]
  /\ pending = [c \in Channels |-> Quiet]

AddChannel(channel) ==
  /\ channel \notin known
  /\ known' = known \cup {channel}
  /\ UNCHANGED <<seq, present, counts, grants, attached, subscribed, pending>>

(* Store.Grant, which only ever adds.                                      *)
Grant(member, channel) ==
  /\ grants' = grants \cup {<<member, channel>>}
  /\ UNCHANGED <<seq, present, counts, known, attached, subscribed, pending>>

Attach(client) ==
  /\ client \notin attached
  /\ attached' = attached \cup {client}
  /\ subscribed' = [subscribed EXCEPT ![client] = {}]
  /\ UNCHANGED <<seq, present, counts, known, grants, pending>>

(* Detaching a client that is not attached does nothing.                   *)
Detach(client) ==
  /\ client \in attached
  /\ attached' = attached \ {client}
  /\ subscribed' = [subscribed EXCEPT ![client] = {}]
  /\ UNCHANGED <<seq, present, counts, known, grants, pending>>

(* Refused, and without effect, for a client that is not attached and for  *)
(* a channel it cannot see.                                                *)
Subscribe(client, channel, failed) ==
  /\ client \in attached
  /\ Visible(client, channel, failed)
  /\ subscribed' = [subscribed EXCEPT ![client] = @ \cup {channel}]
  /\ UNCHANGED <<seq, present, counts, known, grants, attached, pending>>

Unsubscribe(client, channel) ==
  /\ client \in attached
  /\ subscribed' = [subscribed EXCEPT ![client] = @ \ {channel}]
  /\ UNCHANGED <<seq, present, counts, known, grants, attached, pending>>

(* Mutation of Recorded: the count of the channel left is not marked.      *)
RecordedWhereJoined(m, left, now) ==
  [c \in Channels |->
     IF c = now.channel
       THEN [moved   |-> pending[c].moved \/ left # now.channel,
             members |-> [pending[c].members EXCEPT ![m] = now]]
     ELSE IF c = left
       THEN [pending[c] EXCEPT !.members[m] = NotPresent]
     ELSE pending[c]]

(* Mutation of Recorded: a change in place, a mute, is nothing to send.    *)
RecordedWhenMoved(m, left, now) ==
  IF left = now.channel THEN pending
  ELSE [c \in Channels |->
          IF c \in {left, now.channel}
            THEN [moved   |-> TRUE,
                  members |-> [pending[c].members EXCEPT ![m] =
                                 IF c = left THEN NotPresent ELSE now]]
            ELSE pending[c]]

(* The pending entries after member m moved from left to now: both counts  *)
(* moved and m is an update of both, unless m stayed where they were.      *)
Recorded(m, left, now) ==
  [c \in Channels |->
     IF c = now.channel
       THEN [moved   |-> pending[c].moved \/ left # now.channel,
             members |-> [pending[c].members EXCEPT ![m] = now]]
     ELSE IF c = left
       THEN [moved   |-> TRUE,
             members |-> [pending[c].members EXCEPT ![m] = NotPresent]]
     ELSE pending[c]]

HubApply(r) ==
  /\ Apply(r)
  /\ pending' = IF Moves(r)
                  THEN Recorded(r.member, present[r.member].channel, Publish(r.state))
                  ELSE pending
  /\ UNCHANGED <<known, grants, attached, subscribed>>

(* The end of an interval.  Everything pending is cleared, including what  *)
(* no client was sent.  With nothing pending the call does nothing.        *)
Flush ==
  /\ \E c \in Channels : pending[c] # Quiet
  /\ pending' = [c \in Channels |-> Quiet]
  /\ UNCHANGED <<seq, present, counts, known, grants, attached, subscribed>>

-----------------------------------------------------------------------------
HubTypeOK ==
  /\ ProjectionTypeOK
  /\ known \subseteq Channels
  /\ grants \subseteq Members \X Channels
  /\ attached \subseteq Clients
  /\ subscribed \in [Clients -> SUBSET Channels]
  /\ pending \in [Channels -> Pendings]

(* However many changes landed in the interval, in whatever order, the     *)
(* update a flush would send about a member is the member's presence in    *)
(* that channel now: a join overtaken by a leave cannot leave a ghost, nor *)
(* a leave overtaken by a rejoin an absence.                               *)
PendingIsCurrent ==
  \A c \in Channels, m \in Members :
    pending[c].members[m] \in {None, ListOf(c)[m]}

(* A list the client is shown is only of a channel it may see.             *)
SubscribedIsGranted ==
  \A cl \in Clients : \A c \in subscribed[cl] :
    c \in known /\ <<ViewerOf[cl], c>> \in grants
=============================================================================
