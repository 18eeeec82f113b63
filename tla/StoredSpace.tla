----------------------------- MODULE StoredSpace -----------------------------
(* A process that serves one space over a store: callers build channels,     *)
(* read them back, put them, change their flag by permission, grant, and     *)
(* move members about; and the process may end at any point, which leaves    *)
(* what the file holds and nothing else (docs/decisions/channel-and-room-    *)
(* model.md).  Opening the file again is Migration; here it has been opened. *)
EXTENDS Stores, FiniteSets, Functions
CONSTANTS Builds,   \* bound: the <<identifier, space>> channels are built with
          Requests, \* bound: what is asked of Grant
          Percents, \* bound: what SetGain is called with
          Legacy,   \* the grants another build left in the file
          Ends      \* whether the process may end and start again

(* What another build left is what this one has no name for; a row it has a  *)
(* name for is one that Grant wrote.                                         *)
ASSUME LegacyAssumption == /\ Backend = "memory" => Legacy = {}
                           /\ \A g \in Legacy : ~ Parses(g.permission)
ASSUME AskedAssumption ==
  /\ Builds \subseteq (ChannelIDs \cup {None}) \X (Spaces \cup {None})
  /\ Requests \subseteq Request /\ Percents \subseteq Int

VARIABLES called,   \* history: the calls of Grant that wrote something
          answered, \* history: the calls of Grant that answered nil
          lastPut,  \* history: the channel last put under each identifier
          lastSet,  \* history: the last setting of each pair
          joined    \* history: the memberships recorded

histories == <<called, answered, lastPut, lastSet, joined>>
vars == <<heap, spaceVars, storeVars, histories>>

Init == /\ heap = << >> /\ NewSpace
        /\ table = << >> /\ membership = {} /\ gains = << >> /\ granting = << >>
        /\ grants = Legacy
        /\ called = {} /\ answered = {} /\ joined = {}
        /\ lastPut = << >> /\ lastSet = << >>

Builder(h) == \E b \in Builds : NewChannel(h, b[1], b[2], FALSE) /\ UNCHANGED storeVars

(* A caller lets go of a channel nothing else reaches.                       *)
Forgets(h) == /\ h \in DOMAIN heap /\ Unreachable(h)
              /\ heap' = Without(heap, h)
              /\ UNCHANGED <<spaceVars, storeVars>>

(* ChannelsInSpace, for a space that starts: one value per row.              *)
Lists == /\ Backend = "sqlite" /\ channels = << >>
         /\ \E f \in Injection(ChannelsInSpace(Home), Handles \ DOMAIN heap) :
              heap' = [h \in DOMAIN heap \cup {f[c] : c \in DOMAIN f} |->
                         IF h \in DOMAIN heap THEN heap[h]
                         ELSE Row(CHOOSE c \in DOMAIN f : f[c] = h)]
         /\ UNCHANGED <<spaceVars, storeVars>>

SetsFlag(h) ==
  /\ h \in DOMAIN heap
  /\ \E p \in Principals, on \in BOOLEAN :
       \E a \in Answers(p, ChannelSubject(heap[h].space, heap[h].id)) :
         SetAlwaysOn(a, p, h, on)
  /\ UNCHANGED storeVars

OfChannel(h) == \/ Builder(h) \/ Forgets(h) \/ SetsFlag(h)
                \/ AddChannel(h) /\ UNCHANGED storeVars
                \/ \E c \in ChannelIDs : ReadChannel(h, c) /\ UNCHANGED spaceVars

OfRoom == \E c \in ChannelIDs :
            /\ \/ \E r \in RoomHandles : OpenRoom(c, r)
               \/ CloseRoom(c)
            /\ UNCHANGED storeVars

OfMember == \E m \in Principals \cup {None} :
              /\ \/ \E c \in ChannelIDs : Enter(m, c) \/ Switch(m, c)
                 \/ Leave(m)
              /\ UNCHANGED storeVars

Grants(c) ==
  /\ \/ (\E r \in Requests : GrantBegins(c, r)) /\ UNCHANGED <<called, answered>>
     \/ /\ GrantWrites(c)
        /\ called' = called \cup {granting[c].request} /\ UNCHANGED answered
     \/ GrantFails(c) /\ UNCHANGED <<called, answered>>
     \/ /\ GrantReturns(c)
        /\ answered' = answered \cup {granting[c].request} /\ UNCHANGED called
  /\ UNCHANGED <<spaceVars, lastPut, lastSet, joined>>

OfStore ==
  /\ \/ \E h \in DOMAIN heap : /\ PutChannel(h)
                             /\ lastPut' = Having(lastPut, heap[h].id, heap[h])
                             /\ UNCHANGED <<lastSet, joined>>
     \/ \E p \in Principals \cup {None} : /\ PutMember(Home, p)
                                        /\ joined' = joined \cup {<<Home, p>>}
                                        /\ UNCHANGED <<lastPut, lastSet>>
     \/ \E p, q \in Principals, n \in Percents :
          /\ SetGain(p, q, n)
          /\ lastSet' = Having(lastSet, <<p, q>>, n)
          /\ UNCHANGED <<lastPut, joined>>
  /\ UNCHANGED <<spaceVars, called, answered>>

(* The process ends and starts again, on the same file.                      *)
Restarts == /\ Ends /\ Backend = "sqlite"
            /\ heap' = << >> /\ channels' = << >> /\ rooms' = << >>
            /\ occupancies' = << >> /\ live' = {} /\ granting' = << >>
            /\ UNCHANGED <<table, membership, grants, gains>>

Next == \/ \E c \in Callers : Grants(c)
        \/ /\ (\E h \in Handles : OfChannel(h)) \/ Lists \/ OfRoom \/ OfMember \/ Restarts
           /\ UNCHANGED histories
        \/ OfStore

Spec == Init /\ [][Next]_vars

Subjects == [space : Spaces, channel : ChannelIDs \cup {None}]

(* What is held is of the types the code declares, no zero identifier is     *)
(* among it (domain.go, store.go's checkPair), and a row of unity is not     *)
(* stored (SetGain).                                                         *)
TypeOK ==
  /\ DOMAIN heap \subseteq Handles /\ \A h \in DOMAIN heap : heap[h] \in Channel
  /\ DOMAIN table \subseteq ChannelIDs
  /\ \A c \in DOMAIN table : (Backend = "memory" => table[c] \in DOMAIN heap) /\ Row(c) \in Channel
  /\ DOMAIN channels \subseteq ChannelIDs /\ \A c \in DOMAIN channels : channels[c] \in DOMAIN heap
  /\ DOMAIN rooms \subseteq ChannelIDs /\ \A c \in DOMAIN rooms : rooms[c] \in RoomHandles
  /\ DOMAIN occupancies \subseteq Principals
  /\ \A m \in DOMAIN occupancies : occupancies[m] \in ChannelIDs
  /\ membership \subseteq Spaces \X Principals
  /\ grants \ Legacy \subseteq [principal : Principals, subject : Subjects, permission : Permission]
  /\ DOMAIN gains \subseteq Principals \X Principals
  /\ \A g \in DOMAIN gains : gains[g] \in (MinGain..MaxGain) \ {DefaultGain}
  /\ DOMAIN granting \subseteq Callers
  /\ \A c \in DOMAIN granting : granting[c].request \in Request

(* A space never holds a channel of another space or under another's         *)
(* identifier, nobody is present and no room runs where it holds no channel, *)
(* and no two callers were given different rooms for one channel that are    *)
(* both still open (AddChannel, OpenRoom, Enter, Switch in domain.go).       *)
SpaceHolds ==
  /\ \A c \in DOMAIN channels : heap[channels[c]].id = c /\ heap[channels[c]].space = Home
  /\ \A c \in ChannelIDs : Occupants(c) # {} \/ c \in DOMAIN rooms => c \in DOMAIN channels
  /\ \A p, q \in live : p[1] = q[1] => p = q

AskedFor(calls, p, s) ==
  UNION {{r.granted[i] : i \in DOMAIN r.granted} :
         r \in {x \in calls : x.principal = p /\ x.subject = s}}

(* Whatever is allowed, some Grant asked for exactly that on exactly that    *)
(* subject: an interrupted call, a grant on the space and a grant on the     *)
(* channel never add up to more, and nothing on a channel is allowed to who  *)
(* was never let see it (Allow in permission.go over Granted in the stores). *)
AllowedIsAsked ==
  \A p \in Principals, s \in Subjects, perm \in Permission :
    Allow(Granted(p, s), p, perm, s) =>
      /\ perm \in AskedFor(called, p, s)
      /\ perm = "manage-space" <=> s.channel = None
      /\ s.channel # None => "see-channel" \in AskedFor(called, p, s)

(* What Grant answered nil for is held from then on, whatever failed beside  *)
(* it, whatever the process went through, and whatever another build left in *)
(* the table (Grant, Granted and eachRow in sqlite.go).                      *)
AnsweredIsHeld ==
  \A r \in answered : \A i \in DOMAIN r.granted :
    r.granted[i] \in Granted(r.principal, r.subject)

(* A channel's flag, in the process or in the store, left the value it was   *)
(* built with only where somebody asked for the right to see and to manage   *)
(* that very channel (SetAlwaysOn in always_on.go).                          *)
OnlyManagersChange ==
  \A c \in {heap[h] : h \in DOMAIN heap} \cup {Row(id) : id \in DOMAIN table} :
    c.alwaysOn => \E p \in Principals :
      {"see-channel", "manage-channel"} \subseteq AskedFor(called, p, ChannelSubject(c.space, c.id))

(* Every read answers the last write that was accepted, and unity where      *)
(* there was none: whatever was done since to a channel that was put or read *)
(* back, and whatever the process went through (store.go's port; memory.go   *)
(* says its two implementations are allowed to differ nowhere).              *)
ReadsAnswerTheLastWrite ==
  /\ DOMAIN table = DOMAIN lastPut /\ \A c \in DOMAIN table : Row(c) = lastPut[c]
  /\ \A l, s \in Principals :
       Gain(l, s) = IF <<l, s>> \in DOMAIN lastSet THEN lastSet[<<l, s>>] ELSE DefaultGain
  /\ \A s \in Spaces : Members(s) = {m \in Principals : <<s, m>> \in joined}
=============================================================================
