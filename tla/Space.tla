-------------------------------- MODULE Space --------------------------------
(* The live space a process holds (internal/orchestration/domain.go): its    *)
(* channels, the rooms behind them and who is present where.  A *Channel is  *)
(* a handle into heap: whoever was given it shares what it points to, and    *)
(* the only field that moves is the always-on flag (always_on.go).  A space  *)
(* has no lock: every operation here is one step of the caller that owns it. *)
EXTENDS Permissions
CONSTANTS Handles,     \* bound: channel values alive at once
          ChannelIDs, Spaces, Principals,
          RoomHandles, \* bound: rooms alive at once
          Home         \* the space this process serves

ASSUME HomeAssumption == Home \in Spaces
ASSUME ZeroAssumption == None \notin Handles \cup ChannelIDs \cup Spaces \cup Principals

VARIABLES heap,        \* from the handles in use to the channels they point to
          channels,    \* from channel identifiers to handles
          rooms,       \* from channel identifiers to rooms
          occupancies, \* from members to channel identifiers
          live         \* history: <<channel, room>> given to a caller and not closed

spaceVars == <<channels, rooms, occupancies, live>>

Channel == [id : ChannelIDs, space : Spaces, alwaysOn : BOOLEAN]

Having(f, k, v) == [x \in DOMAIN f \cup {k} |-> IF x = k THEN v ELSE f[x]]
Without(f, k) == [x \in DOMAIN f \ {k} |-> f[x]]

NewSpace == /\ channels = << >> /\ rooms = << >> /\ occupancies = << >>
            /\ live = {}

(* Mutation of ZeroError: the zero identifier passes for one.                *)
ZeroErrorNever(ids) == "nil"

ZeroError(ids) == IF None \in ids THEN "ErrInvariant" ELSE "nil"

(* A zero identifier is refused; so is an empty name, which is left out.     *)
NewChannel(h, id, space, alwaysOn) ==
  /\ ZeroError({id, space}) = "nil"
  /\ h \notin DOMAIN heap
  /\ heap' = Having(heap, h, [id |-> id, space |-> space, alwaysOn |-> alwaysOn])
  /\ UNCHANGED spaceVars

AddChannel(h) ==
  /\ h \in DOMAIN heap
  /\ heap[h].space = Home
  /\ heap[h].id \notin DOMAIN channels
  /\ channels' = Having(channels, heap[h].id, h)
  /\ UNCHANGED <<heap, rooms, occupancies, live>>

(* Mutation of OpenRoom: a room is made whatever is already there.           *)
OpenRoomAgain(c, room) ==
  /\ c \in DOMAIN channels
  /\ room \notin {rooms[x] : x \in DOMAIN rooms} \cup {p[2] : p \in live}
  /\ rooms' = Having(rooms, c, room)
  /\ live' = live \cup {<<c, rooms'[c]>>}
  /\ UNCHANGED <<heap, channels, occupancies>>

(* The room that runs, or a new one.                                         *)
OpenRoom(c, room) ==
  /\ c \in DOMAIN channels
  /\ \/ c \in DOMAIN rooms /\ room = rooms[c]
     \/ c \notin DOMAIN rooms /\ room \notin {rooms[x] : x \in DOMAIN rooms}
  /\ rooms' = Having(rooms, c, room)
  /\ live' = live \cup {<<c, room>>}
  /\ UNCHANGED <<heap, channels, occupancies>>

CloseRoom(c) ==
  /\ rooms' = Without(rooms, c)
  /\ live' = {p \in live : p[1] # c}
  /\ UNCHANGED <<heap, channels, occupancies>>

Enter(m, c) ==
  /\ ZeroError({m}) = "nil"
  /\ c \in DOMAIN channels
  /\ m \notin DOMAIN occupancies
  /\ occupancies' = Having(occupancies, m, c)
  /\ UNCHANGED <<heap, channels, rooms, live>>

Leave(m) ==
  /\ occupancies' = Without(occupancies, m)
  /\ UNCHANGED <<heap, channels, rooms, live>>

(* Also for a member who is nowhere yet: a switch does not ask.              *)
Switch(m, c) ==
  /\ ZeroError({m}) = "nil"
  /\ c \in DOMAIN channels
  /\ occupancies' = Having(occupancies, m, c)
  /\ UNCHANGED <<heap, channels, rooms, live>>

Occupants(c) == {m \in DOMAIN occupancies : occupancies[m] = c}

(* granted is what the Grantor answers at this moment.  Nothing is written   *)
(* down: that is the caller's PutChannel.                                    *)
SetAlwaysOn(granted, actor, h, on) ==
  /\ h \in DOMAIN heap
  /\ Allow(granted, actor, "manage-channel", ChannelSubject(heap[h].space, heap[h].id))
  /\ heap' = [heap EXCEPT ![h].alwaysOn = on]
  /\ UNCHANGED spaceVars
=============================================================================
