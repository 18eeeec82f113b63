-------------------------- MODULE StoredSpaceProofs --------------------------
(***************************************************************************)
(* What a space over a store keeps for any number of channels, callers and *)
(* principals, whatever fails, is interrupted or ends: what is allowed was *)
(* asked for, what was answered is held, and the space stays coherent.     *)
(* The store may be either of the two, but for the last theorem.           *)
(***************************************************************************)
EXTENDS StoredSpace, SequenceTheorems, TLAPS

Listed(seq) == {seq[i] : i \in DOMAIN seq}

RowOf(r, perm) == [principal |-> r.principal, subject |-> r.subject, permission |-> perm]

(* The handles in use point to channels, and whatever reaches a channel    *)
(* reaches one in use.                                                     *)
HeapInv ==
  /\ DOMAIN heap \subseteq Handles /\ \A h \in DOMAIN heap : heap[h] \in Channel
  /\ DOMAIN table \subseteq ChannelIDs
  /\ \A c \in DOMAIN table : (Backend = "memory" => table[c] \in DOMAIN heap) /\ Row(c) \in Channel
  /\ DOMAIN channels \subseteq ChannelIDs
  /\ \A c \in DOMAIN channels : /\ channels[c] \in DOMAIN heap
                                /\ heap[channels[c]].id = c
                                /\ heap[channels[c]].space = Home

(* Rooms run and members are present in channels the space holds, and the  *)
(* rooms callers hold open are those that run.                             *)
RoomInv ==
  /\ DOMAIN rooms \subseteq DOMAIN channels /\ \A c \in DOMAIN rooms : rooms[c] \in RoomHandles
  /\ live \subseteq {<<c, rooms[c]>> : c \in DOMAIN rooms}
  /\ DOMAIN occupancies \subseteq Principals
  /\ \A m \in DOMAIN occupancies : occupancies[m] \in DOMAIN channels

(* A caller inside Grant has passed its checks, and of what it asked for   *)
(* each permission is held or still to be written.                         *)
CallInv(c) ==
  LET r == granting[c].request IN
  /\ granting[c] \in [request : Request, left : Seq(Permission)] /\ GrantError(r) = "nil"
  /\ Listed(granting[c].left) \subseteq Listed(r.granted)
  /\ \A perm \in Listed(r.granted) : RowOf(r, perm) \in grants \/ perm \in Listed(granting[c].left)

(* Every row this build has a name for was asked for by a call that wrote, *)
(* and the rows of a call that answered nil are there.                     *)
GrantInv ==
  /\ DOMAIN granting \subseteq Callers /\ \A c \in DOMAIN granting : CallInv(c)
  /\ \A g \in grants \ Legacy :
       /\ g \in [principal : Principals, subject : Subjects, permission : Permission]
       /\ g.permission \in AskedFor(called, g.principal, g.subject)
  /\ \A r \in answered : \A perm \in Listed(r.granted) : RowOf(r, perm) \in grants /\ perm \in Permission

RowsInv ==
  /\ membership \subseteq Spaces \X Principals
  /\ DOMAIN gains \subseteq Principals \X Principals
  /\ \A g \in DOMAIN gains : gains[g] \in (MinGain..MaxGain) \ {DefaultGain}

Managed(c) ==
  \E p \in Principals :
    {"see-channel", "manage-channel"} \subseteq AskedFor(called, p, ChannelSubject(c.space, c.id))

FlagInv ==
  /\ \A h \in DOMAIN heap : heap[h].alwaysOn => Managed(heap[h])
  /\ \A id \in DOMAIN table : Row(id).alwaysOn => Managed(Row(id))

IInv == HeapInv /\ RoomInv /\ GrantInv /\ RowsInv /\ FlagInv

-----------------------------------------------------------------------------
(* More calls ask for more.                                                *)
LEMMA AskedForMore ==
  ASSUME NEW calls, NEW more, calls \subseteq more, NEW p, NEW s
  PROVE  AskedFor(calls, p, s) \subseteq AskedFor(more, p, s)
BY DEF AskedFor

LEMMA InitInv == Init => IInv
<1> SUFFICES ASSUME Init PROVE IInv
  OBVIOUS
<1> USE DEF Init, NewSpace
<1>1. DOMAIN << >> = {}
  OBVIOUS
<1>2. HeapInv /\ RoomInv
  BY <1>1 DEF HeapInv, RoomInv
<1>3. GrantInv /\ RowsInv
  BY <1>1 DEF GrantInv, RowsInv
<1>4. FlagInv
  BY <1>1 DEF FlagInv
<1> QED BY <1>2, <1>3, <1>4 DEF IInv

-----------------------------------------------------------------------------
(* What a step leaves alone keeps what is said of it.                      *)
LEMMA Stays ==
  /\ HeapInv /\ UNCHANGED <<heap, channels, table>> => HeapInv'
  /\ RoomInv /\ UNCHANGED <<channels, rooms, occupancies, live>> => RoomInv'
  /\ GrantInv /\ UNCHANGED <<granting, grants, called, answered>> => GrantInv'
  /\ RowsInv /\ UNCHANGED <<membership, gains>> => RowsInv'
<1>1. HeapInv /\ UNCHANGED <<heap, channels, table>> => HeapInv'
  BY DEF HeapInv, Row
<1>2. RoomInv /\ UNCHANGED <<channels, rooms, occupancies, live>> => RoomInv'
  BY DEF RoomInv
<1>3. GrantInv /\ UNCHANGED <<granting, grants, called, answered>> => GrantInv'
  BY DEF GrantInv, CallInv
<1>4. RowsInv /\ UNCHANGED <<membership, gains>> => RowsInv'
  BY DEF RowsInv
<1> QED BY <1>1, <1>2, <1>3, <1>4

LEMMA ManagedStays ==
  ASSUME called \subseteq called', NEW c, Managed(c)
  PROVE  Managed(c)'
<1>1. PICK p \in Principals :
        {"see-channel", "manage-channel"} \subseteq AskedFor(called, p, ChannelSubject(c.space, c.id))
  BY DEF Managed
<1> QED BY <1>1, AskedForMore DEF Managed

LEMMA FlagsStay ==
  ASSUME FlagInv, UNCHANGED <<heap, table>>, called \subseteq called'
  PROVE  FlagInv'
<1>1. ASSUME NEW h \in DOMAIN heap, heap[h].alwaysOn PROVE Managed(heap[h])'
  <2>1. Managed(heap[h])
    BY <1>1 DEF FlagInv
  <2>2. \A c : Managed(c) => Managed(c)'
    BY ManagedStays
  <2> QED BY <2>1, <2>2
<1> QED BY ManagedStays DEF FlagInv, Row, Managed

(* New handles point to channels nobody had to manage, the others where    *)
(* they pointed.                                                           *)
LEMMA HeapGrows ==
  ASSUME HeapInv, FlagInv, UNCHANGED <<channels, table, called>>,
         DOMAIN heap \subseteq DOMAIN heap', DOMAIN heap' \subseteq Handles,
         \A h \in DOMAIN heap : heap'[h] = heap[h],
         \A h \in DOMAIN heap' \ DOMAIN heap :
            heap'[h] \in Channel /\ (heap'[h].alwaysOn => Managed(heap'[h]))
  PROVE  HeapInv' /\ FlagInv'
<1>1. \A c \in DOMAIN table : Row(c)' = Row(c)
  BY DEF HeapInv, Row
<1>2. HeapInv'
  BY <1>1 DEF HeapInv
<1>3. FlagInv'
  BY <1>1 DEF FlagInv, Managed
<1> QED BY <1>2, <1>3

LEMMA BuilderKeeps ==
  ASSUME HeapInv, FlagInv, NEW h \in Handles, Builder(h), UNCHANGED called
  PROVE  HeapInv' /\ FlagInv'
<1>1. PICK b \in Builds : NewChannel(h, b[1], b[2], FALSE)
  BY DEF Builder
<1> DEFINE new == [id |-> b[1], space |-> b[2], alwaysOn |-> FALSE]
<1>2. h \notin DOMAIN heap /\ heap' = Having(heap, h, new) /\ None \notin {b[1], b[2]}
  BY <1>1 DEF NewChannel, ZeroError
<1>3. new \in Channel /\ ~ new.alwaysOn
  BY <1>2, AskedAssumption DEF Channel
<1>4. UNCHANGED <<channels, table>>
  BY <1>1 DEF Builder, NewChannel, spaceVars, storeVars
<1> HIDE DEF new
<1>5. /\ DOMAIN heap' = DOMAIN heap \cup {h} /\ heap'[h] = new
      /\ \A x \in DOMAIN heap : heap'[x] = heap[x]
  BY <1>2 DEF Having
<1>6. DOMAIN heap' \subseteq Handles
  BY <1>5 DEF HeapInv
<1>7. \A x \in DOMAIN heap' \ DOMAIN heap : x = h
  BY <1>5
<1> QED BY <1>3, <1>4, <1>5, <1>6, <1>7, HeapGrows

LEMMA ReadChannelKeeps ==
  ASSUME HeapInv, FlagInv, NEW h \in Handles, NEW c \in ChannelIDs,
         ReadChannel(h, c), UNCHANGED <<spaceVars, called>>
  PROVE  HeapInv' /\ FlagInv'
<1>1. /\ c \in DOMAIN table /\ h \notin DOMAIN heap /\ heap' = Having(heap, h, Row(c))
      /\ UNCHANGED <<channels, table>>
  BY DEF ReadChannel, spaceVars, storeVars
<1>2. Row(c) \in Channel /\ (Row(c).alwaysOn => Managed(Row(c)))
  BY <1>1 DEF HeapInv, FlagInv
<1>3. /\ DOMAIN heap' = DOMAIN heap \cup {h} /\ heap'[h] = Row(c)
      /\ \A x \in DOMAIN heap : heap'[x] = heap[x]
  BY <1>1 DEF Having
<1>4. DOMAIN heap' \subseteq Handles
  BY <1>3 DEF HeapInv
<1>5. \A x \in DOMAIN heap' \ DOMAIN heap : x = h
  BY <1>3
<1>6. UNCHANGED called /\ \A d : Managed(d)' = Managed(d)
  BY DEF Managed
<1> QED BY <1>1, <1>2, <1>3, <1>4, <1>5, <1>6, HeapGrows

LEMMA ListsKeeps ==
  ASSUME HeapInv, FlagInv, Lists, UNCHANGED called
  PROVE  HeapInv' /\ FlagInv'
<1>1. PICK f \in Injection(ChannelsInSpace(Home), Handles \ DOMAIN heap) :
        heap' = [h \in DOMAIN heap \cup {f[c] : c \in DOMAIN f} |->
                   IF h \in DOMAIN heap THEN heap[h]
                   ELSE Row(CHOOSE c \in DOMAIN f : f[c] = h)]
  BY DEF Lists
<1>2. f \in [ChannelsInSpace(Home) -> Handles \ DOMAIN heap]
  BY DEF Injection
<1>3. ASSUME NEW h \in DOMAIN heap' \ DOMAIN heap
      PROVE  heap'[h] \in Channel /\ (heap'[h].alwaysOn => Managed(heap'[h]))
  <2> DEFINE id == CHOOSE c \in DOMAIN f : f[c] = h
  <2>1. \E c \in DOMAIN f : f[c] = h
    BY <1>1
  <2>2. id \in DOMAIN f
    BY <2>1
  <2>3. id \in DOMAIN table
    BY <1>2, <2>2 DEF ChannelsInSpace
  <2>4. heap'[h] = Row(id)
    BY <1>1
  <2> QED BY <2>3, <2>4 DEF HeapInv, FlagInv
<1>4. /\ DOMAIN heap \subseteq DOMAIN heap' /\ DOMAIN heap' \subseteq Handles
      /\ \A h \in DOMAIN heap : heap'[h] = heap[h]
  BY <1>1, <1>2 DEF HeapInv
<1>5. UNCHANGED <<channels, table>>
  BY DEF Lists, spaceVars, storeVars
<1> QED BY <1>3, <1>4, <1>5, HeapGrows

LEMMA ForgetsKeeps ==
  ASSUME HeapInv, FlagInv, NEW h \in Handles, Forgets(h), UNCHANGED called
  PROVE  HeapInv' /\ FlagInv'
<1>1. /\ DOMAIN heap' = DOMAIN heap \ {h} /\ \A x \in DOMAIN heap' : heap'[x] = heap[x]
      /\ UNCHANGED <<channels, table>>
  BY DEF Forgets, Without, spaceVars, storeVars
<1>2. /\ \A c \in DOMAIN channels : channels[c] # h
      /\ Backend = "memory" => \A c \in DOMAIN table : table[c] # h
  BY DEF Forgets, Unreachable
<1>3. \A c \in DOMAIN table : Row(c)' = Row(c)
  BY <1>1, <1>2 DEF HeapInv, Row
<1>4. HeapInv'
  BY <1>1, <1>2, <1>3 DEF HeapInv
<1>5. FlagInv'
  BY <1>1, <1>3 DEF FlagInv, Managed
<1> QED BY <1>4, <1>5

(* What is granted on a subject of this space was asked for on it.         *)
LEMMA GrantedIsAsked ==
  ASSUME GrantInv, NEW p, NEW s, NEW perm \in Granted(p, s)
  PROVE  perm \in AskedFor(called, p, s) /\ perm \in Permission
<1>1. PICK g \in grants : g.principal = p /\ g.subject = s /\ g.permission = perm
  BY DEF Granted, NewPermissionSet
<1>2. perm \in Permission
  BY DEF Granted, NewPermissionSet
<1>3. g \notin Legacy
  BY <1>1, <1>2, LegacyAssumption DEF Parses
<1> QED BY <1>1, <1>2, <1>3 DEF GrantInv

(* Who may change a flag was granted that on the channel, and asked for.   *)
LEMMA SetsFlagKeeps ==
  ASSUME HeapInv, GrantInv, FlagInv, NEW h \in Handles, SetsFlag(h), UNCHANGED called
  PROVE  HeapInv' /\ FlagInv'
<1> DEFINE s == ChannelSubject(heap[h].space, heap[h].id)
<1>1. PICK p \in Principals, on \in BOOLEAN : \E a \in Answers(p, s) : SetAlwaysOn(a, p, h, on)
  BY DEF SetsFlag
<1>2. PICK a \in Answers(p, s) : SetAlwaysOn(a, p, h, on)
  BY <1>1
<1>3. /\ h \in DOMAIN heap /\ Allow(a, p, "manage-channel", s)
      /\ heap' = [heap EXCEPT ![h].alwaysOn = on]
      /\ UNCHANGED <<channels, table>>
  BY <1>2 DEF SetAlwaysOn, SetsFlag, spaceVars, storeVars
<1>4. {"see-channel", "manage-channel"} \subseteq a
  BY <1>3 DEF Allow
<1>5. a = Granted(p, s)
  BY <1>4 DEF Answers
<1>6. Managed(heap[h])
  BY <1>4, <1>5, GrantedIsAsked DEF Managed
<1>7. /\ DOMAIN heap' = DOMAIN heap
      /\ \A x \in DOMAIN heap : /\ heap'[x] \in Channel /\ heap'[x].id = heap[x].id
                                /\ heap'[x].space = heap[x].space
                                /\ x # h => heap'[x] = heap[x]
  BY <1>3 DEF HeapInv, Channel
<1>8. \A x \in DOMAIN heap : heap'[x].alwaysOn => Managed(heap'[x])
  <2>1. \A c, d : Managed(c) /\ c.space = d.space /\ c.id = d.id => Managed(d)
    BY DEF Managed
  <2> SUFFICES ASSUME NEW x \in DOMAIN heap, heap'[x].alwaysOn PROVE Managed(heap'[x])
    OBVIOUS
  <2>2. CASE x = h
    <3>1. heap'[h].space = heap[h].space /\ heap'[h].id = heap[h].id
      BY <1>3, <1>7
    <3> QED BY <1>6, <2>1, <2>2, <3>1
  <2>3. CASE x # h
    <3>1. heap'[x] = heap[x]
      BY <1>7, <2>3
    <3>2. Managed(heap[x])
      BY <3>1 DEF FlagInv
    <3> QED BY <3>1, <3>2
  <2> QED BY <2>2, <2>3
<1>9. ASSUME NEW c \in DOMAIN table
      PROVE  Row(c)' = Row(c) \/ \E x \in DOMAIN heap : Row(c)' = heap'[x]
  <2>1. CASE Backend = "memory"
    BY <1>3, <2>1 DEF Row, HeapInv
  <2>2. CASE Backend # "memory"
    BY <1>3, <2>2 DEF Row
  <2> QED BY <2>1, <2>2
<1>10. HeapInv'
  BY <1>3, <1>7, <1>9 DEF HeapInv
<1>11. FlagInv'
  <2>1. \A x \in DOMAIN heap' : heap'[x].alwaysOn => Managed(heap'[x])
    BY <1>7, <1>8
  <2>2. ASSUME NEW c \in DOMAIN table, Row(c)'.alwaysOn PROVE Managed(Row(c)')
    <3>1. CASE Row(c)' = Row(c)
      BY <2>2, <3>1 DEF FlagInv
    <3>2. CASE \E x \in DOMAIN heap : Row(c)' = heap'[x]
      BY <2>2, <3>2, <1>8
    <3> QED BY <1>9, <3>1, <3>2
  <2> QED BY <1>3, <2>1, <2>2 DEF FlagInv, Managed
<1> QED BY <1>10, <1>11

LEMMA AddChannelKeeps ==
  ASSUME HeapInv, RoomInv, FlagInv, NEW h \in Handles, AddChannel(h), UNCHANGED <<table, called>>
  PROVE  HeapInv' /\ RoomInv' /\ FlagInv'
<1>1. /\ h \in DOMAIN heap /\ heap[h].space = Home /\ heap[h].id \notin DOMAIN channels
      /\ channels' = Having(channels, heap[h].id, h)
      /\ UNCHANGED <<heap, rooms, occupancies, live>>
  BY DEF AddChannel
<1>2. /\ DOMAIN channels' = DOMAIN channels \cup {heap[h].id} /\ channels'[heap[h].id] = h
      /\ \A c \in DOMAIN channels : channels'[c] = channels[c]
  BY <1>1 DEF Having
<1>3. heap[h].id \in ChannelIDs
  BY <1>1 DEF HeapInv, Channel
<1>4. HeapInv'
  BY <1>1, <1>2, <1>3 DEF HeapInv, Row
<1>5. RoomInv'
  BY <1>1, <1>2 DEF RoomInv
<1>6. FlagInv'
  BY <1>1, FlagsStay
<1> QED BY <1>4, <1>5, <1>6

-----------------------------------------------------------------------------
LEMMA OfRoomKeeps ==
  ASSUME RoomInv, OfRoom
  PROVE  RoomInv' /\ UNCHANGED <<heap, channels>> /\ UNCHANGED storeVars
<1>1. PICK c \in ChannelIDs : CloseRoom(c) \/ \E r \in RoomHandles : OpenRoom(c, r)
  BY DEF OfRoom
<1>2. CASE CloseRoom(c)
  <2>1. /\ DOMAIN rooms' = DOMAIN rooms \ {c} /\ \A x \in DOMAIN rooms' : rooms'[x] = rooms[x]
        /\ live' = {p \in live : p[1] # c}
        /\ UNCHANGED <<heap, channels, occupancies>>
    BY <1>2 DEF CloseRoom, Without
  <2>2. ASSUME NEW p \in live'
        PROVE  \E x \in DOMAIN rooms' : p = <<x, rooms'[x]>>
    <3>1. PICK x \in DOMAIN rooms : p = <<x, rooms[x]>>
      BY <2>1 DEF RoomInv
    <3> QED BY <2>1, <3>1
  <2>3. RoomInv'
    BY <2>1, <2>2 DEF RoomInv
  <2> QED BY <2>1, <2>3 DEF OfRoom
<1>3. ASSUME NEW r \in RoomHandles, OpenRoom(c, r)
      PROVE  RoomInv' /\ UNCHANGED <<heap, channels>>
  <2>1. /\ DOMAIN rooms' = DOMAIN rooms \cup {c} /\ rooms'[c] = r
        /\ \A x \in DOMAIN rooms : rooms'[x] = rooms[x]
        /\ live' = live \cup {<<c, r>>} /\ c \in DOMAIN channels
        /\ UNCHANGED <<heap, channels, occupancies>>
    BY <1>3 DEF OpenRoom, Having
  <2>2. ASSUME NEW p \in live'
        PROVE  \E x \in DOMAIN rooms' : p = <<x, rooms'[x]>>
    <3>1. CASE p = <<c, r>>
      BY <2>1, <3>1
    <3>2. CASE p \in live
      <4>1. PICK x \in DOMAIN rooms : p = <<x, rooms[x]>>
        BY <3>2 DEF RoomInv
      <4> QED BY <2>1, <4>1
    <3> QED BY <2>1, <3>1, <3>2
  <2> QED BY <2>1, <2>2 DEF RoomInv
<1> QED BY <1>1, <1>2, <1>3 DEF OfRoom

(* A member is let in where the space holds a channel, and nowhere else.   *)
LEMMA OfMemberKeeps ==
  ASSUME RoomInv, OfMember
  PROVE  RoomInv' /\ UNCHANGED <<heap, channels>> /\ UNCHANGED storeVars
<1>1. PICK m \in Principals \cup {None} :
        Leave(m) \/ \E c \in ChannelIDs : Enter(m, c) \/ Switch(m, c)
  BY DEF OfMember
<1>2. UNCHANGED storeVars
  BY DEF OfMember
<1>3. CASE Leave(m)
  <2>1. /\ DOMAIN occupancies' \subseteq DOMAIN occupancies
        /\ \A x \in DOMAIN occupancies' : occupancies'[x] = occupancies[x]
        /\ UNCHANGED <<heap, channels, rooms, live>>
    BY <1>3 DEF Leave, Without
  <2> QED BY <1>2, <2>1 DEF RoomInv
<1>4. ASSUME NEW c \in ChannelIDs, Enter(m, c) \/ Switch(m, c)
      PROVE  RoomInv' /\ UNCHANGED <<heap, channels>>
  <2>1. m \in Principals /\ c \in DOMAIN channels /\ UNCHANGED <<heap, channels, rooms, live>>
    BY <1>4 DEF Enter, Switch, ZeroError
  <2>2. /\ DOMAIN occupancies' = DOMAIN occupancies \cup {m} /\ occupancies'[m] = c
        /\ \A x \in DOMAIN occupancies \ {m} : occupancies'[x] = occupancies[x]
    BY <1>4 DEF Enter, Switch, Having
  <2> QED BY <2>1, <2>2 DEF RoomInv
<1> QED BY <1>1, <1>2, <1>3, <1>4

-----------------------------------------------------------------------------
(* A call of Grant asks for permissions of this build, about somebody.     *)
LEMMA CheckedRequest ==
  ASSUME NEW r \in Request, GrantError(r) = "nil"
  PROVE  /\ r.granted \in Seq(Permission) /\ r.principal \in Principals /\ r.subject \in Subjects
         /\ \A perm \in Listed(r.granted) :
              /\ perm \in Permission
              /\ RowOf(r, perm) \in [principal : Principals, subject : Subjects, permission : Permission]
<1>1. /\ r.principal \in Principals
      /\ r.subject \in [space : Spaces \cup {None}, channel : ChannelIDs \cup {None}]
      /\ r.subject.space # None
      /\ r.granted \in Seq(Permission \cup {Retired})
      /\ \A i \in DOMAIN r.granted : r.granted[i] \in Permission
  BY DEF GrantError, Request, Parses
<1>2. r.subject \in Subjects
  BY <1>1 DEF Subjects
<1>3. r.granted \in Seq(Permission)
  <2> DEFINE names == r.granted
  <2>1. names \in Seq(Permission \cup {Retired}) /\ \A i \in DOMAIN names : names[i] \in Permission
    BY <1>1
  <2> HIDE DEF names
  <2>2. Len(names) \in Nat /\ names \in [1..Len(names) -> Permission]
    BY <2>1
  <2>3. names \in Seq(Permission)
    BY <2>2
  <2> QED BY <2>3 DEF names
<1>4. \A perm \in Listed(r.granted) : perm \in Permission
  BY <1>1 DEF Listed
<1> QED BY <1>1, <1>2, <1>3, <1>4 DEF RowOf

(* What a statement writes, and what it leaves: nothing gets lost.         *)
LEMMA BatchAndRest ==
  ASSUME NEW left \in Seq(Permission), left # << >>
  PROVE  LET rest == SubSeq(left, Len(Batch(left)) + 1, Len(left)) IN
         /\ rest \in Seq(Permission) /\ Listed(rest) \subseteq Listed(left)
         /\ Listed(Batch(left)) \subseteq Listed(left)
         /\ Listed(left) = Listed(Batch(left)) \cup Listed(rest)
<1> DEFINE n == Len(Batch(left))
           rest == SubSeq(left, n + 1, Len(left))
<1>1. n \in 1..Len(left) /\ DOMAIN Batch(left) = 1..n /\ \A i \in 1..n : Batch(left)[i] = left[i]
  <2>1. CASE Backend = "memory"
    BY <2>1 DEF Batch
  <2>2. CASE Backend # "memory"
    <3>1. Batch(left) = <<left[1]>> /\ Len(left) >= 1
      BY <2>2 DEF Batch
    <3> QED BY <3>1
  <2> QED BY <2>1, <2>2
<1> HIDE DEF n
<1>2. /\ rest \in Seq(Permission) /\ DOMAIN rest = 1..(Len(left) - n)
      /\ \A i \in 1..(Len(left) - n) : rest[i] = left[i + n]
  BY <1>1
<1>3. DOMAIN left = 1..Len(left) /\ Len(left) \in Nat
  OBVIOUS
<1>4. Listed(rest) \subseteq Listed(left)
  <2> SUFFICES ASSUME NEW i \in DOMAIN rest PROVE \E j \in DOMAIN left : rest[i] = left[j]
    BY DEF Listed
  <2>1. i + n \in DOMAIN left /\ rest[i] = left[i + n]
    BY <1>1, <1>2, <1>3
  <2> QED BY <2>1
<1>5. Listed(Batch(left)) \subseteq Listed(left)
  <2> SUFFICES ASSUME NEW i \in 1..n PROVE \E j \in DOMAIN left : Batch(left)[i] = left[j]
    BY <1>1 DEF Listed
  <2> QED BY <1>1, <1>3
<1>6. Listed(left) \subseteq Listed(Batch(left)) \cup Listed(rest)
  <2> SUFFICES ASSUME NEW i \in DOMAIN left
               PROVE  \/ \E j \in DOMAIN Batch(left) : left[i] = Batch(left)[j]
                      \/ \E j \in DOMAIN rest : left[i] = rest[j]
    BY DEF Listed
  <2>1. CASE i \in 1..n
    BY <1>1, <2>1
  <2>2. CASE i \notin 1..n
    <3>1. i - n \in DOMAIN rest /\ rest[i - n] = left[i]
      BY <1>1, <1>2, <1>3, <2>2
    <3> QED BY <3>1
  <2> QED BY <2>1, <2>2
<1> HIDE DEF rest
<1>7. Listed(left) = Listed(Batch(left)) \cup Listed(rest)
  BY <1>4, <1>5, <1>6
<1> QED BY <1>2, <1>4, <1>5, <1>7 DEF rest, n

LEMMA GrantBeginsKeeps ==
  ASSUME GrantInv, NEW c \in Callers, NEW r \in Requests, GrantBegins(c, r),
         UNCHANGED <<called, answered>>
  PROVE  GrantInv'
<1>1. /\ GrantError(r) = "nil" /\ grants' = grants
      /\ DOMAIN granting' = DOMAIN granting \cup {c}
      /\ granting'[c] = [request |-> r, left |-> r.granted]
      /\ \A d \in DOMAIN granting : granting'[d] = granting[d]
  BY DEF GrantBegins, Having
<1>2. r \in Request /\ r.granted \in Seq(Permission)
  BY <1>1, AskedAssumption, CheckedRequest
<1>3. CallInv(c)'
  BY <1>1, <1>2 DEF CallInv
<1>4. \A d \in DOMAIN granting : CallInv(d)'
  BY <1>1 DEF GrantInv, CallInv
<1> QED BY <1>1, <1>3, <1>4 DEF GrantInv

LEMMA GrantWritesKeeps ==
  ASSUME GrantInv, NEW c \in Callers, GrantWrites(c),
         called' = called \cup {granting[c].request}, UNCHANGED answered
  PROVE  GrantInv'
<1> DEFINE r == granting[c].request
           left == granting[c].left
           rest == SubSeq(left, Len(Batch(left)) + 1, Len(left))
           written == {RowOf(r, perm) : perm \in Listed(Batch(left))}
<1>1. c \in DOMAIN granting /\ left # << >> /\ CallInv(c)
  BY DEF GrantWrites, GrantInv
<1>2. /\ r \in Request /\ GrantError(r) = "nil" /\ left \in Seq(Permission)
      /\ Listed(left) \subseteq Listed(r.granted)
      /\ \A perm \in Listed(r.granted) : RowOf(r, perm) \in grants \/ perm \in Listed(left)
  BY <1>1 DEF CallInv
<1>3. /\ rest \in Seq(Permission) /\ Listed(rest) \subseteq Listed(left)
      /\ Listed(Batch(left)) \subseteq Listed(left)
      /\ Listed(left) = Listed(Batch(left)) \cup Listed(rest)
  BY <1>1, <1>2, BatchAndRest
<1>4. grants' = grants \cup written
  <2>1. \A b : LET q == [r EXCEPT !.granted = b] IN
               q.principal = r.principal /\ q.subject = r.subject /\ q.granted = b
    BY <1>2 DEF Request
  <2>2. Rows([r EXCEPT !.granted = Batch(left)]) = written
    BY <2>1 DEF Rows, RowOf, Listed
  <2> QED BY <2>2 DEF GrantWrites
<1>5. granting' = [granting EXCEPT ![c].left = rest]
  BY DEF GrantWrites
<1> HIDE DEF rest
<1>6. /\ DOMAIN granting' = DOMAIN granting
      /\ granting'[c].request = r /\ granting'[c].left = rest
      /\ granting'[c] \in [request : Request, left : Seq(Permission)]
      /\ \A d \in DOMAIN granting \ {c} : granting'[d] = granting[d]
  <2>1. granting[c] \in [request : Request, left : Seq(Permission)]
    BY <1>1 DEF CallInv
  <2> QED BY <1>1, <1>3, <1>5, <2>1
<1>7. ASSUME NEW d \in DOMAIN granting PROVE CallInv(d)'
  <2>1. CASE d # c
    BY <1>4, <1>6, <2>1 DEF GrantInv, CallInv
  <2>2. CASE d = c
    <3>1. \A perm \in Listed(r.granted) : RowOf(r, perm) \in grants' \/ perm \in Listed(rest)
      BY <1>2, <1>3, <1>4
    <3>2. Listed(rest) \subseteq Listed(r.granted)
      BY <1>2, <1>3
    <3> QED BY <1>2, <1>3, <1>6, <2>2, <3>1, <3>2 DEF CallInv
  <2> QED BY <2>1, <2>2
<1>8. ASSUME NEW g \in grants' \ Legacy
      PROVE  /\ g \in [principal : Principals, subject : Subjects, permission : Permission]
             /\ g.permission \in AskedFor(called', g.principal, g.subject)
  <2>1. CASE g \in grants
    BY <1>8, <2>1, AskedForMore DEF GrantInv
  <2>2. CASE g \in written
    <3>1. PICK perm \in Listed(Batch(left)) : g = RowOf(r, perm)
      BY <2>2
    <3>2. perm \in Listed(r.granted)
      BY <1>2, <1>3
    <3>3. g \in [principal : Principals, subject : Subjects, permission : Permission]
      BY <1>2, <3>1, <3>2, CheckedRequest
    <3>4. g.permission = perm /\ g.principal = r.principal /\ g.subject = r.subject
      BY <3>1 DEF RowOf
    <3>5. perm \in AskedFor(called', r.principal, r.subject)
      BY <3>2 DEF AskedFor, Listed
    <3> QED BY <3>3, <3>4, <3>5
  <2> QED BY <1>4, <2>1, <2>2
<1> QED BY <1>4, <1>6, <1>7, <1>8 DEF GrantInv

LEMMA GrantEndsKeeps ==
  ASSUME GrantInv, NEW c \in Callers, UNCHANGED called,
         \/ GrantFails(c) /\ UNCHANGED answered
         \/ GrantReturns(c) /\ answered' = answered \cup {granting[c].request}
  PROVE  GrantInv'
<1> DEFINE r == granting[c].request
<1>1. /\ c \in DOMAIN granting /\ grants' = grants
      /\ DOMAIN granting' = DOMAIN granting \ {c}
      /\ \A d \in DOMAIN granting' : granting'[d] = granting[d]
  BY DEF GrantFails, GrantReturns, Without
<1>2. \A d \in DOMAIN granting' : CallInv(d)'
  BY <1>1 DEF GrantInv, CallInv
<1>3. ASSUME NEW q \in answered', NEW perm \in Listed(q.granted)
      PROVE  RowOf(q, perm) \in grants /\ perm \in Permission
  <2>1. CASE q \in answered
    BY <2>1 DEF GrantInv
  <2>2. CASE q \notin answered
    <3>1. q = r /\ granting[c].left = << >> /\ CallInv(c)
      BY <1>1, <2>2 DEF GrantReturns, GrantInv
    <3>2. Listed(<< >>) = {}
      BY DEF Listed
    <3>3. r \in Request /\ GrantError(r) = "nil" /\ RowOf(r, perm) \in grants
      BY <3>1, <3>2 DEF CallInv
    <3> QED BY <3>1, <3>3, CheckedRequest
  <2> QED BY <2>1, <2>2
<1> QED BY <1>1, <1>2, <1>3 DEF GrantInv

-----------------------------------------------------------------------------
LEMMA PutChannelKeeps ==
  ASSUME HeapInv, FlagInv, NEW h \in DOMAIN heap, PutChannel(h), UNCHANGED <<channels, called>>
  PROVE  HeapInv' /\ FlagInv'
<1>1. PICK id \in ChannelIDs : id = heap[h].id
  BY DEF HeapInv, Channel
<1>2. /\ DOMAIN table' = DOMAIN table \cup {id} /\ table'[id] = Kept(h) /\ heap' = heap
      /\ \A c \in DOMAIN table \ {id} : table'[c] = table[c]
  BY <1>1 DEF PutChannel, Having
<1>3. Row(id)' = heap[h] /\ (Backend = "memory" => table'[id] = h)
  BY <1>2 DEF Row, Kept
<1>4. \A c \in DOMAIN table \ {id} : Row(c)' = Row(c)
  BY <1>2 DEF Row
<1>5. HeapInv'
  BY <1>2, <1>3, <1>4 DEF HeapInv
<1>6. FlagInv'
  BY <1>2, <1>3, <1>4 DEF FlagInv, Managed
<1> QED BY <1>5, <1>6

LEMMA SetGainKeeps ==
  ASSUME RowsInv, NEW l \in Principals, NEW s \in Principals, NEW n \in Percents, SetGain(l, s, n)
  PROVE  RowsInv'
<1>1. n \in MinGain..MaxGain /\ membership' = membership
  BY DEF SetGain, GainError
<1>2. CASE n = DefaultGain
  <2>1. DOMAIN gains' \subseteq DOMAIN gains /\ \A g \in DOMAIN gains' : gains'[g] = gains[g]
    BY <1>2 DEF SetGain, Without
  <2> QED BY <1>1, <2>1 DEF RowsInv
<1>3. CASE n # DefaultGain
  <2>1. /\ DOMAIN gains' = DOMAIN gains \cup {<<l, s>>} /\ gains'[<<l, s>>] = n
        /\ \A g \in DOMAIN gains \ {<<l, s>>} : gains'[g] = gains[g]
    BY <1>3 DEF SetGain, Having
  <2> QED BY <1>1, <1>3, <2>1 DEF RowsInv
<1> QED BY <1>2, <1>3

LEMMA OfStoreKeeps ==
  ASSUME IInv, OfStore
  PROVE  IInv'
<1> USE DEF IInv
<1>1. UNCHANGED <<spaceVars, called, answered>>
  BY DEF OfStore
<1>2. ASSUME NEW h \in DOMAIN heap, PutChannel(h)
      PROVE  IInv'
  <2>1. HeapInv' /\ FlagInv'
    BY <1>1, <1>2, PutChannelKeeps DEF spaceVars
  <2> QED BY <1>1, <1>2, <2>1, Stays DEF PutChannel, spaceVars
<1>3. ASSUME NEW p \in Principals \cup {None}, PutMember(Home, p)
      PROVE  IInv'
  <2>1. p \in Principals
    BY <1>3 DEF PutMember, PairError
  <2>2. RowsInv'
    BY <1>3, <2>1, HomeAssumption DEF RowsInv, PutMember
  <2> QED BY <1>1, <1>3, <2>2, Stays, FlagsStay DEF PutMember, spaceVars
<1>4. ASSUME NEW l \in Principals, NEW s \in Principals, NEW n \in Percents, SetGain(l, s, n)
      PROVE  IInv'
  <2>1. RowsInv'
    BY <1>4, SetGainKeeps
  <2> QED BY <1>1, <1>4, <2>1, Stays, FlagsStay DEF SetGain, spaceVars
<1> QED BY <1>2, <1>3, <1>4 DEF OfStore

LEMMA GrantsKeeps ==
  ASSUME IInv, NEW c \in Callers, Grants(c)
  PROVE  IInv'
<1> USE DEF IInv
<1>1. UNCHANGED spaceVars
  BY DEF Grants
<1>2. /\ UNCHANGED <<heap, table, membership, gains>> /\ called \subseteq called'
      /\ GrantInv'
  BY GrantBeginsKeeps, GrantWritesKeeps, GrantEndsKeeps
     DEF Grants, GrantBegins, GrantWrites, GrantFails, GrantReturns
<1> QED BY <1>1, <1>2, Stays, FlagsStay DEF spaceVars

LEMMA OfChannelKeeps ==
  ASSUME IInv, NEW h \in Handles, OfChannel(h), UNCHANGED histories
  PROVE  IInv'
<1> USE DEF IInv, histories
<1>1. CASE AddChannel(h) /\ UNCHANGED storeVars
  <2>1. HeapInv' /\ RoomInv' /\ FlagInv'
    BY <1>1, AddChannelKeeps DEF storeVars
  <2> QED BY <1>1, <2>1, Stays DEF storeVars
<1>2. CASE ~ (AddChannel(h) /\ UNCHANGED storeVars)
  <2>1. /\ HeapInv' /\ FlagInv'
        /\ UNCHANGED <<channels, rooms, occupancies, live, membership, grants, gains, granting>>
    BY <1>2, BuilderKeeps, ForgetsKeeps, SetsFlagKeeps, ReadChannelKeeps
       DEF OfChannel, Builder, Forgets, SetsFlag, ReadChannel, NewChannel, SetAlwaysOn,
           spaceVars, storeVars
  <2> QED BY <2>1, Stays
<1> QED BY <1>1, <1>2 DEF OfChannel

LEMMA RestartsKeeps ==
  ASSUME IInv, Restarts, UNCHANGED histories
  PROVE  IInv'
<1> USE DEF IInv, histories
<1>1. /\ Backend = "sqlite" /\ DOMAIN heap' = {} /\ DOMAIN channels' = {} /\ DOMAIN rooms' = {}
      /\ DOMAIN occupancies' = {} /\ live' = {} /\ DOMAIN granting' = {}
      /\ UNCHANGED <<table, membership, grants, gains, called, answered>>
  BY DEF Restarts
<1>2. \A c \in DOMAIN table : Row(c)' = Row(c)
  BY <1>1, BackendAssumption DEF Row
<1>3. HeapInv' /\ RoomInv'
  BY <1>1, <1>2 DEF HeapInv, RoomInv
<1>4. GrantInv' /\ FlagInv'
  BY <1>1, <1>2 DEF GrantInv, FlagInv, Managed
<1> QED BY <1>1, <1>3, <1>4, Stays

LEMMA NextInv == IInv /\ [Next]_vars => IInv'
<1> SUFFICES ASSUME IInv, [Next]_vars PROVE IInv'
  OBVIOUS
<1>1. CASE UNCHANGED vars
  BY <1>1, Stays, FlagsStay DEF IInv, vars, spaceVars, storeVars, histories
<1>2. ASSUME UNCHANGED histories, Lists \/ OfRoom
      PROVE  IInv'
  <2>1. CASE Lists
    <3>1. HeapInv' /\ FlagInv'
      BY <1>2, <2>1, ListsKeeps DEF IInv, histories
    <3> QED BY <1>2, <2>1, <3>1, Stays DEF IInv, Lists, histories, spaceVars, storeVars
  <2>2. CASE OfRoom
    BY <1>2, <2>2, OfRoomKeeps, Stays, FlagsStay DEF IInv, histories, storeVars
  <2> QED BY <1>2, <2>1, <2>2
<1>3. ASSUME UNCHANGED histories, OfMember
      PROVE  IInv'
  BY <1>3, OfMemberKeeps, Stays, FlagsStay DEF IInv, histories, storeVars
<1> QED BY <1>1, <1>2, <1>3, GrantsKeeps, OfChannelKeeps, RestartsKeeps, OfStoreKeeps DEF Next

LEMMA Invariance == Spec => []IInv
BY InitInv, NextInv, PTL DEF Spec

-----------------------------------------------------------------------------
(* What is held is of the types the code declares, whoever calls what.     *)
THEOREM TypeCorrect == Spec => []TypeOK
<1>1. IInv => TypeOK
  <2> SUFFICES ASSUME IInv PROVE TypeOK
    OBVIOUS
  <2> USE DEF IInv
  <2>1. \A m \in DOMAIN occupancies : occupancies[m] \in ChannelIDs
    BY DEF HeapInv, RoomInv
  <2>2. DOMAIN rooms \subseteq ChannelIDs
    BY DEF HeapInv, RoomInv
  <2>3. \A c \in DOMAIN granting : granting[c].request \in Request
    BY DEF GrantInv, CallInv
  <2> QED BY <2>1, <2>2, <2>3 DEF TypeOK, HeapInv, RoomInv, GrantInv, RowsInv
<1> QED BY <1>1, Invariance, PTL

(* No operation of a space, in any order and with any handles shared,      *)
(* makes it hold another space's channel, seat somebody or run a room      *)
(* where it holds none, or run two rooms for one channel (SpaceHolds).     *)
THEOREM SpacesHold == Spec => []SpaceHolds
<1>1. IInv => SpaceHolds
  <2> SUFFICES ASSUME IInv PROVE SpaceHolds
    OBVIOUS
  <2>1. \A p \in live : p[1] \in DOMAIN rooms /\ p = <<p[1], rooms[p[1]]>>
    BY DEF IInv, RoomInv
  <2>2. \A p, q \in live : p[1] = q[1] => p = q
    BY <2>1
  <2> QED BY <2>2 DEF IInv, HeapInv, RoomInv, SpaceHolds, Occupants
<1> QED BY <1>1, Invariance, PTL

(* Whatever Allow answers yes to, some Grant asked for exactly that, on    *)
(* either store, however many callers are inside Grant, and wherever a     *)
(* write fails or the process ends (AllowedIsAsked).                       *)
THEOREM AllowedWasAsked == Spec => []AllowedIsAsked
<1>1. IInv => AllowedIsAsked
  <2> SUFFICES ASSUME IInv, NEW p \in Principals, NEW s \in Subjects, NEW perm \in Permission,
                      Allow(Granted(p, s), p, perm, s)
               PROVE  /\ perm \in AskedFor(called, p, s)
                      /\ perm = "manage-space" <=> s.channel = None
                      /\ s.channel # None => "see-channel" \in AskedFor(called, p, s)
    BY DEF AllowedIsAsked
  <2>1. /\ perm \in Granted(p, s)
        /\ perm = "manage-space" <=> s.channel = None
        /\ s.channel # None => "see-channel" \in Granted(p, s)
    BY DEF Allow, AboutChannel, OnAChannel
  <2> QED BY <2>1, GrantedIsAsked DEF IInv
<1> QED BY <1>1, Invariance, PTL

(* A Grant that answered nil stays answered: no failure, restart or row    *)
(* this build cannot read takes back what it wrote (AnsweredIsHeld).       *)
THEOREM AnsweredStays == Spec => []AnsweredIsHeld
<1>1. IInv => AnsweredIsHeld
  <2> SUFFICES ASSUME IInv, NEW r \in answered, NEW i \in DOMAIN r.granted
               PROVE  r.granted[i] \in Granted(r.principal, r.subject)
    BY DEF AnsweredIsHeld
  <2>1. RowOf(r, r.granted[i]) \in grants /\ r.granted[i] \in Permission
    BY DEF IInv, GrantInv, Listed
  <2> QED BY <2>1 DEF Granted, NewPermissionSet, RowOf
<1> QED BY <1>1, Invariance, PTL

(* A flag that is up was put up by somebody who had asked for the right,   *)
(* in the process and in the store, across restarts (OnlyManagersChange).  *)
THEOREM FlagsAreManaged == Spec => []OnlyManagersChange
<1>1. IInv => OnlyManagersChange
  BY DEF IInv, FlagInv, Managed, OnlyManagersChange
<1> QED BY <1>1, Invariance, PTL

-----------------------------------------------------------------------------
(* Over SQLite, what was last accepted is what the rows say.               *)
WrittenInv ==
  /\ table = lastPut /\ membership = joined
  /\ \A l, s \in Principals :
       Gain(l, s) = IF <<l, s>> \in DOMAIN lastSet THEN lastSet[<<l, s>>] ELSE DefaultGain

LEMMA SetGainIsRead ==
  ASSUME WrittenInv, NEW l \in Principals, NEW s \in Principals, NEW n \in Percents,
         SetGain(l, s, n), lastSet' = Having(lastSet, <<l, s>>, n)
  PROVE  \A a, b \in Principals :
           Gain(a, b)' = IF <<a, b>> \in DOMAIN lastSet' THEN lastSet'[<<a, b>>] ELSE DefaultGain
<1> SUFFICES ASSUME NEW a \in Principals, NEW b \in Principals
             PROVE  Gain(a, b)' = IF <<a, b>> \in DOMAIN lastSet' THEN lastSet'[<<a, b>>]
                                  ELSE DefaultGain
  OBVIOUS
<1>1. /\ DOMAIN lastSet' = DOMAIN lastSet \cup {<<l, s>>} /\ lastSet'[<<l, s>>] = n
      /\ <<a, b>> # <<l, s>> /\ <<a, b>> \in DOMAIN lastSet
           => lastSet'[<<a, b>>] = lastSet[<<a, b>>]
  BY DEF Having
<1>2. Gain(a, b)' = IF <<a, b>> = <<l, s>> THEN n ELSE Gain(a, b)
  <2>1. CASE n = DefaultGain
    BY <2>1 DEF SetGain, Gain, Without
  <2>2. CASE n # DefaultGain
    BY <2>2 DEF SetGain, Gain, Having
  <2> QED BY <2>1, <2>2
<1> QED BY <1>1, <1>2 DEF WrittenInv

LEMMA WrittenStays ==
  WrittenInv /\ UNCHANGED <<table, lastPut, membership, joined, gains, lastSet>> => WrittenInv'
BY DEF WrittenInv, Gain

LEMMA NextWritten ==
  ASSUME Backend = "sqlite", WrittenInv, [Next]_vars
  PROVE  WrittenInv'
<1>1. CASE OfStore
  <2>1. ASSUME NEW h \in DOMAIN heap, PutChannel(h), lastPut' = Having(lastPut, heap[h].id, heap[h]),
               UNCHANGED <<lastSet, joined>>
        PROVE  WrittenInv'
    BY <2>1 DEF PutChannel, Kept, WrittenInv, Gain
  <2>2. ASSUME NEW p \in Principals \cup {None}, PutMember(Home, p),
               joined' = joined \cup {<<Home, p>>}, UNCHANGED <<lastPut, lastSet>>
        PROVE  WrittenInv'
    BY <2>2 DEF PutMember, WrittenInv, Gain
  <2>3. ASSUME NEW l \in Principals, NEW s \in Principals, NEW n \in Percents, SetGain(l, s, n),
               lastSet' = Having(lastSet, <<l, s>>, n), UNCHANGED <<lastPut, joined>>
        PROVE  WrittenInv'
    BY <2>3, SetGainIsRead DEF SetGain, WrittenInv
  <2> QED BY <1>1, <2>1, <2>2, <2>3 DEF OfStore
<1>2. CASE ~ OfStore
  <2>1. UNCHANGED <<table, lastPut, membership, joined, gains, lastSet>>
    BY <1>2 DEF Next, vars, histories, storeVars, Grants, GrantBegins, GrantWrites, GrantFails,
                GrantReturns, OfChannel, Builder, Forgets, SetsFlag, ReadChannel, Lists, OfRoom,
                OfMember, Restarts
  <2> QED BY <2>1, WrittenStays
<1> QED BY <1>1, <1>2

(* Over the SQLite store every read answers the last write, for any        *)
(* number of channels and members, through every restart and whatever is   *)
(* done to a channel after it was put (ReadsAnswerTheLastWrite).  Over the *)
(* in-memory store it does not: the hypothesis is needed.                  *)
THEOREM ReadsAnswerWrites ==
  ASSUME Backend = "sqlite"
  PROVE  Spec => []ReadsAnswerTheLastWrite
<1>1. Init => WrittenInv
  BY DEF Init, NewSpace, WrittenInv, Gain
<1>2. WrittenInv /\ [Next]_vars => WrittenInv'
  BY NextWritten
<1>3. WrittenInv => ReadsAnswerTheLastWrite
  BY DEF WrittenInv, ReadsAnswerTheLastWrite, Row, Members
<1> QED BY <1>1, <1>2, <1>3, PTL DEF Spec

=============================================================================
