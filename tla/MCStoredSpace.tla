---------------------------- MODULE MCStoredSpace ----------------------------
(* One channel built for the space that is served and for another, and a     *)
(* second of the served space; grants on a channel and on the space, one of  *)
(* two permissions and one with a name nothing declares.                     *)
EXTENDS StoredSpace, TLC
CONSTANTS c1, c2, home, away, ada

MCBuilds == {<<c1, home>>, <<c2, home>>, <<c1, away>>}

Call(subject, granted) == [principal |-> ada, subject |-> subject, granted |-> granted]

MCRequests ==
  {Call(ChannelSubject(home, c1), <<"manage-channel">>),
   Call(ChannelSubject(home, c1), <<"see-channel", "manage-channel">>),
   Call(SpaceSubject(home), <<"see-channel">>),
   Call(ChannelSubject(home, c1), <<"see-channel", Retired>>),
   Call(SpaceSubject(None), <<"manage-space">>)}

MCLegacy == {[principal |-> ada, subject |-> ChannelSubject(home, c1), permission |-> Retired]}

Alike == Permutations(Handles) \cup Permutations(RoomHandles)
=============================================================================
