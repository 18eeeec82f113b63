----------------------------- MODULE MCMediaFake -----------------------------
(* The media port's fake with two rooms, two members and both seats taken in *)
(* one room or in one each.                                                  *)
EXTENDS MediaFake, TLC

MCOffered == {{}, {"MayPublishAudio", "MaySubscribe"}}
MCLimits == {-1, 1}
MCRanges == {<<0, 4>>, <<0, 2>>}
Alike == Permutations(Rooms) \cup Permutations(Members)
=============================================================================
