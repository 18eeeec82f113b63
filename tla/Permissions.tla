----------------------------- MODULE Permissions -----------------------------
(* The permission model (internal/orchestration/permission.go): what may be  *)
(* asked about a space or a channel, and the one function that answers.  A   *)
(* permission is its name; None is the zero ID, in a subject the absence of  *)
(* a channel.  Retired is a name no build declares any more, or not yet.     *)
CONSTANTS None, Retired

OnAChannel == {"see-channel", "join-channel", "speak-in-channel", "mute-member",
               "move-member", "manage-channel"}

Permission == OnAChannel \cup {"manage-space"}

ASSUME RetiredAssumption == Retired \notin Permission

SpaceSubject(space) == [space |-> space, channel |-> None]

ChannelSubject(space, channel) == [space |-> space, channel |-> channel]

AboutChannel(subject) == subject.channel # None

NewPermissionSet(granted) == granted \cap Permission

(* Mutation of Allow: what is granted is allowed, seen or not.               *)
AllowUnseen(granted, principal, perm, subject) ==
  /\ None \notin {principal, subject.space}
  /\ perm \in granted
  /\ perm \in IF AboutChannel(subject) THEN OnAChannel ELSE {"manage-space"}

(* granted is what the Grantor answers for this principal on this subject;   *)
(* an absent Grantor and one that does not know are the empty set.           *)
Allow(granted, principal, perm, subject) ==
  /\ None \notin {principal, subject.space}
  /\ \/ perm = "manage-space" /\ ~ AboutChannel(subject) /\ perm \in granted
     \/ perm \in OnAChannel /\ AboutChannel(subject) /\ {"see-channel", perm} \subseteq granted
=============================================================================
