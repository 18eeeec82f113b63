------------------------------ MODULE MediaPort ------------------------------
(* The vocabulary of the media plane's port (internal/media/port.go): what a *)
(* member may do, what a call may answer, and which answers each operation   *)
(* declares.  Identities and source kinds the port names nothing by are the  *)
(* constants Nameless and UndefinedKind.                                     *)
EXTENDS Integers
CONSTANTS Rooms, Members, Kinds, Nameless, UndefinedKind

ASSUME KindsAssumption == /\ Kinds \subseteq {"audio", "video"}
                          /\ UndefinedKind \notin {"audio", "video"}
ASSUME NamesAssumption == Nameless \notin Rooms \cup Members

Capabilities == {"MayPublishAudio", "MayPublishVideo", "MaySubscribe"}

Publishing(kind) == IF kind = "video" THEN "MayPublishVideo" ELSE "MayPublishAudio"

Ok == "nil"

Common == {"ErrUnavailable", "ErrCancelled", "ErrInternal"}

Absent == {"ErrNoSuchRoom", "ErrNoSuchMember"}

(* The errors each operation declares beyond the common ones.                *)
DeclaredBy ==
  [CreateRoom        |-> {"ErrRoomLimitReached", "ErrInvalidIdentity"},
   DestroyRoom       |-> {"ErrInvalidIdentity"},
   AdmitMember       |-> {"ErrNoSuchRoom", "ErrMemberAlreadyAdmitted",
                          "ErrPermissionsNotExpressible", "ErrInvalidIdentity"},
   RevokeMember      |-> {"ErrNoSuchRoom"},
   PublishSource     |-> Absent \cup {"ErrNotPermitted", "ErrSourceAlreadyPublished",
                                      "ErrInvalidIdentity"},
   UnpublishSource   |-> Absent \cup {"ErrInvalidIdentity"},
   Subscribe         |-> Absent \cup {"ErrNoSuchSource", "ErrNotPermitted",
                                      "ErrInvalidIdentity"},
   Unsubscribe       |-> Absent \cup {"ErrInvalidIdentity"},
   SetSubscriberGain |-> {"ErrGainNotSupported", "ErrNoSuchSubscription",
                          "ErrGainOutOfRange"},
   SpeakingState     |-> {"ErrNoSuchRoom", "ErrNotObservable"},
   HopMetrics        |-> {"ErrNoSuchRoom", "ErrNotObservable"},
   DrainRoom         |-> {"ErrNoSuchRoom", "ErrDrainDeadlineExceeded"}]

Operations == DOMAIN DeclaredBy

Errors == Common \cup UNION {DeclaredBy[op] : op \in Operations}

InvalidKind(kind) == kind \notin {"audio", "video"}
=============================================================================
