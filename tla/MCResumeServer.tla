--------------------------- MODULE MCResumeServer ---------------------------
(* Finite instances of ResumeServer: who each connection is.               *)
EXTENDS ResumeServer, TLC

CONSTANTS ada, bob, cem, laptop, phone, watcher

(* Two people on one device each; the watcher is somebody else's screen.   *)
OneDeviceEach == laptop :> ada @@ phone :> bob @@ watcher :> cem

(* The two and their devices are alike, and so are the channels.           *)
Alike ==
  Permutations(Channels) \cup {ada :> bob @@ bob :> ada @@ laptop :> phone @@ phone :> laptop}

(* One person on two devices.                                              *)
TwoDevices == laptop :> ada @@ phone :> ada
=============================================================================
