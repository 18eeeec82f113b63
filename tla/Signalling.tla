------------------------------ MODULE Signalling ------------------------------
(* The server's half of a signalling connection: frames (frame.go), the gate *)
(* (conn.go) and the agreement on a version (negotiation.go), all of         *)
(* internal/signalling.  What a peer has written is a sequence of headers    *)
(* with their payloads; a payload of fields keeps their order, whether the   *)
(* last of them is whole, and of a value the number it reads as, or Wide for *)
(* one that is not two bytes.                                                *)
EXTENDS Integers, Sequences
CONSTANTS Conns, MinSupportedVersion, MaxSupportedVersion, None,
          Wide,      \* a value that does not read as a version
          TooLarge   \* a payload above MaxPayloadSize

ASSUME VersionsAssumption ==
  /\ MinSupportedVersion \in Nat /\ MaxSupportedVersion \in Nat
  /\ MinSupportedVersion =< MaxSupportedVersion

VARIABLES wire,           \* what the peer wrote and the server has not read
          ended,          \* whether the peer's writes have come to an end
          reply,          \* the frame Negotiate wrote, which is its only one
          authenticated,  \* Conn.authenticated
          refused,        \* Conn.refused
          result          \* history: the error ReadFrame last returned

connVars == <<wire, ended, reply, authenticated, refused, result>>

Reserved == 0
Authenticate == 1
SpaceState == 2
Hello == 3
VersionAgreed == 4
VersionRefused == 5

Known(kind) == kind \in {Authenticate, SpaceState, Hello, VersionAgreed, VersionRefused}

Ok == "nil"

InitConns ==
  /\ wire = [c \in Conns |-> << >>] /\ ended = [c \in Conns |-> FALSE]
  /\ reply = [c \in Conns |-> None]
  /\ authenticated = [c \in Conns |-> FALSE] /\ refused = [c \in Conns |-> Ok]
  /\ result = [c \in Conns |-> None]

-----------------------------------------------------------------------------
(* Decode: the length before the kind, and either before the payload.  A     *)
(* header that is refused is read all the same; the bytes behind it are the  *)
(* peer's next header.  A read waits for the peer, or for its end.           *)
CanRead(c) == wire[c] # << >> \/ ended[c]

DecodeError(c) ==
  IF wire[c] = << >> THEN "io.EOF"
  ELSE IF Head(wire[c]).payload = TooLarge THEN "ErrFrameTooLarge"
  ELSE IF Head(wire[c]).kind = Reserved THEN "ErrKindReserved" ELSE Ok

Rest(c) == IF wire[c] = << >> THEN << >> ELSE Tail(wire[c])

(* What is wrong with the next frame.                                        *)
FrameError(c) ==
  IF DecodeError(c) # Ok THEN DecodeError(c)
  ELSE IF ~ authenticated[c] /\ Head(wire[c]).kind # Authenticate
  THEN "ErrUnauthenticated"
  ELSE IF ~ Known(Head(wire[c]).kind) THEN "ErrUnknownMessage" ELSE Ok

ReadError(c) == IF refused[c] # Ok THEN refused[c] ELSE FrameError(c)

(* Mutation of ReadFrame: a refused connection is read again.                *)
ReadFrameAgain(c, err) ==
  /\ CanRead(c)
  /\ refused' = IF FrameError(c) \in {"ErrUnauthenticated", "ErrUnknownMessage"}
                THEN [refused EXCEPT ![c] = FrameError(c)] ELSE refused
  /\ result' = [result EXCEPT ![c] = FrameError(c)]
  /\ wire' = [wire EXCEPT ![c] = Rest(c)]
  /\ UNCHANGED <<ended, reply, authenticated>>

(* Mutation of ReadFrame: every error refuses the connection for good.       *)
ReadFrameOnce(c, err) ==
  /\ refused[c] # Ok \/ CanRead(c)
  /\ err = ReadError(c)
  /\ refused' = [refused EXCEPT ![c] = err]
  /\ result' = [result EXCEPT ![c] = err]
  /\ wire' = IF refused[c] # Ok THEN wire ELSE [wire EXCEPT ![c] = Rest(c)]
  /\ UNCHANGED <<ended, reply, authenticated>>

(* ReadFrame, returning err: a refused connection is not read, and two       *)
(* errors refuse it for good.                                                *)
ReadFrame(c, err) ==
  /\ refused[c] # Ok \/ CanRead(c)
  /\ err = ReadError(c)
  /\ refused' = IF err \in {"ErrUnauthenticated", "ErrUnknownMessage"}
                THEN [refused EXCEPT ![c] = err] ELSE refused
  /\ result' = [result EXCEPT ![c] = err]
  /\ wire' = IF refused[c] # Ok THEN wire ELSE [wire EXCEPT ![c] = Rest(c)]
  /\ UNCHANGED <<ended, reply, authenticated>>

MarkAuthenticated(c) ==
  /\ authenticated' = [authenticated EXCEPT ![c] = TRUE]
  /\ UNCHANGED <<wire, ended, reply, refused, result>>

-----------------------------------------------------------------------------
Field(id, value) == [id |-> id, value |-> value]
Message(fields) == [fields |-> fields, whole |-> TRUE]

Messages == [fields : Seq([id : Nat, value : Nat \cup {Wide}]), whole : BOOLEAN]

DecodeFieldsError(payload) == IF payload.whole THEN Ok ELSE "ErrMalformedMessage"

(* The first field of that number counts, and an unknown one is skipped; a   *)
(* missing one and one of another width are both refused.                    *)
VersionField(fields, id) ==
  LET first == {i \in DOMAIN fields : /\ fields[i].id = id
                                     /\ \A j \in 1..i - 1 : fields[j].id # id}
  IN IF first = {} THEN Wide ELSE fields[CHOOSE i \in first : TRUE].value

HelloFrame(proposed) ==
  [kind |-> Hello, payload |-> Message(<<Field(1, proposed)>>)]

Refusal ==
  [kind |-> VersionRefused,
   payload |-> Message(<<Field(1, MinSupportedVersion), Field(2, MaxSupportedVersion),
                         Field(3, Wide)>>)]

Agreement(agreed) ==
  [kind |-> VersionAgreed, payload |-> Message(<<Field(1, agreed)>>)]

(* The client's reading of the two replies.                                  *)
AgreedVersion(f) == VersionField(f.payload.fields, 1)
RefusedVersions(f) ==
  <<VersionField(f.payload.fields, 1), VersionField(f.payload.fields, 2)>>

Proposed(c) == VersionField(Head(wire[c]).payload.fields, 1)
InRange(v) == MinSupportedVersion =< v /\ v =< MaxSupportedVersion

(* What is wrong with the first frame, before anything is written.           *)
HelloError(c) ==
  IF DecodeError(c) # Ok THEN DecodeError(c)
  ELSE IF ~ Known(Head(wire[c]).kind) THEN "ErrUnknownMessage"
  ELSE IF Head(wire[c]).kind # Hello THEN "ErrHelloExpected"
  ELSE IF DecodeFieldsError(Head(wire[c]).payload) # Ok \/ Proposed(c) = Wide
  THEN "ErrMalformedMessage" ELSE Ok

(* Mutation of NegotiationError: a proposal above the range is accepted.     *)
NegotiationErrorBelow(c, writeFails) ==
  IF HelloError(c) # Ok THEN HelloError(c)
  ELSE IF writeFails THEN "writing a frame"
  ELSE IF Proposed(c) < MinSupportedVersion THEN "ErrVersionUnsupported" ELSE Ok

NegotiationError(c, writeFails) ==
  IF HelloError(c) # Ok THEN HelloError(c)
  ELSE IF writeFails THEN "writing a frame"
  ELSE IF ~ InRange(Proposed(c)) THEN "ErrVersionUnsupported" ELSE Ok

(* Negotiate, which reads the stream past the gate: a proposal is answered   *)
(* before an error is returned for it, unless the answer cannot be written.  *)
Negotiate(c, writeFails, err) ==
  /\ CanRead(c)
  /\ err = NegotiationError(c, writeFails)
  /\ wire' = [wire EXCEPT ![c] = Rest(c)]
  /\ reply' = IF err = Ok THEN [reply EXCEPT ![c] = Agreement(Proposed(c))]
              ELSE IF err = "ErrVersionUnsupported" THEN [reply EXCEPT ![c] = Refusal]
              ELSE reply
  /\ UNCHANGED <<ended, authenticated, refused, result>>
=============================================================================
