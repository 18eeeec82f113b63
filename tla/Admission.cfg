SPECIFICATION Spec
CONSTANTS
  Conns = {c1}
  MinSupportedVersion = 1
  MaxSupportedVersion = 2
  Wide = Wide
  TooLarge = TooLarge
  None = None
  Tokens = {t1, t2}
  Owners = {ada, bob}
  Logins = {l1, l2}
  Lifetime = 2
  MaxTime = 3
  Transit = "TLSHere"
  Invented = Invented
  HelloSent <- MCHello
  MaxFrames = 1
SYMMETRY Alike
INVARIANT TypeOK
INVARIANT OnlyTheProvenAreAdmitted
INVARIANT DeadTokensAdmitNobody
INVARIANT BothHoldTheVersion
INVARIANT SessionsAreAccountedFor
PROPERTY RefusalsAreFinal
CHECK_DEADLOCK FALSE
