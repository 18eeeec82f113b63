\* Two viewers with grants of their own; reading a grant may fail.
SPECIFICATION Spec
CONSTANTS
  ada = ada
  bob = bob
  laptop = laptop
  phone = phone
  Members = {ada, bob}
  Channels = {general}
  Clients = {laptop, phone}
  ViewerOf <- TwoViewers
  Zero = Zero
  None = None
  TicksPerSecond = 1
  Instants = {0}
  MaxSeq = 2
  ReadsFail = TRUE
INVARIANT NothingHiddenIsHeld
CHECK_DEADLOCK FALSE
