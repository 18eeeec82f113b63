\* One client, two members, two channels, sequences up to three; a flush ends
\* every interval.
SPECIFICATION FairSpec
CONSTANTS
  ada = ada
  bob = bob
  laptop = laptop
  phone = phone
  Members = {ada, bob}
  Channels = {general, lobby}
  Clients = {laptop}
  ViewerOf <- OneClient
  Zero = Zero
  None = None
  TicksPerSecond = 1
  Instants = {0}
  MaxSeq = 3
  ReadsFail = FALSE
INVARIANTS HeldCountIsCurrent ShownListIsCurrent
PROPERTIES StaleCountIsCorrected
CHECK_DEADLOCK FALSE
