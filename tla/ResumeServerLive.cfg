\* One member on two devices, both of which may go for good.
SPECIFICATION FairSpec
CONSTANTS
  ada = ada
  bob = bob
  cem = cem
  laptop = laptop
  phone = phone
  watcher = watcher
  Members = {ada, bob}
  Channels = {general}
  Clients = {laptop, phone}
  Watchers = {}
  ViewerOf <- TwoDevices
  Zero = Zero
  None = None
  TicksPerSecond = 1
  Instants = {0}
  Window = 1
  Breadth = 1
  MaxSeq = 2
  MaxTime = 2
PROPERTIES AbsenteesLeave
CHECK_DEADLOCK FALSE
