\* Two members on one device each.
SPECIFICATION Spec
CONSTANTS
  ada = ada
  bob = bob
  cem = cem
  laptop = laptop
  phone = phone
  watcher = watcher
  Members = {ada, bob, cem}
  Channels = {general, lobby}
  Clients = {laptop, phone, watcher}
  Watchers = {watcher}
  ViewerOf <- OneDeviceEach
  Zero = Zero
  None = None
  TicksPerSecond = 1
  Instants = {0}
  Window = 1
  Breadth = 1
  MaxSeq = 2
  MaxTime = 2
SYMMETRY Alike
INVARIANTS LeaveThenJoin
CHECK_DEADLOCK FALSE
