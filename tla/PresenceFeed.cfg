\* Two members, two channels, two reports each, in any order.
SPECIFICATION Spec
CONSTANTS
  Members = {ada, bob}
  Channels = {general, lobby}
  Zero = Zero
  TicksPerSecond = 2
  Instants = {0, 1, 2}
  MaxReports = 2
INVARIANTS CountsMatchOccupancy HoldsNewest
PROPERTIES RegisterSpec
CHECK_DEADLOCK FALSE
