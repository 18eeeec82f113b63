SPECIFICATION Spec
CONSTANTS
  None = None
  Retired = Retired
  c1 = c1
  c2 = c2
  home = home
  away = away
  ada = ada
  Handles = {h1, h2}
  ChannelIDs = {c1, c2}
  Spaces = {home, away}
  Principals = {ada}
  RoomHandles = {r1, r2}
  Home = home
  Backend = "memory"
  Callers = {g1}
  Builds <- MCBuilds
  Requests <- MCRequests
  Percents = {50, 100, 201}
  Legacy = {}
  Ends = FALSE
SYMMETRY Alike
INVARIANT ReadsAnswerTheLastWrite
