\* Two sessions, two members, two channels, every ticket; time passes and the
\* owner keeps reaping.
SPECIFICATION FairSpec
CONSTANTS
  Sessions = {s1, s2}
  Members = {ada, bob}
  Channels = {general, lobby}
  Window = 2
  Breadth = 1
  None = None
  MaxTime = 4
  MaxRevision = 2
INVARIANTS OrderMatchesHeld OrderedByDeadline MissedIsTheGap AnswerCoversTheGap ReapTakesTheExpired
PROPERTIES PlacesEndOnce EveryPlaceIsSettled
CHECK_DEADLOCK FALSE
