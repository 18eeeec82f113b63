SPECIFICATION Spec
CONSTANTS
  Rooms = {r1, r2}
  Members = {m1, m2}
  Kinds = {"audio"}
  Nameless = Nameless
  UndefinedKind = "undefined"
  Offered <- MCOffered
  Limits <- MCLimits
  Ranges <- MCRanges
  Gains = {1, 5}
  MaxSeats = 2
  MaxInduced = 1
SYMMETRY Alike
INVARIANT TypeOK
INVARIANT Rights
INVARIANT AnswersAreDeclared
PROPERTY PlaneSpec
