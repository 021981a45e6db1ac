SPECIFICATION FairSpec
CONSTANTS
  Names = {home, living_room, long}
  Default = home
  Empty = Empty
  Encodable = {home, living_room}
  Dotted = {living_room}
  ProbeWait = 1
  AnnounceWait = 2
  QuarterTTL = 3
  MaxQuestions = 2
INVARIANTS TypeOK ProbedFirst
PROPERTIES BecomesKnown
