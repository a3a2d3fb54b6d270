SPECIFICATION PtSpec
CONSTANTS
  Place <- ThreePlaces
  PlaceCount = 2
  Transition <- Configured
  ExtraArcs = {0, 2}
  Weight <- SmallWeights
  ShortMax = 3
  EntriesMax = 5
INVARIANT SynchFiresTransition
INVARIANT ExtraArcsHonoured
