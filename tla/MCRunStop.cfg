SPECIFICATION Spec
CONSTANTS
  Proc = {p1, p2, p3}
  Name = {a, b}
  Slot <- Slots
  PlaceCounts = {3}
  SEMVMX = 3
  MaxCalls = 3
  MaxDisturbed = 2
SYMMETRY Interchangeable
INVARIANT PlacesDisjoint
INVARIANT TokensBounded
INVARIANT ModeObeyed
 
CHECK_DEADLOCK FALSE
