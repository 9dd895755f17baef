SPECIFICATION Spec
CONSTANTS
  NoName = NoName
  d1 = d1
  d2 = d2
  d3 = d3
  p = p
  x = x
  MachineSet <- PlainMachines
  Orders <- ListingOrders
INVARIANTS MatchesOutcomeSet BootMediumExcluded FirstElementsExist
CHECK_DEADLOCK FALSE
