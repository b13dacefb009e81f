SPECIFICATION Spec
CONSTANTS
  c1 = c1
  c2 = c2
  c3 = c3
  Clients <- ThreeClients
  MaxPlayers = 2
SYMMETRY ClientSymmetry
INVARIANTS
  OneOwner
  OwnedSlotsStayInUse
  NoSlotLeaks
PROPERTY
  ImplementsLifecycle
