CONSTANTS
  s1 = s1
  s2 = s2
  None = None
  Sources = {s1, s2}
  Names <- MCNames
  BaseName <- MCBaseName
  AllocNames <- MCAllocNames
  SpoutNames <- MCSpoutNames
  ForeignNames <- OneRival
  MaxSenders = 8
SPECIFICATION Spec
SYMMETRY Twins
INVARIANTS
  AnnouncedIsRegistered
  RegistryMatchesSlots
