\* The instance alone under its own prefix; the registry holds one sender, so
\* the second one is published unregistered.
CONSTANTS
  s1 = s1
  s2 = s2
  None = None
  Sources = {s1, s2}
  Names <- MCNames
  BaseName <- MCBaseName
  AllocNames <- MCAllocNames
  SpoutNames <- MCSpoutNames
  ForeignNames <- Nobody
  MaxSenders = 1
SPECIFICATION FairSpec
INVARIANTS
  ExclusiveNames
  StickyReattach
  NoDanglingSlot
PROPERTIES
  ImplementsLease
  VerbsComplete
  NamesAnnounced
