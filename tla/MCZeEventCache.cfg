SPECIFICATION Spec
CONSTANTS
  Contexts = {c1, c2}
  Events = {e1, e2, e3, e4, e5}
  Holders = {h1, h2, h3}
  EVENT_POOL_SIZE = 2
  None = None
SYMMETRY Symmetry
INVARIANTS
  TypeOK OnePlace FreeEventsReady NoDanglingEvent Conserved ContextReleasable
PROPERTIES
  ImplementsLease
CHECK_DEADLOCK FALSE
