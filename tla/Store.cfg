\* Two commands one after the other on two profiles, or a request beside a change.
SPECIFICATION StoreSpec
SYMMETRY Symmetry
CONSTANTS
  p1 = p1
  p2 = p2
  NoOne = NoOne
  Procs = {p1, p2}
  Profiles = {f1, f2}
  Accts = {a1, a2}
  Kinds <- All
  MaxActive = 2
  Faults = {"crash", "full"}
INVARIANTS
  TypeOK
  NeverMixed
  ChangesKept
PROPERTIES
  LoginsAsk
CHECK_DEADLOCK FALSE
