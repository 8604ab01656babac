CONSTANTS
  o1 = o1
  o2 = o2
  Obj = {o1, o2}
  LdtMod = 4
  CounterMod = 4
  InitVal = 1
  Resolution = 2
  MinuteLength = 4
  Decays = {0, 1, 2}
  MaxNow = 36
SPECIFICATION Spec
SYMMETRY Symmetry
INVARIANTS IdleIsClose LruOrder DecayIsClose
