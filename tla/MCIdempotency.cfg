SPECIFICATION KeysSpec
CONSTANTS
  Calls = {a1, a2, a3, b1}
  Keys = {k1}
  Requests = {r1, r2}
  KeyOf <- KeyOfCall
  RequestOf <- RequestOfCall
  NoCall = NoCall
  MaxPurges = 1
  a1 = a1
  a2 = a2
  a3 = a3
  b1 = b1
  k1 = k1
  r1 = r1
  r2 = r2
INVARIANTS EffectOnce SameAnswer
PROPERTIES EveryCallEnds
CHECK_DEADLOCK FALSE
