CONSTANTS
  m1 = m1
  m2 = m2
  m3 = m3
  m4 = m4
  NoMsg = NoMsg
  Msg = {m1, m2, m3, m4}
  MaxPri = 2
  Size = 2
SPECIFICATION FairSpec
INVARIANTS Conserved OrderKept SendCurrent
PROPERTIES ImplementsRelay AcceptedSettles
