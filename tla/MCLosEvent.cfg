SPECIFICATION Spec
CONSTANTS
  Bits = {b1, b2}
  ErrBit = b25
  Tasks = {t1, t2, t3}
  SystemTasks = {t3}
  NoTask = NoTask
  ReadModes = {{"OR"}, {"OR", "CLR"}, {"AND", "CLR"}, {"OR", "AND"}}
  MaxWriting = 1
INVARIANTS NoMissedWakeup WaitersAreListed WokenFindsItsEvent
SYMMETRY Symmetry
CHECK_DEADLOCK FALSE
