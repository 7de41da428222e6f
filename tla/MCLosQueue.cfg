SPECIFICATION Spec
CONSTANTS
  Tasks = {t1, t2}
  NoTask = NoTask
  Values = {a, b}
  MaxLen = 2
  Nothing = Nothing
  Boxes = {m}
  NoBox = NoBox
  MailInLock = FALSE
INVARIANTS CellsConserved NobodySleepsOnOffer NoOperationOnDeleted BoxesConserved
PROPERTIES ImplementsDeque ReadersAreServed
