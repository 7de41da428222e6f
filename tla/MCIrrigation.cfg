SPECIFICATION IrrigationSpec
CONSTANTS
  Readings = {0, 44, 45, 46, 100}
  MaxHumidity = 100
  HumidityRef = 55
  Word = 65536
  History = 3
INVARIANTS PumpHasReason
PROPERTY PumpSettles
