SPECIFICATION Spec
CONSTANTS
  Pids = {1, 2}
  WorkloadAlerts = {"VramPressure"}
  SystemAlerts = {"ThermalPressure"}
  Sustain = 1
  MaxTime = 2
  MaxQueue = 2
INVARIANTS
  NoMissedAlert
  AckRespected
PROPERTIES
  SustainedAlert
