SPECIFICATION Spec
CONSTANTS
  MqttEnabled = TRUE
  Buttons = {"btn_1"}
  Lengths = {1, 6}
  Epoch = 9
  MaxPresses = 1
  MaxQueue = 3
INVARIANTS
  StartupOrder
  MeasuringGoesOn
  LightsGoOff
  AlarmFollowsLevel
  RefreshLostOnlyByAlarm
CHECK_DEADLOCK FALSE
