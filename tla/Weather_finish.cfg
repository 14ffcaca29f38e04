SPECIFICATION Spec
CONSTANTS
  MqttEnabled = TRUE
  Buttons = {}
  Lengths = {1, 6}
  Epoch = 9
  MaxPresses = 1
  MaxQueue = 2
INVARIANTS
  FinishTimerShutsDown
CHECK_DEADLOCK FALSE
