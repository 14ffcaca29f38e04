SPECIFICATION FairSpec
CONSTANTS
  MqttEnabled = TRUE
  Buttons = {}
  Lengths = {1, 6}
  Epoch = 9
  MaxPresses = 1
  MaxQueue = 2
PROPERTIES
  StartupEnds
  WritesGoOn
  FailureEnds
CHECK_DEADLOCK FALSE
