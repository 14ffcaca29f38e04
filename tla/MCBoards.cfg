SPECIFICATION Spec
CONSTANTS
  Kinds = {"stepper", "uln2003", "pwm", "expander", "lcd", "gpio", "sgp30", "tsl2561", "bmp280", "si7021", "mpu6050", "robot", "memory", "dma", "spi"}
  Drivers = {"8825", "8834"}
  Wirings <- MCWirings
  Sizes <- MCSizes
  Moves = {1, 3}
  MaxMoves = 2
  MaxSteps = 2
  Orders <- MCOrders
  UnsetSteps = {0, 2}
  Levels <- MCLevels
  Angles <- MCAngles
  Duties <- MCDuties
  Frequencies = {20, 50}
  ServoRange = 90
  Expanders = {"23017", "23008"}
  ExpanderPins = {0, 1}
  MaxCalls = 3
  Processors = {"2835", "2711"}
  GpioPins = {9, 14}
  GpioEdges <- MCGpioEdges
  GpioLevels <- MCGpioLevels
  MaxGpios = 2
  MaxStarts <- MCMaxStarts
  GpioFaults <- MCGpioFaults
  Rows = {1, 2}
  Controls = {1}
  Entries = {1}
  Readings <- MCReadings
  Baselines <- MCBaselines
  Humidities = {0, 5, 300, 65536}
  Valid <- MCValid
  Lights <- MCLights
  Timings = {2, 18}
  Settings <- MCSettings
  SiRegisters = {58, 62}
  UnsetRegister = {0, 255}
  Airs <- MCAirs
  Ranges = {0, 2}
  Rates = {0, 1}
  Epoch = 100
  MaxTime = 2
  ProviderEntries <- MCProviderEntries
  GpioEntries <- MCGpioEntries
  ItemEntries <- MCItemEntries
  Bounds <- MCBounds
  Order <- MCOrder
  Owners = {"source", "target"}
  Blocks = {256, 4097}
  VirtualPages = {500, 268435456}
  MemoryFaults = 2
  Lens = {100, 65537}
  DmaPages = {1, 2}
  MaxCores = 2
  MaxWrites = 3
  Strips = {"strip"}
  SpiMeters = {"meter"}
  MaxRounds = 3
  MaxFaults = 1
INVARIANTS DriverAgrees ReportsAreTrue SafeOutputs
CHECK_DEADLOCK FALSE
