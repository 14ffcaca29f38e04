------------------------------- MODULE Boards -------------------------------
(***************************************************************************)
(* The drivers of chips, one of them in a behaviour: its kind is chosen at *)
(* the start. Each component says what its constants are.                  *)
(***************************************************************************)
EXTENDS Integers, Sequences, FiniteSets, Threaded

CONSTANTS
  Kinds,                                            (* what may be chosen  *)
  Drivers, Wirings, Sizes,                          (* Steppers            *)
  Moves, MaxMoves, MaxSteps,
  Orders, UnsetSteps,                               (* Uln2003             *)
  Levels, Angles, Duties, Frequencies, ServoRange,  (* PwmMotors           *)
  Expanders, ExpanderPins, MaxCalls,                (* Expander            *)
  Processors, GpioPins, GpioEdges, GpioLevels,      (* GpioRegisters       *)
  MaxGpios, MaxStarts, GpioFaults,
  Rows, Controls, Entries,                          (* Lcd                 *)
  Readings, Baselines, Humidities, Valid,           (* Sgp30               *)
  Lights, Timings,                                  (* Tsl2561             *)
  Settings,                                         (* Bmp280              *)
  SiRegisters, UnsetRegister, Airs,                 (* Si7021              *)
  Ranges, Rates, Epoch, MaxTime,                    (* Mpu6050             *)
  ProviderEntries, GpioEntries, ItemEntries,        (* Configuration       *)
  Bounds, Order,
  Owners, Blocks, VirtualPages, MemoryFaults,       (* PhysMemory          *)
  Lens, DmaPages, MaxCores, MaxWrites,              (* DmaPwm              *)
  Strips, SpiMeters, MaxRounds,                     (* Spi                 *)
  MaxFaults                                         (* of all others       *)

VARIABLES
  kind,
  chip, driver, task, report

vars == <<kind, threadVars, chip, driver, task, report>>

S == INSTANCE Steppers WITH Chips <- Drivers, Lengths <- Moves
U == INSTANCE Uln2003 WITH Garbage <- UnsetSteps
P == INSTANCE PwmMotors WITH Range <- ServoRange
E == INSTANCE Expander WITH Chips <- Expanders, Pins <- ExpanderPins
G == INSTANCE GpioRegisters WITH
  Chips <- Processors, Pins <- GpioPins, Edges <- GpioEdges, Levels <- GpioLevels, MaxFaults <- GpioFaults
L == INSTANCE Lcd
Y == INSTANCE Sgp30
T == INSTANCE Tsl2561
B == INSTANCE Bmp280
I == INSTANCE Si7021 WITH Registers <- SiRegisters, Garbage <- UnsetRegister
M == INSTANCE Mpu6050
C == INSTANCE Configuration
D == INSTANCE PhysMemory WITH Lengths <- Blocks, MaxFaults <- MemoryFaults
A == INSTANCE DmaPwm WITH Pages <- DmaPages
Q == INSTANCE Spi WITH Meters <- SpiMeters
-----------------------------------------------------------------------------
(* What the theorems take of the constants.                                 *)

ASSUME FaultsAssumption == MaxFaults \in Nat

ASSUME StepperAssumption ==
  /\ Drivers \subseteq {"8825", "8834"}
  /\ \A type \in Drivers : Wirings[type] \subseteq SUBSET S!Pins /\ Sizes[type] \subseteq 0..5
  /\ Moves \subseteq Nat /\ MaxMoves \in Nat /\ MaxSteps \in Nat \ {0}

ASSUME OrdersAssumption == Orders \subseteq Int /\ UnsetSteps \subseteq Int

(* Up to 4571 Hz the prescaler is not 0: the chip gives 1526 Hz at most.    *)
ASSUME PwmAssumption ==
  /\ Levels \subseteq Int /\ Angles \subseteq Int /\ Duties \subseteq Int \X Int
  /\ Frequencies \subseteq 1..4571
  /\ ServoRange \in Nat \ {0}

(* The pins of the map of the provider                                      *)
ASSUME GpioAssumption == GpioPins \subseteq 0..25 /\ \A type \in Processors : "none" \in GpioEdges[type]

(* uint16_t, and of these the ones that have a frame with the right CRC     *)
Word16 == {x \in Nat : x <= 65535}
Framed == {w \in Word16 : \E f \in Valid : f[1] = w \div 256 /\ f[2] = w % 256}

(* The CRC of the SGP30 finds a frame with a wrong bit.                     *)
ASSUME SgpAssumption ==
  /\ \A f \in Valid : Y!Garbled(f) \notin Valid
  /\ 0 \in Framed /\ Readings \subseteq Framed \X Framed /\ Baselines \subseteq Framed \X Framed
  /\ Humidities \subseteq Nat

(* What the TSL2561 reports of a light with a timing that the chip has, and *)
(* what TslReports allows.                                                  *)
Overflowed == 65535
TslTimings == Timings \cup 0..3
TimeOf(timing) == timing % 4
GainOf(timing) == IF (timing \div 16) % 2 = 0 THEN T!Gain1x ELSE T!Gain16x
LuxIn(light, timing) ==
  T!Lux(T!Count(light[1], timing), T!Count(light[2], timing), TimeOf(timing), GainOf(timing))
LuxNear(lux, light) ==
  LET true == T!Lux(light[1], light[2], 2, T!Gain1x) IN lux \in true \div 2 - 40 .. 2 * true + 40

(* The arithmetic of calculateLux, light by light: that a timing distorts a *)
(* light no further than that is evaluated, and not proved.                 *)
ASSUME TslAssumption ==
  /\ Timings \subseteq 0..255
  /\ \A light \in Lights :
       /\ light[1] \in Nat /\ light[2] \in Nat
       /\ \A timing \in TslTimings : LuxIn(light, timing) < Overflowed => LuxNear(LuxIn(light, timing), light)

ASSUME BmpAssumption == \A s \in Settings : s.filter \in Nat /\ s.standby \in 0..7

AirPairs == Word16 \X Word16
ASSUME SiAssumption ==
  /\ SiRegisters \subseteq 0..255 /\ UnsetRegister \subseteq 0..255
  /\ Airs \subseteq AirPairs

ASSUME MpuAssumption ==
  /\ Ranges \subseteq 0..3 /\ Rates \subseteq Int
  /\ Epoch \in Nat /\ MaxTime \in Nat

(* The names of the items are in the order of the map, the GPIOs of an item *)
(* are a list, and an item that is made without GPIOs has none.             *)
ASSUME RobotAssumption ==
  /\ Order \in Seq({Order[i] : i \in DOMAIN Order})
  /\ \A e \in ItemEntries :
       /\ \E i \in DOMAIN Order : Order[i] = e.name
       /\ e.gpios = <<>> \/ 1 \in DOMAIN e.gpios
       /\ C!TypeByName(e.type) = "BUTTON" => DOMAIN e.gpios \subseteq {1}
       /\ C!TypeByName(e.type) \in C!OnBus \cup {"BLINKER", "SLEDCRTLSPI"} => DOMAIN e.gpios = {}

(* There are fewer handles than pages.                                      *)
ASSUME MemoryAssumption ==
  /\ Blocks \subseteq Nat /\ VirtualPages \subseteq Nat /\ MemoryFaults \in Nat
  /\ \A h \in D!Handles : h \in Nat /\ 0 < h /\ h <= 16383

ASSUME LensAssumption == Lens \subseteq Nat
-----------------------------------------------------------------------------
NoTask == task = <<>>

Init ==
  /\ kind \in Kinds /\ ThreadInit
  /\ \/ kind = "stepper" /\ S!StepperInit
     \/ kind = "uln2003" /\ U!MotorInit
     \/ kind = "pwm" /\ P!PwmInit /\ NoTask
     \/ kind = "expander" /\ E!ExpanderInit
     \/ kind = "lcd" /\ L!LcdInit
     \/ kind = "gpio" /\ G!GpioInit
     \/ kind = "sgp30" /\ Y!SgpInit
     \/ kind = "mpu6050" /\ M!MpuInit
     \/ kind = "robot" /\ C!RobotInit
     \/ kind = "memory" /\ D!MemoryInit /\ NoTask
     \/ kind = "dma" /\ A!DmaInit
     \/ kind = "spi" /\ Q!SpiInit
     \/ kind = "bmp280" /\ B!BmpInit /\ NoTask
     \/ kind = "si7021" /\ I!SiInit /\ NoTask
     \/ kind = "tsl2561" /\ T!TslInit /\ NoTask

Only(k) == kind = k /\ UNCHANGED <<kind, threadVars>>
OnlyCalls(k) == Only(k) /\ UNCHANGED task

Next ==
  \/ Only("stepper") /\ S!StepperNext
  \/ kind = "uln2003" /\ U!MotorNext /\ UNCHANGED kind
  \/ OnlyCalls("pwm") /\ P!PwmNext
  \/ Only("expander") /\ E!ExpanderNext
  \/ Only("lcd") /\ L!LcdNext
  \/ Only("robot") /\ C!RobotNext
  \/ Only("dma") /\ A!DmaNext
  \/ Only("spi") /\ Q!SpiNext
  \/ OnlyCalls("memory") /\ D!MemoryNext
  \/ Only("gpio") /\ G!GpioNext
  \/ OnlyCalls("tsl2561") /\ T!TslNext
  \/ OnlyCalls("bmp280") /\ B!BmpNext
  \/ OnlyCalls("si7021") /\ I!SiNext
  \/ kind = "mpu6050" /\ M!MpuNext /\ UNCHANGED kind
  \/ kind = "sgp30" /\ Y!SgpNext /\ UNCHANGED kind

Spec == Init /\ [][Next]_vars
-----------------------------------------------------------------------------
TypeOK ==
  /\ kind = "stepper" => S!StepperTypeOK
  /\ kind = "uln2003" => U!MotorTypeOK
  /\ kind = "pwm" => P!PwmTypeOK
  /\ kind = "expander" => E!ExpanderTypeOK
  /\ kind = "lcd" => L!LcdTypeOK
  /\ kind = "gpio" => G!GpioTypeOK
  /\ kind = "sgp30" => Y!SgpTypeOK
  /\ kind = "mpu6050" => M!MpuTypeOK
  /\ kind = "robot" => C!RobotTypeOK
  /\ kind = "dma" => A!DmaTypeOK
  /\ kind = "spi" => Q!SpiTypeOK
  /\ kind = "memory" => D!MemoryTypeOK
  /\ kind = "bmp280" => B!BmpTypeOK
  /\ kind = "si7021" => I!SiTypeOK
  /\ kind = "tsl2561" => T!TslTypeOK

(* What a driver says it set is what its chip has.                          *)
DriverAgrees ==
  /\ TypeOK
  /\ kind = "stepper" => S!StepperAgrees
  /\ kind = "pwm" => P!PwmAgrees
  /\ kind = "expander" => E!ExpanderAgrees
  /\ kind = "lcd" => L!LcdAgrees
  /\ kind = "gpio" => G!GpioAgrees /\ G!EdgesAgree
  /\ kind = "sgp30" => Y!SgpAgrees
  /\ kind = "mpu6050" => M!MpuAgrees
  /\ kind = "robot" => C!RobotAgrees
  /\ kind = "dma" => A!DmaAgrees
  /\ kind = "spi" => Q!SpiAgrees
  /\ kind = "memory" => D!MemoryAgrees
  /\ kind = "bmp280" => B!BmpAgrees
  /\ kind = "si7021" => I!SiAgrees
  /\ kind = "tsl2561" => T!TslAgrees

(* What a driver tells the state machine, or its caller, is so.             *)
ReportsAreTrue ==
  /\ kind = "stepper" => S!StepperReports
  /\ kind = "uln2003" => U!MotorReports /\ U!MotorAwake
  /\ kind = "sgp30" => Y!SgpReports
  /\ kind = "mpu6050" => M!MpuReports
  /\ kind = "robot" => C!RobotReports
  /\ kind = "dma" => A!DmaReports
  /\ kind = "spi" => Q!SpiReports
  /\ kind = "memory" => D!MemoryReports
  /\ kind = "bmp280" => B!BmpReports
  /\ kind = "si7021" => I!SiReports
  /\ kind = "tsl2561" => T!TslReports

(* What a driver drives stays in its range, and is off with its driver.     *)
SafeOutputs ==
  /\ kind = "uln2003" => U!CoilsOff
  /\ kind = "pwm" => P!ServoInRange
  /\ kind = "dma" => A!DmaOff
  /\ kind = "si7021" => I!HeaterOff
===========================================================================
