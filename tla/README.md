# pi-robot: specifications and proofs

TLA+ modules for pi-robot: its concurrent core (the state machine, its timers,
the threads and buffers below it), the weather station that is built on it,
the devices with threads of their own, and the drivers down to the registers of
the chips; TLC configurations that check them on small instances; and theorems
that TLAPS proves for every value of the constants.

- [1. The system](#1-the-system) - components, their state, how they interact, what is hard
- [2. Modules](#2-modules) - which module stands for which code, action by action
- [3. Runs](#3-runs) - what each run asks, its bounds, its fairness, what it shows
- [4. Disagreements](#4-disagreements-with-the-repositorys-own-words) - where the code and its texts differ
- [5. Proofs](#5-proofs) - what is proved, from what, and along which argument
- [6. What is left out](#6-what-is-left-out) - and why
- [7. Plan](#7-plan) - what comes next

To check: `tlc -config Timers.cfg Timers` (and likewise for the other
configurations), `tlapm EventProofs.tla` (and likewise for the other proof
modules).

## 1. The system

pi-robot is a C++ framework for devices on a Raspberry Pi. A program gives it
a factory of states and a configuration of hardware; the framework builds the
hardware objects (`PiRobot`), runs a state machine (`smachine::StateMachine`)
and lets the states react to timers, buttons and events. The program in the
repository is a weather station (`src/weather`).

```
 signals ─▶ PiMain ──┬─▶ StateMachine ──▶ states (weather) ──▶ PiRobot items
                     │    ▲   ▲   ▲             │                │ (threads)
             web  ◀──┤    │   │   └─ Timers2 ◀──┘                │
                     │    │   └──────── put_event ◀── buttons ◀──┘
                     │    └── FINISH (signal thread)
                     └─▶ Logger (thread) ◀── everyone
                              storages: FStorage (file), MqttStorage ─▶ MqttClient
```

| Component | State it keeps | Operations | What is hard | What makes it correct |
|---|---|---|---|---|
| **State machine** `pi-smachine/StateMachine.*` | queue `m_events`, stack `m_states`, the worker's place, the stop signal | `put_event`, `get_event`, `worker`, the four `process_*`, `finish`, the destructor | the notification is sent without the mutex of the condition; callbacks queue events and throw | events are taken in order, each by its handler; no state twice on the stack; a change reaches its state; FINISH is final; nothing queued is slept over |
| **Timers** `pi-smachine/Timer*` | map of ids, kernel timers, the signal handler | `create_timer`, `cancel_timer`, `reset_timer`, `stop`, `handler` | a signal handler that locks the queue's mutex; a signal that outlives its timer | one event per start; no timer runs outside the map; the handler does not block |
| **Circular buffer** `pi-utils/CircularBuffer.h` | slots, two indices, a counter | `put`, `get`, `empty`, `is_empty` | wrapping, the full buffer, `is_empty` before `get` | it is a queue |
| **Thread base** `pi-utils/Threaded.*` | thread, stop signal, `cv`, `cv_m` | `start`, `stop`, `set_stop_signal`, `wait` | the mutex of the stop signal against the worker's | `stop` returns |
| **Logger** `pi-utils/logger.*` | buffer, level, file, flush and reload flags | `log`, `llog`, `worker`, `set_update_conf`, `release` | two mutexes called `cv_m`; release against late messages | in order, once, nothing lost at release |
| **MQTT client** `pi-mqtt`, `pi-data/MqttStorage.h` | buffer, `m_connected`, the library's connection | `publish`, `worker`, callbacks, `stop` | connection callbacks on the library's thread; `stop` empties the buffer | sent in order and at most once; after `stop` it stays offline |
| **Weather application** `src/weather/St*.cpp` | the states' timers, LEDs, LCD, blinker, levels, storages | `OnEntry`, `OnTimer`, `OnEvent`, `OnSubstateExit` of five states | one-shot timers restarted by handlers; events queued against a state that changes before they are handled | start-up in order; measuring and writing go on; lights go off; the alarm follows the levels; a failure ends the robot |
| **Lifecycle** `pi-main/pi-main.h` | child process, signal thread, web, machine, robot | `run*`, `initilize_and_run`, `finish` | fork, signals, order of destruction | SIGTERM and a failed start end the program; nothing is used after its release |
| **Robot** `pi-library/PiRobot.*`, loaders | items, providers, GPIOs, links from GPIOs to items | `configure`, `start`, `stop`, `notify_low`, `notify_stm`, `add_*` | an entry that is refused after others were made; an item that fails after others started | a pin has one GPIO; an entry makes the item it names; start and stop cover the same items; an edge reaches its button |
| **Buttons, LEDs, blinkers** | level, threads | `worker`, `On`, `Off`, `process_level` | two threads report one button; a switch during a round | a level that is seen is told; a blinker that is off ends its round and says so only of whole rounds |
| **Analog chain** `MCP320X`, meters | receivers, buffer, active flags | `worker`, `activate`, `register_data_receiver`, `data` | several threads between a converter and the state machine | no value of another receiver; no change missed |
| **LED strips** `sledctrl.h`, transforms | strips, list of transformations and its index, data buffer | `worker`, `add_sled`, `transformation_*`, `refresh` | the lists are shared without a lock; the buffer is allocated once | every transformation runs as often as it says; what is written beyond a buffer has a known cause |
| **Motors** DRV8825, DRV8834, ULN2003, DRV8835, servo | flags of the driver, pins, steps to go | `step`, `set_steps`, the setters | threads that are never joined; an order during a move | what is reported was moved; coils off without a worker; the servo within its range |
| **GPIO providers** simple, MCP230xx, PCA9685 | registers, folders in `/sys`, a copy of the outputs | `setmode`, `dgtWrite`, `pullUpDownControl`, `set_gpio_edge` | pins that share a register; what outlives the program; transfers nobody checks | a pin has what it was last asked for; the rest is left as it was |
| **LCD** `lcd.h` | cursor, display bits, the controller's half byte | `On`, `Off`, `write_*` | 4 bits at a time over an expander | driver and controller agree on what comes next |
| **I2C sensors** SGP30, TSL2561, BMP280, SI7021, MPU6050 | registers, baseline, gain, angle | `initialize`, `start`, `stop`, `get_results` | what a failed read leaves behind; a thread against its callers | the driver knows its chip; what it returns the chip has measured |
| **SPI bus** `SPI.h` | the channel that is selected | `set_channel_*`, `data_read_write` | two users with a lock over single changes only | data reach the chip of their sender |
| **pi-core** memory, DMA, PWM, clock | mapped pages, control block, registers | `get_memory`, `write_data`, `Initialize` | a channel that works by itself; failures half way | nothing stays mapped; what is sent was moved; off at the end |
| **Files** `pi-utils/fstorage.h`, `pi-data` | descriptor, day, list of files | `initilize`, `write_data`, `*_data_files_list` | change of day or month while the web deletes | the list names the files that are there; writes go on |
| **Web** `pi-http`, `WebSettingsWeather.h` | one thread, request handlers | status, settings, files | reads what the state machine writes | the current file is not deleted |
| **SQL, utilities, pages** | - | see `PROJECT.json` | - | - |

How they interact. Every thread but the worker reaches the states through
`put_event` only: the signal thread (FINISH), the threads of buttons and
meters through `PiRobot::notify_stm`, and the handler of the timer signal,
which interrupts any thread. The worker runs every callback of the states,
and these call the items, timers and storages directly. The logger's and the
MQTT client's workers take what the others put into a circular buffer. The
web thread reads the measurements and deletes files on its own.

Below the items everything ends in registers: the providers' own, those of
chips behind I2C or SPI, and mapped memory. The chip is part of each of those
modules as far as the driver relies on it.

The hazards, each at its line, are listed in `PROJECT.json` with the
properties that cover them, or the reason why none does yet.

## 2. Modules

```
 EventLoop ◀── implemented by ── StateMachine          CircularBuffer (operators)
                                 Timers                  ├─ Logger
                                 Weather                 ├─ MqttClient
                                 Lifecycle               └─ AnalogChain
                                 Files (on its own)

 Threaded ── LedStrip, Blinker, Inputs, AnalogChain        composed by Devices
          └─ Uln2003, Sgp30, Mpu6050 ┐
 Steppers, PwmMotors, Expander, Lcd, GpioRegisters,
 Tsl2561, Bmp280, Si7021 (Crc), Spi, Configuration,
 PhysMemory, DmaPwm ─────────────────┴───────────────── composed by Boards
```

The state machine is modelled four times, each time as far as the question
needs: `StateMachine` has the threads, the wake-ups and the callbacks but no
meaning of the states; `Timers` has the signal handler and the queue's mutex;
`Weather` has the meaning of the states and takes an event as one step, which
is what `ImplementsEventLoop` and its proof justify; `Lifecycle` has the
threads around the machine and the robot, and only the events that start and
end it. A module whose values can be written in a `.cfg` is checked as it is;
the others have an `MC` module that gives them their values for TLC.
`Devices` and `Boards` instantiate many components, of which a behaviour has
one: `kind`, chosen at the start. The components do not share state in the code either;
where they do (two users of the SPI bus, the items of a robot, two pins of an
expander) the sharing is inside one module.

### EventLoop - what the state machine promises
Events are taken in the order in which they were posted, one at a time; the
stack changes by one state, only while a CHANGE or a POP is handled; it holds
no state twice; after FINISH nothing happens. No threads, no exceptions.

### StateMachine - `StateMachine.cpp`, `StateMachine.h`, `Threaded.*`
- `Put` is `put_event` up to its unlock, `Notify` its `cv.notify_one()`, which
  is called without `cv_m`: the worker may evaluate its predicate (`Check`)
  before and go to sleep (`Sleep`) after it. `missed` remembers that.
- `TakeEvent` is `get_event`; `ProcessFinish`, `ProcessPop`, `SubstateExit`,
  `ProcessChange`, `Rollback`, `EntryReturns`, `Offer` and `OfferThrows` follow
  the `process_*` functions statement by statement where a callback can run in
  between. A callback may queue events (`CallbackPuts`) any number of times and
  may throw; `OnEvent` and `OnTimer` that throw end the process (`aborted`).
- `SetStopSignal`, `JoinAndErase` are the destructor.
- The factory is assumed to create a state whose name is the requested one
  (a factory of the tests does not). Exceptions that are not `std::exception`
  are not modelled. `EVT_NONE` and `state_push` have no caller; `force` is
  modelled although no caller uses it.

### CircularBuffer - `CircularBuffer.h`
`CircularBuffer` defines `Put`, `Get`, `Clear` on a record of the code's
fields; each is atomic under the buffer's mutex. `Moves` tells whether a
slot is left empty by `get` (the element type is moved from) or keeps its
value. The logger and the MQTT client run the operators from their threads, the
first with elements that are moved, the second with `Clear` as well.

### Timers - `Timers2.cpp`, `Timer.*`
- `CreateTimer`, `CancelTimer`, `ResetTimer` are calls of the worker's
  callbacks, `ClearTimers` is `stop` at the end. `Expire` is the kernel;
  `Deliver` interrupts a thread; `HandlerPut` and `HandlerReturn` are the
  handler with its lock of `mutex_sm`, which waits when the interrupted thread
  holds it.
- The timer signal is unblocked in every thread. Linux prefers the main thread
  for a signal of the process and takes another one when the main thread
  cannot take it; a signal that is queued outlives the cancel or restart of its
  timer (Linux before 6.13). The worker holds the mutex in `get_event`;
  `put_event` inside a callback is the same case.

### Logger - `logger.cpp`, `logger.h`, `Threaded.*`
`Log`, `UpdateConfiguration`, `Ignore`, `PutMessage`, `Notify` are a caller
inside `log` and `llog`; the worker is `OuterLoop` to `FlushTest`; `Release`,
`SetStopSignal` and `Join` are `~Logger`. `Logger::cv_m` hides
`Threaded::cv_m`, so that the stop signal is not ordered with the worker's
predicate. The logger is released when the other threads have ended, which
`PiMain::finish` sees to (`ReleasedWhenUnused`), except for the web thread
(`lifecycle_web`). Which level a message has is left open. A line of
`logger.conf` without a level throws out of `log`, taken as the end of the
process.

### MqttClient - `MqttClient.h`, `MosquittoClient.*`, `MqttStorage.h`
`PutMessage` and `Notify` are `publish`; `Connect` to `Leave` the worker;
`OnConnect`, `OnDisconnect` the callbacks of the library, with `Lose` for a
connection that breaks before the library reports it; `EmptyQueue`,
`StopDisconnects`, `SetStopSignal`, `Join` are `stop`, on the thread that
publishes (the state machine's worker). A message sent while the connection
is lost may or may not be delivered. Subscriptions have no caller.

### Weather - `src/weather`
One action per handler: `EnterStateInit` ... `EnterMeasurement` are the
`OnEntry` of the states, `LcdReady`, `SensorsWarm`, `Update`, `Write`, `Show`,
`LightOff`, `CheckIp`, `SaveAndFinish` their `OnTimer`, `ButtonDown`,
`ButtonUp`, `ShowIp`, `HighOn`, `HighOff`, `LcdOn`, `LcdOff` their `OnEvent`,
`LeaveLcd`, `LeaveSensors` the `OnSubstateExit`. The environment is `Expire`,
`Press`, `Release`, `FinishRequest`. A measurement (`Measure`) has any
outcome: bright or dark, each gas high, low or without a level of its own.
- A handler is atomic and takes no time; the way of a timer from its expiry to
  the queue is one step (`Timers` covers it).
- Writes to chips only report errors. The red LED belongs to its blinker, so
  that `lights` holds the white ones. When `StInitialization` handles a release
  whose press it has not seen, the duration is counted from 1970 (`Epoch`).
- The configuration that is shipped gives buttons no `edge_level`, and
  `Button::initialize` starts the polling thread only if one is given
  (`button.cpp:105`): with it no button works. The buttons are modelled as
  their code says once they have a level.

### Files - `fstorage.h`, `WebSettings.h`
`CollectDataFiles` and `WriteList` are `prepare_data_files_list` (what is in the
folder is collected before the list's mutex is taken), `Start` is `initilize`;
`WriteData`, `AppendList` and `Write` are `write_data` with the entry in the
list and the write itself as steps of their own; `Stop` closes the file. On the
web thread `FilesDelete` is the test of `files_delete`, `Remove` the removal,
`RemoveEntries` is `remove_data_files_list`; `DeleteList` deletes the list
itself, which is a file of the same folder. `SetClock` and `Restart` are the
environment: the clock of a Raspberry Pi is wrong until the network is there,
and the power may go at any time. `mkdir`, `open`, the search of the folder
(`nftw`), the list's opening, rewriting and renaming, and the write of a single line of it
may fail. A day is a model value with a month and a day of the month, since
`write_data` compares these two separately.

A file has one path but many spellings: `files_safe_name` (`WebSettings.h:356`)
takes a name with `//` or `/./` in it, the file system resolves it, and both
`is_file_delete_blocked` and `remove_data_files_list` compare texts. A deletion
therefore has a file (`target`) and whether it is spelled as the storage
spells it (`exact`).

Histories: `gone` (the open file was removed), `raced` (opened while its own
deletion was under way), `aliased` (removed under another spelling while it was
open), `excused` (a path whose entry the code gets wrong, see
the exceptions below), `skewed` (the month changed and the day of it did not).

### Lifecycle - `pi-main.h`, `PiRobot.cpp`, `StateInit.cpp`, `StateMachine.cpp`
- The main thread is `Create` to `Exit`: `initilize_and_run`, the signal thread,
  `_stm->wait()` (`JoinWorker`), and `finish` step by step: `KillSignalThread`,
  `JoinSignalThread`, the empty stop of the web interface, the destructor of
  the machine with its second `PiRobot::stop` (`DestroyMachine`), the releases.
  `ParentSends` and `SendStart` are the SIGUSR1 that starts the machine, of the
  parent and of single mode; the daemon is a child without a terminal.
- Signals are blocked in every thread and stay pending until the signal thread
  takes them (`TakeSignal`): a set, since a second one of the same number is
  merged with the first. After SIGTERM (or SIGINT, SIGQUIT) or the SIGUSR2 of
  `finish` the thread has ended.
- The worker is the one of `StateMachine` without its stack: `TakeStart` enters
  `StateInit` once, `StartItem` initialises one item after the other, each with
  a thread or without, and any of them may fail; `TakeFinish` and
  `ProcessFinish` stop them one by one. `TakeOther` is any other event: its
  handler may ask for the end.
- What is looked at nowhere in the code is open here too: `init` may fail, and
  the main thread goes on (`pi-main.h:403`, `:421`); then there is no worker and
  `wait` returns at once.
- An item's thread is `ItemPuts`, `ItemWakes` (`notify_stm` under the robot's
  mutex) and `ItemEnds`. The web thread is `Serve`; `_exit` ends it.

### Threaded - `Threaded.*`
`Start`, `Loop`, `Check`, `Sleep`, `Notify`, `Tell` and `Join` are what every item
with a thread does in the same way; an item adds what it is `Ready` for and its
work. `worker` is "none" while there is no thread to join; `told`
(`m_stopSignal`) is never reset: a thread that is started again after a stop
ends at its first look. `stop` is called by the thread that calls the item
otherwise, which stays in it until the join.

### Blinker, Inputs - `blinking.h`, `led.*`, `button.*`, `GpioProviderSimple`
- `Blinker` counts the milliseconds of a round in units: `StartRound`, `Blink`,
  `Pause`, `CountOnce`, `Count`, `EndRound`, `OwnOff`, `Done`. `rest` is the
  unsigned `_tm` of `wait_loop`; intervals longer than `Long` are slept at once.
- `Inputs` has two threads that end in the same `Button::process_level`
  (`SetState`, `TellMachine`) without a lock: the provider's, which polls the
  descriptors of `/sys/class/gpio` (`Arm` to `Scanned`), and the button's own,
  which polls the level (`PollerBegins` to `PollerTells`). `SetEdge` and
  `OpenFolder` are `set_egde_level`, which closes and opens a descriptor while
  the other thread polls it. Only of GPIOs without a name of their own
  (`linked`) does `notify_low` find the button.

### AnalogChain - `MCP320X.*`, `AnalogMeterSimple.h`, `AnalogLightMeter.*`, `DustSensor.*`
The converter's thread is `SelectChannel`, `StartRound`, then `SkipInput` or
`Before`, `Convert` and `Deliver` for each input, and `EndRound`. The receiver of an input is a
simple one (`data`), the dust sensor (`Before` switches it on, `Filter` is its
moving average) or the light meter, whose own thread (`Take`) is fed through a
`CircularBuffer`. `SelectChannel` may fail; the converter then tries again.

### LedStrip - `sledctrl.h`, `sled_transforms.h`, `sleddata.h`, `sledctrl_spi.h`
`AddSled`, `Add`, `Clear`, `Restart` are the callers, at any time, `Fetch`, `TakeIndex`,
`Copy`, `ApplyToStrip`, `StartRefresh`, `Refresh`, `EndRefresh`, `Applied` the worker;
`Attempt` and `Transformed` what a transformation does to its counter and the
strip.
- Nothing is locked. A vector that grows while the worker goes through it is undefined
  behaviour: `Disturb` leaves the program running or ends it. `_transf_idx++` is
  a read (`TakeIndex`) and a write (`Copy`), so that a restart in between is
  written over (`lost`), and an index into a list that was cleared throws (`CopyFails`).
- `Initialize` allocates the buffer once, for the strips that are there;
  `Refresh` clears as much of it as the longest strip of now needs.
- A group whose first LED is not 0 and a colour that begins behind the strip are
  written past its end (`PastEnd`). What is written outside of a strip or of
  the buffer is kept in `outside`, and may end the program (`WritesOutside`).

### Steppers, Uln2003, PwmMotors - motors and servo
- `Steppers` has the setters of both chips on the pins that are wired and the
  threads of `step`, which are never joined: two moves may overlap, and then
  the chip sees fewer rising edges than the threads count.
- `Uln2003`: `Fetch` to `Clear`; `set_steps` holds `cv_m`, so that no order is
  slept over (`MotorAwake`), but one that comes between the last test and
  `Clear` is forgotten. `StopRotation` and `SetRotation` are what the class
  inherits of `Motor`: they hold no mutex and wake nobody up.
- `PwmMotors`: a channel of the PCA9685 is four registers; a transfer that fails
  leaves one of them. `ServoInRange` reads the pulse out of the registers.

### Expander, Lcd, GpioRegisters - pins
- `Expander`: a call on a pin reads (`Fetch`), changes (`Write`) and keeps
  (`Save`) its register; the MCP23017 reads a copy, the MCP23008 the chip.
- `Lcd` compiles each call into a sequence of half bytes and runs them against
  a controller that has a half byte in hand or not.
- `GpioRegisters` has the Gpio objects, the registers and the folders, and
  programs that come and go (`Boot`, `Leave`, `Kill`): registers stay. On the
  BCM2835 a pull takes four writes (`PullStep`), and a program that is killed
  between them leaves the signal and the clock as they are.

### Sensors - Sgp30 (with Crc), Tsl2561, Bmp280, Si7021, Mpu6050
A chip has the registers its driver uses and measures something chosen by the
environment. `Sgp30` and `Mpu6050` have the driver's thread, with a transfer that
fails or a frame with a wrong CRC; `Tsl2561` has the automatic gain and the
integer lux formula; `Bmp280` the packing of its settings, the lag of forced
mode, and `reset`, `set_measure_control` and `set_config` as callers may use them;
`Mpu6050` the calibration and the sensitivity of the range that the driver knows,
each of its reads and writes with a failure of its own (a failed read is 255, and
`set_sleep` then writes the bit that resets the chip); `Si7021` the heater and the integer part of its two formulas.

### Spi - `SPI.h`, its users `SLedCtrlSpi` and `MCP320X`
`Select`, `Raise`, `Lower` are `set_channel_on`, `ReadChannel`, `DataRw` a
transfer. The strip selects for every write and releases; the converter
selects once and reads on.

### Configuration - `PIRobot_loadconf.cpp`, `load_*.cpp`, `PiRobot.*`, `item.h`
One action per kind of entry of the three lists (`LoadFake` ... `LoadLcd`), with
the conditions under which it throws (`Throw`): `configure` catches and returns
false, and what was made stays. `TypeByName` searches `ItemNames` by index, as
the code does. Then `Start`, `Initialize`, `Stop`, `StopItem` go through the map in
the order of the names, and `NotifyLow` says who hears of an edge. The asserts
are those of a release build: none.

### PhysMemory, DmaPwm - `core_memory.h`, `core_mailbox.h`, `mailbox.c`, `core_dma.h`, `core_pwm.h`, `core_clock_pwm.h`
- `PhysMemory`: `GetMemory` maps pages and looks up the address (`Frame`, with
  the `int` of the code), `AllocAndMap`, `LockFails`, `AllocFails` are the
  mailbox, each step of which may fail.
- `DmaPwm`: `Write` prepares the control block, `Process` starts the channel,
  `Check` looks ten times, `GiveUp` ends a write that never finished. The
  channel (`Transfer`) works by itself if it is enabled.

## 3. Runs

| Run | Instance | Size | Asks |
|---|---|---|---|
| `statemachine` | 3 states and an unknown one, 2 producers, 3 events, with and without force | 65 thousand states | stack discipline, wake-ups, end, refinement of `EventLoop`, and that what is queued is taken |
| `timers` | 2 timers, times 0 and 1, 3 calls, 2 expiries, 2 threads | 88 thousand states | no event doubled, when the handler blocks, and that a signal is handled |
| `weather` | 1 button, presses of 1 and 6 s, 3 queued events | 757 thousand states | start-up, restart of every one-shot timer, lights, alarm, refresh |
| `weather_live` | no button, 2 queued events | 6 thousand states | does the station start, keep writing, end after a failure? |
| `weather_finish` | small | violation | see section 4 |
| `logger` | 2 callers, 3 slots, 5 messages | 27 thousand states | order, no message twice, release keeps messages and returns |
| `mqtt` | 3 slots, 4 messages, 1 lost connection | 28 thousand states | order, the null pointer, offline after stop, taken while connected, stop returns |
| `files` | 3 days of 2 months, 3 changes of the clock, 2 starts, 1 failing call, 2 deletions under either spelling | 2.1 million states | does the list name the files, is the open file kept, does a line reach the file of its day? |
| `lifecycle` | 2 items, both modes, 2 signals, 1 notification | 146 thousand states | is what is released no longer used, does SIGTERM end the program, does a failed start? |
| `lifecycle_web` | 1 item, 1 signal | violation | is the web thread stopped before the logger is released? |
| `devices` | one of: 2 strips and 2 transformations, a blinker, a button, the light meter, the dust sensor | 183 thousand states | does a thread sleep over its work, do its figures agree, is what it reports so, does what it begins end, does stop return? |
| `boards` | one of 15 kinds of driver, see below | 1.8 million states | does the driver agree with its chip, is what it reports so, are its outputs safe? |

`devices` and `boards` ask the same questions of many components; the three or
five properties of a run are made of one named part per kind, which is defined and
explained in the component's module (`StepperAgrees`, `SpiReports`,
`ServoInRange`, ...). Each part was also checked alone, against altered guards of
its own module.

| Kind of `boards` | Instance | What could be wrong |
|---|---|---|
| `stepper` | DRV8825 and DRV8834, 3 and 2 wirings, 2 moves at a time, moves of 1 and 3 steps, of which at most 2 are made | a flag that a pin has not; a step reported that was not made; an overlap |
| `uln2003` | orders of -1, 0 and 2 steps, the rotation switched at any time, an unset member | GN_DONE of steps that were not made; coils left on |
| `pwm` | duty cycles within and outside the range, 1 failing transfer | another duty cycle than the one asked for; the servo outside its calibration |
| `expander` | MCP23017 and MCP23008, 2 pins with a caller each, 3 calls, 1 failing transfer | an overlap; a copy that went wrong and stays so |
| `lcd` | 1 failing transfer at any half byte | half a byte out of step, for good |
| `gpio` | BCM2835 and BCM2711, 2 pins, 2 objects of any pin, 2 starts; 1 file that does not open | a pin left with the mode or pull of a former object; a descriptor without an edge |
| `sgp30` | 2 readings, humidities below, between and above the bounds, 1 fault | a result the chip has not measured; a humidity or a baseline that is lost |
| `tsl2561` | 4 lights from dark to saturated, 1 fault | a gain the chip has not; another light than there is |
| `bmp280` | all modes, oversamplings and filters at the edges of their fields, set by the driver and by callers, 1 fault | bits of one field in another; a measurement older than the last |
| `si7021` | what the register may hold, what a local may hold, 1 fault | the heater on |
| `mpu6050` | 2 ranges, 2 rates, 2 units of time, 1 fault | angle and time of two readings; another sensitivity than the chip's |
| `robot` | lists of 2, 2 and 3 entries out of 4, 5 and 12, repeated names included | half-made items, links to items that are gone, an edge for the wrong item |
| `memory` | 2 owners, lengths of one page and more, a page above 2^28, 2 faults | pages left mapped, a handle given to two |
| `dma` | lengths below and above 2^16, 3 writes of 2 objects, 1 fault | a block that is gone; a write reported as sent that is not |
| `spi` | a strip, a converter, any channels, 3 selections, 1 device that does not open | data for another chip |

**Why the bounds are enough.** Three events and three states let a change meet
a state that is on the stack below another one, with a rollback and an event
queued by a callback in between; with two producers two notifications can be
under way at a time. Five messages fill the three slots of the logger while one
is being written and one refused, and take both indices around the buffer. Two expiries of two timers
give two signals at a time, which is what the blocked handler needs, and three
calls create, cancel and create again. Three queued events let two user events
of a measurement wait behind a button. `MaxQueue` stops only the environment,
never a handler. Two items let the second one fail with the first one running,
and the stop meet an item without a thread before or behind one that has one; two
signals are a SIGTERM before or after anything else, SIGHUP included. Two
transformations let a list be restarted while its first one is applied and its
last one is to be reported; a group that starts at the second LED, and a thread that is
started before the first strip is added, let both kinds of writes go outside. A loop delay of 4
is longer than some intervals and shorter than others, so that the unsigned rest of
`wait_loop` wraps, which its mask (`Wide`) makes visible. In `boards` two of what can overlap (moves, pins,
users, owners) and one fault more than none are what the properties speak of:
"as long as no two calls overlapped and no transfer failed" and what holds
afterwards. Three selections let the damage of an overlap meet a third user.

**Fairness.** Weak fairness of each thread: the scheduler runs a thread that
can run, a callback returns, a call that began goes on. No fairness is assumed
of what the world may do or not: producers, buttons, edges, signals, requests to
finish, notifications, web requests, spurious wake-ups, accepted connections, callers of items. Two places need strong fairness.
`MqttClient!SetStopSignal` waits for a mutex that the worker takes again and
again when it is woken up spuriously; the lock is granted some time.
`Weather!Expire`: a timer that runs expires; only the bound on the queue can
disable it for a while, which the code does not. `boards` checks safety only.

**What the conditions in the properties mean.** `missed` stands for a
notification that fell between a worker's predicate and its sleep. The code
allows it in the state machine (`put_event` notifies without `cv_m`), in the
logger and in the MQTT client. The liveness properties say that this is the
only way to lose progress: `TakenUnlessMissed`, `SignalHandled`,
`WrittenUnlessMissed`, `QueuedIsTaken`, `TermEnds` hold with it as their exception and not
without. The stop signals of the state machine and the MQTT client are set with
the right mutex, so that `StopAfterFinish` and `StopReturns` hold without it;
the logger's is not (`ReleaseReturns`). Further exceptions that the runs
turned out to need:
- `Stuck` (timers): the handler interrupted a worker that holds `mutex_sm`; by
  `StuckOnlyOnOverlap` only when two signals overlapped.
- `late` (logger): a message put after the worker's inner loop found nothing
  is not written until the next notification, and is lost when the release
  comes first.
- `quiet` (MQTT): the connection comes up while messages wait; nothing notifies
  the worker until the next publish.
- `filled`: the buffer was full, see section 4. `WrittenInOrder` and `SentInOrder` say
  nothing about the order after it: the reordering of a full buffer is described by
  this exception, not excluded. That no message comes twice holds all the same.
- `alarmLit` (weather): `HIGH_ON` lit the LCD without starting its refresh.
- `raced` (files): the web thread tests that a file is not the current one and
  removes it afterwards (`WebSettingsWeather.h:194-198`, `WebSettings.h:514`);
  the storage may open it in between and goes on writing to a removed file.
- `aliased` (files): the name of a deletion is spelled in another way than the storage
  spells it, and is not recognized as the file that is written.
- `excused` (files): a file that could not be opened is listed nevertheless; a
  file that is created again before its old entries are removed loses its
  entry; so does one removed while the list is made; a list that could not be
  written is the old one; a search of the folder that fails makes an empty list
  (`fstorage.h:221` ignores it); a list that cannot be opened, or a
  line of it that cannot be written, leaves that file out; a deletion under another
  spelling leaves the entry.
- `skewed` (files): only the day of the month decides about a new file.
- `tested` (weather): a test press of button 1 queued a `HIGH_ON` of its own.
- `untold`, `unwoken` (devices): a transformation is added and a receiver
  registered without any notification (`sledctrl.h:206`,
  `AnalogMeterSimple.h`); `dozed`: the light meter is woken only by the first
  value of an empty buffer.
- `again` (devices): the list was cleared or restarted under the transformation
  that is applied. `early`, `reset`: the same of LAST_OP and of `set` during a
  round of the blinker. `lost`: a restart came between the read and the write of the
  worker's index, and the list goes on behind where it was.
- `outside` (devices): `WritesFit` allows a write past the buffer only if a strip that is longer
  than it was added after it was allocated, and one past a strip only if a
  transformation was made that does not fit (`Misfit`).
- `overlap`, `overlapped`, `replaced` (boards): two calls at a time, for which the code
  has no lock. What an overlap breaks on the SPI bus stays broken: two chips
  can stay selected, which `SpiAgrees` no longer excludes.
- `renewed` (uln2003): since the worker read its order there was another one, or the
  rotation was switched on: a move that was ended by `stop_rotation` and finds
  the rotation on again at its last test is reported, though a part of it is missing.
  `stopped` (stepper): the moves during which the rotation was off, with the same effect.
- `own` (bmp280): a caller's `set_measure_control` and `reset` do not change the
  driver's settings; the registers have what was last asked, by whomever.
  Nothing sets the chip up again after a reset.
- `"range"`, `"sleep"`, `"base"`, `"angle"` (mpu6050): what the driver does not know
  any more, because a register was not read, the chip was reset by a
  failed read of `set_sleep`, or `self_check` left it with another range. An
  angle that is summed up meanwhile is off by the ratio of the two
  sensitivities, and no property claims it.
- Decay (stepper): `SetDecay(mixed)` records `mixed`, which needs the pin open, and leaves
  the pin as an earlier call drove it (`DRV8825StepperMotor.cpp:186`); of the
  other two `StepperAgrees` says that the pin has them.
- `calibrated`, `bad` (servo): from `calibrate` to the next `setAngle` the pulse is the
  old one; and of the four registers of a pulse one write may fail, which leaves
  bytes of two pulses, in the range or not, until the next call that succeeds.
- `bad`, `clean`, `noisy`, `lost`, `unsent` (boards): a transfer failed whose
  result the driver does not look at. The properties say how far the damage
  goes and when it ends: with the next write of the register, of the copy, or the
  next complete initialization of the LCD.
- `timedOut` (dma): after a write that timed out an object refuses all others.
  `mailbox`, `refreed` (memory): the mailbox failed, or a `MemInfo` without
  memory was freed, whose handle may be somebody else's.

## 4. Disagreements with the repository's own words

Two are runs that TLC answers with a counterexample; the others came up while a
property had to be stated with an exception.

- **`weather_finish`.** When the file storage fails, `storage_start` returns before
  it starts the MQTT storage; five seconds later `storage_stop` stops it and
  calls through a null pointer (`MqttStorage.h:60`). `timers_info.txt:2` says
  the timer shuts the system down.
- **`lifecycle_web`.** `finish` calls `_web->http::web::WebSettingsItf::stop()`
  (`pi-main.h:557`): the qualified name is the empty function of the base class
  (`WebSettings.h:57`), not the override that joins the thread (`:136-139`).
  The web thread serves on, logs and reads the environment while the machine,
  the robot and the logger are released, under the comment "Finish
  processing and release objects" (`pi-main.h:544`).

Without a run:
- Filling the last slot of a `CircularBuffer` moves `tail_` past the oldest
  element (`CircularBuffer.h:54`, `:72`) although a full buffer refuses
  elements: the oldest is skipped, and slots that were moved from are handed out
  later. Its users call it a queue (`logger.h:146`, `MqttClient.h:227`).
  `WrittenInOrder` and `SentInOrder` hold until the buffer was full (`filled`).
- `create_file` adds its file to the list whether it is new or opened again
  (`fstorage.h:479`), after `initilize` has just listed it: a restart on the
  same day lists the file of the day twice. The comment of
  `append_data_files_list` speaks of "a new file" (`fstorage.h:270`).
- `is_file_delete_blocked` is to "Refuse to delete the file FStorage currently has open"
  (`WebSettingsWeather.h:189`). It compares the text of the request with the
  text of the current path (`:197-198`): another spelling of the same file is not
  refused and the file removed. `OpenFileKept` has this as `aliased`.
- `LCD_OFF` cancels the timer of the refresh, `HIGH_ON` switches the LCD on
  without starting it (`StMeasurement.cpp:330`): an LCD lit by the alarm in the
  dark stays blank, although `timers_info.txt:8` lists the refresh as repeated.
  `RefreshLostOnlyByAlarm` says that nothing else loses it.
- `StateMachine.cpp:88` stops the main thread "if it is not stopped yet", but the
  worker leaves its loop only on FINISH. The program always queues FINISH
  first; the class alone does not.
- A button that is held while the robot starts sends no press; its release is
  measured from 1970 and ends the robot, although `StInitialization.h:51` asks
  for more than five seconds.
- `ItemNames` (`button.cpp:20-45`) has a name "SLEDCTRLPWM" for which
  `ItemTypes` (`item.h:20-45`) has no member: each name behind it means the type
  after its own. "AnalogMeterSimple", as in `pi-library/configuration.json:197`,
  makes nothing, "SLEDCTRLPWM" makes an AnalogMeterSimple and "Tmp36" ends the
  configuration. `configuration.json:286` writes "SLEDCRTLSPI", which is no name
  at all. `RobotReports` has them as `Misnamed`.
- `notify_low` looks for the items of an edge by the low level name of the pin
  (`load_item_one_gpio.cpp:169`), while the links are kept by the name of the GPIO:
  an edge of a GPIO with a name of its own is lost. Items of one name replace
  each other and leave their links.
- The result of `load_sled` is ignored (`PIRobot_loadconf.cpp:377`), and an
  AnalogMeterSimple stays although the GPIO of its dust sensor is refused
  (`:253`).
- A transformation counts down once per strip and not once per refresh
  (`sledctrl.h:340-346`): one with a count of 1 shifts the first of two strips only,
  although an empty name means "apply for all LED stripes"
  (`sled_transforms.h:94`). One that is added while the worker sleeps waits
  for the next restart.
- `GpioProviderSimple.h:534` lists pin 18 twice where 19 has the second PWM.
- `Si7021::set_heater(false)` masks its own uninitialized local instead of
  `_user_reg` (`Si7021.cpp:116`).
- The SPI bus: the strip ignores what `set_channel_on` returns; the converter
  does not select again, so that it reads from the channel another user
  selected; the result of its transfer is ignored and 0 reported
  (`MCP320X.cpp:125`).
- `_started` of the DMA channel is reset by a look that finds the end only:
  after a timeout every later write is "busy" (`core_dma.h:588`,
  `core_pwm.h:191`). The length of a block is a `uint16_t` (`core_dma.h:174`,
  called with the `int` of `core_pwm.h:178`). `PwmClock` drops the source of the
  clock with its second write, so that `Initialize` succeeds with a clock that
  does not run (`core_clock_pwm.h:163-193`). Nobody enables the channel.
- `virtual_to_physical` compares an `int` with the offset (`core_memory.h:311`):
  pages above 2^28 are never found. `MailboxCore::get_memory` gives out a
  `MemInfo` although the mapping failed (`core_mailbox.h:127`; the tests ask
  `if(m_src)`), and freeing it frees its handle again.

Nothing in the program depends on these: `is_timer` says
whether an id is in the map and not whether its timer is active
(`StateMachineItf.h:81`); `create_timer` of an id that is in the map keeps the
old time; the comment of the buttons (`StInitialization.h:47-51`) gives button
1 other lengths than the code (`:56-66`); the next measurement in a
dark room switches off the LCD that an alarm has just lit.

## 5. Proofs

TLAPS checks these for every value of the constants that satisfies the
`ASSUME`s next to their declarations. Those ask for little: bounds are natural
numbers, markers such as `NoEvent` are not what they mark, the buffer has at
least one slot. None limits the number of states, threads, timers or slots.

**`EventProofs`**, the timers and the state machine. The state machine, for any
states, producers and events:
- `TypeCorrect`: `TypeOK` is inductive. Its cases are lemmas about the records
  that `put_event` queues and about the steps of the worker.
- `WakeupCorrect`: `NoOtherMissedWakeup` is inductive together with `TypeOK`. A
  push leaves its producer in `notifying`; the notification clears it and
  either wakes the worker or sets `missed`; the stop signal cannot be set
  between the predicate and the sleep.
- `StackCorrect`, `ChangeCorrect`: `StackUnique` and `ChangeReachesTarget` are
  not inductive alone, since what a step does to the stack depends on the
  handler it is in. `StackInv` adds `HandlerMatchesEvent`: each handler runs
  for an event of its type, a rollback has its target on the stack, and the
  state that is being entered is the front one. `PushDistinct` and
  `PopDistinct` say what a push of a new state and a pop do to the stack.
- `FinishCorrect`: once FINISH is handled no event is taken and no state entered
  or left; an action property, from the guards of every action.
- `LoopImplemented`: the initial states map to initial states of `EventLoop`,
  and each step to a step of it or to a stutter: pushes to `Post`, `TakeEvent`
  to `Take`, the pops of a rollback one by one, the end of a handler to `Complete` or `End`.

The timers, for any ids, times and bounds:
- `StuckOnlyOnOverlapCorrect`, `RunningInMapCorrect`: `IInv` adds to the type,
  the map and `StuckOnlyOnOverlap` that the queue is not empty while the worker
  is inside `get_event` (`TakesSomething`): only the worker takes.
- `OneEventCorrect`: `OneEventPerStart` compares what was handled with what was
  started, and a signal may be anywhere in between. `EventsInv` counts it in the
  one place where it is: queued in the kernel, carried by a handler on the main
  or on the worker's stack, in the queue, handled; together these are at most
  the expiries. `StartsInv` says that the expiries and a running timer are at
  most the starts, unless it repeats. `HolderInv` says who may hold `mutex_sm`.
  How often an id is in a queue is a cardinality; `CountAppend` and
  `CountTail` say what a push and a take do to it.

**`CircularBufferProofs`** has what `put`, `get` and `empty` do to a buffer,
as lemmas that the proofs about its two users cite: `PutType` and `GetType`
for the type; `PutInOrder`, `GetInOrder` and `NoneInOrder` for `HoldsInOrder`
(the slots from `tail_` on hold a sequence), as long as `put` leaves a slot free.
They need arithmetic modulo the size, for any size: `SlotFollows` (the slot
after the k-th is the k+1-st) and `SlotsDiffer` (two offsets less than the size
apart are two slots).

**`ProgramProofs`**, the weather station and the program around it. The station,
six theorems for any buttons, bounds and delays: `IInv` has four parts.
- `StartInv` (`StartupCorrect`): the stack is one of five; at most one event
  that leads on is queued, and it is one that this stack expects; the timer of a
  substate runs only while the substate is on top and nothing that ends it is queued.
- `MeasureInv` (`MeasuringCorrect`, `RefreshCorrect`): only `StMeasurement` starts
  the storages; once they run the one-shot timers of measuring, writing and
  showing stay in the map, and the one that ends the robot is not there.
- `LightsInv` (`LightsCorrect`): while `StInitializeLcd` is on top only one LED is lit.
- `AlarmInv` (`AlarmCorrect`): no alarm is queued before `StMeasurement` measures,
  unless button 1 was tested; what is queued decides about the last state of the alarm (`Quiet`).

`RangeAppend` and the lemmas next to it say what one step does to a queue: an
event is appended, or the first is taken and the handler's are added.

The lifecycle, for any number of items and signals:
- `LifecycleTypeCorrect`: the type, by the threads.
- `ReleaseSafe`: `ReleasedWhenUnused` says nothing about the time before the
  release. `JoinedInOrder` is the order in which `finish` joins; `ItemsStopped`
  says that without a worker no item has a thread, and that while FINISH is
  handled the items before the one it is at have none (`StopItemStops`). The
  second `stop` of the destructor is not needed for it.

**`LoggerProofs`.**
- `LoggerTypeCorrect`: the type goes together with the counter (`Base`), since
  what the worker takes and the history of the queue must be empty together.
- `ReleaseCorrect`: `ReleaseInv` follows the flush flag and the stop signal from
  the owner to the worker. The worker ends only after it was told to, has
  nothing queued then unless a message came late, and no caller is inside
  `log` any more.
- `OnceCorrect`: `OnceInv` says that a number is in one slot, in the worker's
  hand or in the file, and nowhere twice; it holds through a full buffer, whose
  order is lost.
- `OrderCorrect`: `OrderInv` says that, until the buffer was full, the file, the
  hand and the queue in this order are all messages from the first on.

**`StorageProofs`**, where the measurements go. The MQTT client:
- `MqttTypeCorrect`: the type, by the threads.
- `OfflineCorrect`: `NetInv` ties `m_connected` to the library. It is set only
  while there is a connection or a loss that is not reported yet; a client that was
  asked to disconnect is on its way to be off; and the worker connects only once.
- `NullCorrect`: `QueueInv` is the counter and the order of the buffer;
  `HandInv` says that what the worker's test found is still there when it gets
  it, unless `stop` emptied the buffer, and that it is a message unless the
  buffer had been full.
- `SentCorrect`: `OnceInv` says that a message is in one slot, in the worker's
  hand or sent, and nowhere twice; `OrderInv` that what was sent, the hand and
  the queue are in the order of `publish` until the buffer was full. The step that
  is hard is the worker that gets from a buffer which `stop` emptied: by
  `FreeInv` the slots that are not queued are empty, so that it gets the null
  message and not an old one.

The files:
- `OpenFileCorrect` and `LineCorrect`: `OpenInv` says that the current path is
  the open one and that a removal that still waits for its turn can hit the
  open file only if `raced` has it or it is spelled in another way (`exact`); `DayInv` ties folder and file to the time
  that the storage keeps, unless `skewed`. `CreateFileOpens` is what both need
  of `create_file`.
- `FilesTypeCorrect`: the type, with `OpenInv` for the target of a deletion.
- `ListCorrect`: `SyncInv` says that what was collected is what is there, and that
  from `WriteList` on the list names what is there, except for the file that is about
  to be appended and the one whose entries are about to be removed.

**`DevicesProofs`**, for any strips, transformations, settings of a blinker,
pins and channels: the figures that the code bounds are bounded (unsigned
intervals, counts and colours), a configuration is finite, a reading of 0 is none.
- `AwakeCorrect`: `AwakeInv` says of each kind of item what is the case while its
  thread is between its predicate and its sleep, or sleeps; for the light meter
  also that values in the buffer of a meter that is not active are those it was
  not woken for.
- `FiguresCorrect`, `ReportsCorrect`: `FiguresInv` has a part per kind.
  - The strip (`StripInv`): the buffer holds the longest of the strips that were there
    when it was allocated (`StripsInv`, `LongestStrip`, with `TransformedIsStrip`: no
    transformation changes the length of a strip); a group from the first LED on and
    a colour that begins on the strip stay on it, whatever their counts and lengths
    (`FitsStrip`, `MisfitInv`); what was taken from the list is done or just being done
    (`OrderInv`, `DoneTo`), unless a restart was `lost`, so that LAST_OP is reported after
    all that were before it.
  - The blinker (`BlinkInv`): the blinks that were shown and those to come are as
    many as were set, unless `set` came in between.
  - The inputs (`InputsInv`): an edge was seen on a descriptor that was open and
    polled.
  - The converter (`ChainInv`): the window and its sum (`WhatIsKept`), the level
    that was told (`WhatIsTold`), and the buffer of the light meter, whose slots
    from `tail_` to `head_` were written until it went around once (`BufferInv`):
    no value of nobody is handed out.

  The sum of a window, the lowest and the highest of a set are definitions
  whose value has to be shown to exist. `LeastNatural` and `GreatestNatural` do
  that through the strict inclusion of finite sets, which is well-founded, and
  `SumsGrow` is an argument by the least counterexample; no theorem of
  induction is needed.

**`ChipProofs`, `BoardsProofs`**: the boards, for any chips, wirings, pins, registers,
configurations, calls and numbers of failed transfers. A behaviour has one kind
of board, so `BoardsInv` is the invariant of its kind (`BoardsStart`,
`BoardsStep`); what it implies (`BoardsHold`) gives `ReportsAreTrueCorrect` and
`SafeOutputsCorrect`, and `DriverAgreesCorrect` for every kind but the LCD. Each
kind has an invariant `...Inv`, the lemmas `...Init`, `...Step` and `...Holds`,
and `...Stays` for a step that changes nothing:
- Motors. A stepper's move has made as many edges as its thread counts
  while it was alone (`EdgeControl`). The ULN2003's worker is never asleep over an order
  and has moved as many steps as it counts (`MotorControl`). A duty cycle in counts of 4096
  is four bytes that give it back (`Bytes`, `DutyWritten`); the servo was asked for a
  pulse of its calibration (`AskedInRange`), and its registers, when all were written, have
  it: counts grow with the duty cycle (`CountsMonotonic`).
- Pins. For each pin of an expander the register is what its last call wrote, or the call
  between its read and its write knows better (`CallControl`). For the GPIOs
  `ModesHold`, `PullsHold`, `EdgesHold` and `BareHold` say of each object that is
  alone on its pin what the register and the folder have, and what a program
  that was killed left behind; a pull of the BCM2835 is true from its second write on.
- Sensors. The SGP30: what is to be sent, what was sent and what the chip has
  are three values that agree from right to left unless a transfer failed
  (`HumidityControl`, `BaselineControl`, `ReadingControl`). The TSL2561: two readings
  of the channels with the timing that is kept (`TimingKnown`), and the gain is what
  the second one was made with. The BMP280: the bits of the registers are sets, so that
  the packing of fields into a byte is the disjointness of shifted sets (`Packed`), for
  whoever asked for them last. The SI7021: both
  results belong to the words of one light of the chip, in whole percents and
  hundredths. The MPU6050: angle and time are of one reading, and a figure
  divided by the sensitivity it was made with is the rate (`EighthsOf`).
- Buses and memory. SPI: what a user last read is of the chip it selected unless two
  selections overlapped (`UserControl`). Memory: a handle and a page have
  one owner. The DMA: an active channel works on a block that is mapped, and a
  write that is sent had all its bytes moved.
- The configuration: each entry that was read made its item, its provider or its
  GPIO, or was refused (`AllMade`); links lead to items that are there (`Linked`), and
  every GPIO with a pin has its name in the list of the low ones (`Pinned`).

`HandlerMatchesEvent` and `RunningInMap` are parts of these invariants, and
`FinishIsFinal` an action property, that no run lists: the proofs cover them.

Only model-checked:
- Everything under fairness, since TLAPS has no ENABLED here: `TakenUnlessMissed`,
  `StopAfterFinish`, `SignalHandled`, `StartupEnds`, `WritesGoOn`, `FailureEnds`,
  `WrittenUnlessMissed`, `ReleaseReturns`, `QueuedIsTaken`, `StopReturns`,
  `TermEnds`, `FailedStartEnds`, `WorkEnds`, `StopEnds`.
- `DriverAgrees` of the LCD. What a call sends is a sequence of pin writes of
  any length that `Run` plays one after the other, and what it leaves can only be
  said of every length by induction over the sequence.
- Four facts about constants, which are assumptions of `Boards` that TLC evaluates for the
  values of the run: that the CRC finds a wrong bit (`SgpAssumption`); how far `calculateLux`
  is from the light with each timing (`TslAssumption`); that the map's order has
  the names of the items (`RobotAssumption`); that handles are smaller than
  pages (`MemoryAssumption`).
- The two runs of section 4, which are counterexamples.

The type invariants of the proved modules are not listed by a run, since the
proofs cover every instance.

## 6. What is left out

- What a chip does beyond the registers its driver relies on: a chip is external
  and modelled from the driver's reads and writes. Delays and bus timing are
  left out, and a transfer over I2C (`I2CWrapper`, its ioctl calls) succeeds or fails.
- Numbers: the floating-point compensation of the BMP280, the fractions of the
  SI7021 and MPU6050, the physical units of the analog meters. The integer
  formula of the TSL2561 is there in full.
- SQLite (`pi-sql`, no caller), the utilities (`pi-utils`: JSON, mail, network,
  time; stateless), the pages and the handlers of the web interface that only read: what is
  between them and Mongoose or SQLite is text, with no state of its own that a
  property could be about. The context and the averages of the weather station
  likewise, beyond the levels that raise an alarm.
- Hazards without a property: a release of a button whose press was not seen
  (modelled, from 1970, but what it should do is written nowhere); a line of
  `logger.conf` without a level, which throws out of `log` (`logger.h:97`);
  SUBACK against `subscribe` (`MosquittoClient.cpp:202`, no code of the
  repository subscribes); the baseline that only the finish timer saves
  (`StMeasurement.cpp:400`); a status that mixes two measurements (`:117`).
- The tilt switch, which is a button under another type name.
- The memory of the machine while it is destroyed: a handler of a timer signal
  that is still running (no other thread calls `put_event` then, by
  `ReleasedWhenUnused`).
- In `Lifecycle`: the threads that states start and stop themselves (that of
  sgp30, the MQTT client), an item whose `stop` throws, the exit status, and
  the failure of `fork`, `signal` and of the creation of a thread.
- Exceptions that are not `std::exception`, and those of allocation.
- Torn reads (the web thread reads the measurement while it is assigned,
  `empty()` reads the queue without its mutex): an atomic read stands for them.
- The first line of a data file, short writes and a write that fails: they
  change what a file holds, not which files there are.
- Texts, layout, logging, averages and the JSON of configurations.
- `StNoHardware` is the first state of no configuration.

## 7. Plan

Done, in this order: `EventLoop` and `StateMachine`; `CircularBuffer`;
`Timers`; `Weather`; `Logger`; `MqttClient`; `Files`; `Lifecycle`; the devices
with threads of their own (`Threaded`, `LedStrip`, `Blinker`, `Inputs`,
`AnalogChain`); the boards (motors, pins, LCD, sensors), `Configuration`,
`PhysMemory`, `DmaPwm` and `Spi`; and the proofs of every safety property that
is checked, but the part of `DriverAgrees` about the LCD.

Next: the LCD's part of `DriverAgrees`, byte after byte of its initialization and of each
call.

New questions replace weaker ones rather than being added to them.
