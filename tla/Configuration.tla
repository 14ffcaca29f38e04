---------------------------- MODULE Configuration ----------------------------
(***************************************************************************)
(* PiRobot: the configuration is read list by list, entry by entry; an     *)
(* entry that is refused throws, and what was made before it stays. Then   *)
(* the items are initialised and stopped in the order of their names, and  *)
(* an edge of a GPIO is handed to the buttons that are linked to it. The   *)
(* asserts are those of a release build: none.                             *)
(* A name of a GPIO is a pair; <<provider, pin>> is its low level name.    *)
(***************************************************************************)
EXTENDS Integers, Sequences

CONSTANTS
  ProviderEntries, GpioEntries, ItemEntries,  (* what a list may hold      *)
  Bounds,          (* longest list, by stage                               *)
  Order            (* the names of items, in the order of the map          *)

VARIABLES
  chip,    (* the hardware: is it real                                     *)
  driver,  (* the robot: providers, gpios, low (gpios_low), items, links   *)
           (* (gpio_items), users (of the bus I2C)                         *)
  task,    (* stage of the robot, and the entries read in it; calls on the *)
           (* way through the items                                        *)
  report   (* the result, the items an edge was given to, and the entries  *)
           (* of items that were read                                      *)

robotVars == <<chip, driver, task, report>>

Stages == <<"providers", "gpios", "items">>
Low(provider, pin) == <<provider, pin>>
Put(map, key, value) == [k \in DOMAIN map \cup {key} |-> IF k = key THEN value ELSE map[k]]

RobotInit ==
  /\ chip \in [real : BOOLEAN]
  /\ driver = [providers |-> <<>>, gpios |-> <<>>, low |-> <<>>, items |-> <<>>, links |-> <<>>, users |-> <<>>]
  /\ task = [stage |-> "new", read |-> 0]
  /\ report = [result |-> FALSE, told |-> <<>>, entries |-> <<>>]

Providers == driver.providers
Gpios == driver.gpios
Items == driver.items
IsA(name, type) == name \in DOMAIN Providers /\ Providers[name].type = type
-----------------------------------------------------------------------------
(* configure: the file, and what every robot has *)

Fail == task' = [stage |-> "failed", read |-> 0] /\ report' = [report EXCEPT !.result = FALSE]

(* No file, no JSON, or no memory of the processor's GPIOs.                 *)
Refuse == task.stage = "new" /\ Fail /\ UNCHANGED <<chip, driver>>

SimplePins == IF chip.real THEN 26 ELSE 12

Begin ==
  /\ task.stage = "new" /\ task' = [stage |-> "providers", read |-> 0]
  /\ driver' = [driver EXCEPT !.providers =
                  LET simple == [type |-> "SIMPLE", pins |-> SimplePins] IN
                  IF chip.real THEN [SIMPLE |-> simple, I2C |-> [type |-> "I2C", pins |-> 0]] ELSE [SIMPLE |-> simple]]
  /\ UNCHANGED <<chip, report>>

Reads(stage) == task.stage = stage /\ task.read < Bounds[stage]
More == task' = [task EXCEPT !.read = @ + 1] /\ UNCHANGED report

(* A list ends; after the last the robot is configured.                     *)
EndOfList ==
  \E i \in 1..3 :
    /\ task.stage = Stages[i]
    /\ task' = [stage |-> IF i = 3 THEN "configured" ELSE Stages[i + 1], read |-> 0]
    /\ report' = [report EXCEPT !.result = (i = 3)]
    /\ UNCHANGED <<chip, driver>>

(* An exception, after which only what was made before is there.            *)
Throw(robot) == driver' = robot /\ Fail
-----------------------------------------------------------------------------
(* add_gpio and load_gpios *)

GpioTypes == {"SIMPLE", "FAKE", "MCP23017", "MCP23008", "PCA9685"}
IsGpioProvider(name) == name \in DOMAIN Providers /\ Providers[name].type \in GpioTypes

(* Both the name and the pin have to be new.                                *)
CanAdd(robot, name, provider, pin, mode) ==
  /\ IsGpioProvider(provider) /\ pin < Providers[provider].pins
  /\ name \notin DOMAIN robot.gpios /\ Low(provider, pin) \notin DOMAIN robot.low
  /\ ~(mode = "PWM" /\ Providers[provider].type \in {"MCP23017", "MCP23008"})

WithGpio(robot, name, provider, pin) ==
  [robot EXCEPT !.gpios = Put(@, name, Low(provider, pin)), !.low = Put(@, Low(provider, pin), name)]

KnownMode(e) == e.mode \in {"IN", "OUT", "PWM"}

LoadGpio(e) ==
  /\ Reads("gpios") /\ UNCHANGED chip
  /\ IF KnownMode(e) /\ CanAdd(driver, e.name, e.provider, e.pin, e.mode)
     THEN driver' = WithGpio(driver, e.name, e.provider, e.pin) /\ More
     ELSE Throw(driver)
-----------------------------------------------------------------------------
(* load_providers *)

WithProvider(robot, name, type, pins) ==
  [robot EXCEPT !.providers = Put(@, name, [type |-> type, pins |-> pins])]

(* A chip on the bus becomes one of its users, if it can be opened.         *)
WithUser(robot, name) == [robot EXCEPT !.users = Append(@, name)]

ChipPins == [PWM |-> 0, MCP23017 |-> 16, MCP23008 |-> 8]

LoadFake(e) ==
  e.type = "FAKE" /\ driver' = WithProvider(driver, e.name, "FAKE", e.pins) /\ More

LoadChip(e) ==
  /\ e.type \in DOMAIN ChipPins
  /\ \/ /\ chip.real /\ IsA("I2C", "I2C")
        /\ driver' = WithUser(WithProvider(driver, e.name, e.type, ChipPins[e.type]), e.name) /\ More
     \/ Throw(driver)

(* The provider PCA9685 works through another one; whether that is a PWM    *)
(* driver is not looked at.                                                 *)
LoadPca(e) ==
  /\ e.type = "PCA9685"
  /\ IF chip.real /\ e.pwm \in DOMAIN Providers
     THEN driver' = WithProvider(driver, e.name, "PCA9685", 16) /\ More
     ELSE Throw(driver)

CE0 == <<"SPI_CE0_N", 0>>
CE1 == <<"SPI_CE1_N", 0>>

(* SPI takes two GPIOs of the processor, of which the second is free if the *)
(* first is; it is "SPI" whatever its name.                                 *)
LoadSpi(e) ==
  /\ e.type = "SPI"
  /\ IF e.channels \in {1, 2} /\ CanAdd(driver, CE0, "SIMPLE", 19, "OUT")
     THEN /\ driver' = WithProvider(WithGpio(WithGpio(driver, CE0, "SIMPLE", 19), CE1, "SIMPLE", 18), "SPI", "SPI", 0)
          /\ More
     ELSE Throw(driver)

ProviderTypes == {"FAKE", "PCA9685", "SPI"} \cup DOMAIN ChipPins

LoadProvider(e) ==
  /\ Reads("providers") /\ UNCHANGED chip
  /\ IF e.name \in DOMAIN Providers \/ e.type \notin ProviderTypes THEN Throw(driver)
     ELSE LoadFake(e) \/ LoadChip(e) \/ LoadPca(e) \/ LoadSpi(e)
-----------------------------------------------------------------------------
(* The types of items: their order, and the names a file gives them *)

ItemTypes == <<"UNKNOWN", "LED", "BUTTON", "SERVO", "TILT_SWITCH", "STEPPER", "DCMotor", "DRV8835", "BLINKER",
               "AnlgDgtConvertor", "AnalogLightMeter", "ULN2003Stepper", "MPU6050", "SI7021", "SGP30", "BMP280",
               "TSL2561", "LCD", "SLED", "SLEDCRTLSPI", "AnalogMeterSimple", "DustSensor", "Tmp36">>

(* From SLEDCTRLPWM on the names are one place behind their types.          *)
ItemNames == <<"UNKNOWN", "LED", "BUTTON", "SERVO", "TILT_SWITCH", "STEPPER", "DCMotor", "DRV8835", "BLINKER",
               "AnlgDgtConvertor", "AnalogLightMeter", "ULN2003Stepper", "MPU6050", "SI7021", "SGP30", "BMP280",
               "TSL2561", "LCD", "SLED", "SLEDCTRLSPI", "SLEDCTRLPWM", "AnalogMeterSimple", "DustSensor", "Tmp36">>

TypeByName(name) ==
  LET at == {i \in DOMAIN ItemTypes : ItemNames[i] = name} IN
  IF at = {} THEN "UNKNOWN" ELSE ItemTypes[CHOOSE i \in at : TRUE]

(* f_get_gpio_name: a name of its own is taken as it is.                    *)
Found(ref) == ref.own \/ IsGpioProvider(ref.name[1])
Here(ref) == Found(ref) /\ ref.name \in DOMAIN Gpios
AllHere(refs) == \A i \in DOMAIN refs : Here(refs[i])

OneGpio == {"LED", "BUTTON", "DRV8835"}
OnBus == {"MPU6050", "SI7021", "SGP30", "BMP280", "TSL2561"}
Meters == {"AnalogLightMeter", "AnalogMeterSimple"}
Made == OneGpio \cup OnBus \cup Meters \cup
        {"DCMotor", "AnlgDgtConvertor", "ULN2003Stepper", "BLINKER", "SLEDCRTLSPI"}

(* What has to be there before an item is made. That the part of an item -  *)
(* the LED of a blinker, the converter of a meter - has the right type is   *)
(* nowhere looked at.                                                       *)
Accepts(type, e) ==
  /\ e.words
  /\ type \in OneGpio \cup {"AnlgDgtConvertor", "DCMotor", "ULN2003Stepper"} => AllHere(e.gpios) /\ e.gpios # <<>>
  /\ type = "LCD" => \A i \in DOMAIN e.gpios : IF e.bits = 4 THEN Here(e.gpios[i]) ELSE Found(e.gpios[i])
  /\ type = "DCMotor" => e.gpios[1].name # e.gpios[2].name
  /\ type \in {"DCMotor", "BLINKER"} \cup Meters => e.part \in DOMAIN Items
  /\ type \in {"AnlgDgtConvertor", "SLEDCRTLSPI"} => "SPI" \in DOMAIN Providers
  /\ type \in OnBus => "I2C" \in DOMAIN Providers

GpioNames(e) == [i \in DOMAIN e.gpios |-> e.gpios[i].name]

(* items_add: an item takes the place of one with its name, whose links     *)
(* stay.                                                                    *)
WithItem(robot, type, e) ==
  [robot EXCEPT !.items = Put(@, e.name, [type |-> type, gpios |-> GpioNames(e), strips |-> 0, on |-> FALSE])]

LinksOf(robot, gpio) == IF gpio \in DOMAIN robot.links THEN robot.links[gpio] ELSE <<>>

WithLinks(robot, type, e) ==
  LET used == {e.gpios[i].name : i \in DOMAIN e.gpios} IN
  [robot EXCEPT !.links =
     [g \in DOMAIN @ \cup used |->
        LinksOf(robot, g) \o (IF g \in used THEN <<<<e.name, type>>>> ELSE <<>>)]]

Done(e) ==
  /\ task' = [task EXCEPT !.read = @ + 1]
  /\ report' = [report EXCEPT !.entries = Append(@, e)]

(* LED, BUTTON, DRV8835, DCMotor, AnlgDgtConvertor, BLINKER, ULN2003.       *)
LoadPlain(type, e) ==
  /\ type \in Made \ (OnBus \cup Meters \cup {"SLEDCRTLSPI"})
  /\ driver' = WithLinks(WithItem(driver, type, e), type, e) /\ Done(e)

LoadLightMeter(type, e) ==
  type = "AnalogLightMeter" /\ driver' = WithItem(driver, type, e) /\ Done(e)

(* The meter is made before its receivers; the GPIO of a dust sensor may    *)
(* then be missing.                                                         *)
LoadMeter(type, e) ==
  /\ type = "AnalogMeterSimple"
  /\ LET robot == WithItem(driver, type, e) IN
     IF AllHere(e.gpios) THEN driver' = robot /\ Done(e) ELSE Throw(robot)

(* A sensor whose address cannot be opened throws.                          *)
LoadSensor(type, e) ==
  /\ type \in OnBus
  /\ \/ driver' = WithUser(WithItem(driver, type, e), e.name) /\ Done(e)
     \/ Throw(driver)

(* load_sled: a strip too many ends the loop, and nobody looks at the       *)
(* result.                                                                  *)
LoadSled(type, e) ==
  /\ type = "SLEDCRTLSPI"
  /\ driver' = [WithItem(driver, type, e) EXCEPT !.items[e.name].strips = IF e.strips < e.room THEN e.strips ELSE e.room]
  /\ Done(e)

(* Only the four bit LCD is made; of the other types nothing is.            *)
LoadLcd(type, e) ==
  /\ type = "LCD"
  /\ driver' = IF e.bits = 4 THEN WithLinks(WithItem(driver, type, e), type, e) ELSE driver
  /\ Done(e)

LoadNothing(type, e) ==
  /\ type \notin Made \cup {"LCD"} /\ UNCHANGED driver /\ Done(e)

LoadItem(e) ==
  LET type == TypeByName(e.type) IN
  /\ Reads("items") /\ UNCHANGED chip
  /\ IF type = "UNKNOWN" \/ e.name = "" \/ ~Accepts(type, e) THEN Throw(driver)
     ELSE \/ LoadPlain(type, e) \/ LoadLightMeter(type, e) \/ LoadMeter(type, e)
          \/ LoadSensor(type, e) \/ LoadSled(type, e) \/ LoadLcd(type, e) \/ LoadNothing(type, e)
-----------------------------------------------------------------------------
(* start, stop and notify_low *)

Named(i) == Order[i] \in DOMAIN Items
Onward(stage) == task' = [stage |-> stage, read |-> 0] /\ UNCHANGED <<chip, driver, report>>
Switch(name, on) == driver' = [driver EXCEPT !.items[name].on = on]

Start == task.stage = "configured" /\ Onward("starting")
Stop == task.stage \in {"running", "idle"} /\ Onward("stopping")

(* The first item that cannot be initialised ends the start; those before   *)
(* it stay as they are.                                                     *)
Initialize ==
  \E i \in DOMAIN Order :
    /\ task.stage = "starting" /\ Named(i) /\ i > task.read
    /\ \A j \in task.read + 1 .. i - 1 : ~Named(j)
    /\ \/ Switch(Order[i], TRUE) /\ task' = [task EXCEPT !.read = i]
       \/ task' = [stage |-> "idle", read |-> 0] /\ UNCHANGED driver
    /\ UNCHANGED <<chip, report>>

StopItem ==
  \E i \in DOMAIN Order :
    /\ task.stage = "stopping" /\ Named(i) /\ i > task.read
    /\ \A j \in task.read + 1 .. i - 1 : ~Named(j)
    /\ Switch(Order[i], FALSE) /\ task' = [task EXCEPT !.read = i]
    /\ UNCHANGED <<chip, report>>

Through ==
  /\ task.stage \in {"starting", "stopping"} /\ \A i \in DOMAIN Order : Named(i) => i <= task.read
  /\ Onward(IF task.stage = "starting" THEN "running" ELSE "stopped")

(* The items an edge of a pin is given to: the buttons among the links of   *)
(* the pin's low level name.                                                *)
NotifyLow(provider, pin) ==
  LET links == LinksOf(driver, Low(provider, pin)) IN
  {links[i][1] : i \in {j \in DOMAIN links : links[j][2] = "BUTTON"}}

RobotNext ==
  \/ Refuse \/ Begin \/ EndOfList
  \/ \E e \in ProviderEntries : LoadProvider(e)
  \/ \E e \in GpioEntries : LoadGpio(e)
  \/ \E e \in ItemEntries : LoadItem(e)
  \/ Start \/ Initialize \/ Stop \/ StopItem \/ Through
-----------------------------------------------------------------------------
RobotTypeOK ==
  /\ task.stage \in {"new", "failed", "configured", "starting", "running", "idle", "stopping", "stopped"}
                     \cup {Stages[i] : i \in 1..3}
  /\ task.read \in Nat /\ report.result \in BOOLEAN
  /\ DOMAIN Items \subseteq {Order[i] : i \in DOMAIN Order}

Once(name) == \E i \in DOMAIN report.entries : \A j \in DOMAIN report.entries : report.entries[j].name = name <=> j = i

(* A pin has one GPIO and a GPIO one pin, whatever the lists hold and       *)
(* wherever an entry is refused; an item has all its GPIOs, and is linked   *)
(* to each of them; no link leads to an item that is not there; a sensor is *)
(* one of the users of the bus.                                             *)
RobotAgrees ==
  /\ \A g \in DOMAIN Gpios : Gpios[g] \in DOMAIN driver.low /\ driver.low[Gpios[g]] = g
  /\ \A l \in DOMAIN driver.low : driver.low[l] \in DOMAIN Gpios /\ Gpios[driver.low[l]] = l
  /\ \A n \in DOMAIN Items : \A i \in DOMAIN Items[n].gpios :
       LET g == Items[n].gpios[i] IN
       Items[n].type \notin Meters =>
         g \in DOMAIN Gpios /\ \E k \in DOMAIN LinksOf(driver, g) : driver.links[g][k] = <<n, Items[n].type>>
  /\ \A g \in DOMAIN driver.links : \A k \in DOMAIN driver.links[g] : driver.links[g][k][1] \in DOMAIN Items
  /\ \A n \in DOMAIN Items : Items[n].type \in OnBus => \E i \in DOMAIN driver.users : driver.users[i] = n

(* The names of types that mean another type, or none.                      *)
Misnamed == {"SLEDCTRLSPI", "SLEDCTRLPWM", "AnalogMeterSimple", "DustSensor"}
NotMade == {"SERVO", "TILT_SWITCH", "STEPPER", "SLED"}

(* When configure succeeds each entry of a list, the last of its name, has  *)
(* made an item of the type that is written - but for the misnamed types -  *)
(* and items are on as far as start came. A button whose GPIO has no name   *)
(* of its own hears of the edges of its pin, and nothing else does as long  *)
(* as no two items share a name, unless an item was refused that takes the  *)
(* place of one.                                                            *)
RobotReports ==
  /\ report.result => \A i \in DOMAIN report.entries :
       LET e == report.entries[i] IN
       \/ e.type \in Misnamed \cup NotMade \/ ~Once(e.name) \/ (e.type = "LCD" /\ e.bits # 4)
       \/ e.name \in DOMAIN Items /\ Items[e.name].type = e.type
  /\ task.stage = "running" => \A n \in DOMAIN Items : Items[n].on
  /\ task.stage = "stopped" => \A n \in DOMAIN Items : ~Items[n].on
  /\ \A g \in DOMAIN Gpios : Gpios[g] = g =>
       LET told == NotifyLow(g[1], g[2]) IN
       /\ \A n \in DOMAIN Items : Items[n].type = "BUTTON" /\ Items[n].gpios[1] = g => n \in told
       /\ \A n \in told : Once(n) /\ task.stage # "failed" => Items[n].type = "BUTTON" /\ Items[n].gpios[1] = g
===============================================================================
