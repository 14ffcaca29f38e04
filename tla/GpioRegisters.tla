------------------------------ MODULE GpioRegisters ------------------------------
(***************************************************************************)
(* The pins of the Raspberry Pi: GpioProviderSimple, which has their       *)
(* registers mapped and their folders in /sys/class/gpio, and the Gpio     *)
(* objects, which remember what they set. The registers and the folders    *)
(* outlive the program. A change of a register is one step: it is made     *)
(* with _mx_gpio, and only pullUpDownControl takes several.                *)
(***************************************************************************)
EXTENDS Integers, Sequences

CONSTANTS
  Chips,        (* "2835", "2711": has registers of its own for pulls      *)
  Pins,         (* pins of the provider; each is in the map below          *)
  Edges,        (* by chip: what an edge is set to, with "none"            *)
  Levels,       (* by chip: what is written to a pin                       *)
  MaxGpios,     (* bound: objects of all starts                            *)
  MaxStarts,    (* bound, by chip: starts of the program                   *)
  MaxFaults     (* bound, by chip: files of a folder that do not open      *)

VARIABLES
  chip,         (* its type, mode and pull of each pin, the control signal *)
                (* and its clocks, the exported folders and their edges    *)
  driver,       (* the objects, the pins with an open descriptor, and      *)
                (* whether the program runs                                *)
  task,         (* pullUpDownControl: its object, the pull, the next step, *)
                (* and the edge that the constructor sets afterwards       *)
  report        (* history: the mode and pull before the program, the pins *)
                (* whose change of an edge failed, starts and faults       *)

gpioVars == <<chip, driver, task, report>>

Modes == {"IN", "OUT", "PWM_OUT"}
NoTask == [g |-> 0, pull |-> 0, step |-> 0, edge |-> "none"]

(* pins_map                                                                 *)
Map == <<17, 18, 27, 22, 23, 24, 25, 5, 6, 19, 16, 26, 20, 21, 12, 13, 2, 3, 7, 8, 9, 10, 11, 4, 14, 15>>
Phys == [p \in 0..25 |-> Map[p + 1]]
Pads == {Phys[p] : p \in Pins}

(* pins_pwm, which lists 18 twice: 19 has PWM in the chip and not here.     *)
PwmMode(pad) == CASE pad \in {12, 13} -> "ALT0" [] pad = 18 -> "ALT5" [] OTHER -> "PWM_OUT"

GpioInit ==
  /\ \E type \in Chips, pull \in 0..1 :
       chip = [type |-> type, mode |-> [p \in Pads |-> "IN"], pull |-> [p \in Pads |-> pull], level |-> [p \in Pads |-> 0],
               signal |-> 0, clock |-> {}, exported |-> {}, edge |-> [p \in Pads |-> "none"]]
  /\ driver = [gpios |-> <<>>, open |-> {}, up |-> FALSE]
  /\ task = NoTask
  /\ report = [before |-> [mode |-> chip.mode, pull |-> chip.pull], failed |-> {}, starts |-> 0, faults |-> 0]

(* _is_bcm2711                                                              *)
Pi4 == chip.type = "2711"

Alive(g) == driver.gpios[g].alive
Free == driver.up /\ task.step = 0
-----------------------------------------------------------------------------
(* the provider: a state of the chip and of the driver becomes another      *)

SetMode(c, pad, mode) ==
  LET real == IF mode = "PWM_OUT" THEN PwmMode(pad) ELSE mode
  IN  IF real = "PWM_OUT" THEN c ELSE [c EXCEPT !.mode[pad] = real]

(* The levels are written to a set and a clear register, and only outputs   *)
(* show them.                                                               *)
Write(g, v) ==
  /\ Free /\ Alive(g)
  /\ chip' = [chip EXCEPT !.level[Phys[driver.gpios[g].pin]] = v]
  /\ UNCHANGED <<driver, task, report>>

(* The edge file is written, and the result not looked at.                  *)
EdgeFile(c, pad, edge, fault) == IF fault = "edge" THEN c ELSE [c EXCEPT !.edge[pad] = edge]
Export(c, pad) == [c EXCEPT !.exported = @ \cup {pad}]
Close(c, d, pin) == [d EXCEPT !.open = IF Phys[pin] \in c.exported THEN @ \ {pin} ELSE @]

(* set_egde_level of an edge: the folder is exported, the edge written and  *)
(* the value opened. A descriptor that was open is closed first.            *)
SetEdge(c, d, g, edge, fault) ==
  LET pin == d.gpios[g].pin
      pad == Phys[pin]
      closed == Close(c, d, pin)
      out == Export(c, pad)
  IN  CASE edge = "none" ->
             [c |-> IF pad \in c.exported THEN EdgeFile(c, pad, edge, fault) ELSE c,
              d |-> [closed EXCEPT !.gpios[g].edge = edge]]
        [] fault = "export" -> [c |-> c, d |-> closed]
        [] fault = "open" -> [c |-> EdgeFile(out, pad, edge, fault), d |-> closed]
        [] OTHER -> [c |-> EdgeFile(out, pad, edge, fault),
                     d |-> [closed EXCEPT !.open = @ \cup {pin}, !.gpios[g].edge = edge]]

Faulty(g, fault) ==
  /\ fault # "none" => report.faults < MaxFaults[chip.type]
  /\ report' = IF fault = "none" THEN report
               ELSE [report EXCEPT !.faults = @ + 1, !.failed = @ \cup {driver.gpios[g].pin}]

(* Only an input or an output has edges, in the eyes of its object.         *)
Edge(g, edge, fault) ==
  /\ Free /\ Alive(g) /\ driver.gpios[g].edge # edge /\ driver.gpios[g].mode \in {"IN", "OUT"}
  /\ fault = "export" => Phys[driver.gpios[g].pin] \notin chip.exported
  /\ LET s == SetEdge(chip, driver, g, edge, fault) IN chip' = s.c /\ driver' = s.d
  /\ Faulty(g, fault) /\ UNCHANGED task
-----------------------------------------------------------------------------
(* pullUpDownControl, which holds the lock: on a Pi 4 one field is set,     *)
(* others give the signal to the pads whose clock is set, in six steps      *)

Pull(c, g, pull) ==
  IF Pi4 THEN [c EXCEPT !.pull[Phys[driver.gpios[g].pin]] = pull] ELSE c

SetPull(g, pull) ==
  /\ Free /\ Alive(g) /\ driver.gpios[g].pull # pull
  /\ IF Pi4
     THEN /\ chip' = Pull(chip, g, pull)
          /\ driver' = [driver EXCEPT !.gpios[g].pull = pull]
          /\ UNCHANGED task
     ELSE /\ task' = [g |-> g, pull |-> pull, step |-> 1, edge |-> "none"]
          /\ UNCHANGED <<chip, driver>>
  /\ UNCHANGED report

(* The waits are left out: 1 sets the signal, 2 the clock of the pad, 3 and *)
(* 4 remove them. Writing a clock register replaces what a process that was *)
(* killed left in it.                                                       *)
ClockStep(pad) ==
  CASE task.step = 1 -> [chip EXCEPT !.signal = task.pull]
    [] task.step = 2 -> [chip EXCEPT !.clock = {pad}, !.pull[pad] = chip.signal]
    [] task.step = 3 -> [chip EXCEPT !.signal = 0]
    [] task.step = 4 -> [chip EXCEPT !.clock = {}]

PullStep(fault) ==
  /\ driver.up /\ task.step # 0
  /\ fault # "none" => task.step = 4 /\ task.edge # "none"
  /\ LET g == task.g
         c == ClockStep(Phys[driver.gpios[g].pin])
         d == [driver EXCEPT !.gpios[g].pull = task.pull]
         s == IF task.edge = "none" THEN [c |-> c, d |-> d] ELSE SetEdge(c, d, g, task.edge, fault)
     IN  IF task.step < 4
         THEN chip' = c /\ task' = [task EXCEPT !.step = @ + 1] /\ UNCHANGED driver
         ELSE chip' = s.c /\ driver' = s.d /\ task' = NoTask
  /\ Faulty(task.g, fault)
-----------------------------------------------------------------------------
(* Gpio *)

(* The constructor sets the mode, the pull unless it is PULL_OFF, and the   *)
(* edge unless it is EDGE_NONE.                                             *)
New(pin, mode, pull, edge, fault) ==
  LET g == Len(driver.gpios) + 1
      gpio == [pin |-> pin, mode |-> mode, pull |-> IF Pi4 THEN pull ELSE 0, edge |-> "none", alive |-> TRUE]
      c == SetMode(chip, Phys[pin], mode)
      d == [driver EXCEPT !.gpios = Append(@, gpio)]
      p == IF Pi4 /\ pull # 0 THEN [c EXCEPT !.pull[Phys[pin]] = pull] ELSE c
      wants == IF mode \in {"IN", "OUT"} THEN edge ELSE "none"
      s == IF wants = "none" THEN [c |-> p, d |-> d] ELSE SetEdge(p, d, g, wants, fault)
  IN  /\ Free /\ g <= MaxGpios
      /\ fault # "none" => wants # "none" /\ (Pi4 \/ pull = 0)
      /\ fault = "export" => Phys[pin] \notin chip.exported
      /\ fault # "none" => report.faults < MaxFaults[chip.type]
      /\ report' = IF fault = "none" THEN report ELSE [report EXCEPT !.faults = @ + 1, !.failed = @ \cup {pin}]
      /\ IF Pi4 \/ pull = 0
         THEN chip' = s.c /\ driver' = s.d /\ UNCHANGED task
         ELSE chip' = c /\ driver' = d /\ task' = [g |-> g, pull |-> pull, step |-> 1, edge |-> wants]

(* setMode                                                                  *)
ChangeMode(g, mode) ==
  /\ Free /\ Alive(g) /\ driver.gpios[g].mode # mode
  /\ chip' = SetMode(chip, Phys[driver.gpios[g].pin], mode)
  /\ driver' = [driver EXCEPT !.gpios[g].mode = mode]
  /\ UNCHANGED <<task, report>>

(* The destructor switches the detection off, in the modes that have it.    *)
Destroy(g) ==
  LET gpio == driver.gpios[g]
      s == IF gpio.edge # "none" /\ gpio.mode \in {"IN", "OUT"} THEN SetEdge(chip, driver, g, "none", "none")
           ELSE [c |-> chip, d |-> driver]
  IN  /\ Free /\ Alive(g)
      /\ chip' = s.c /\ driver' = [s.d EXCEPT !.gpios[g].alive = FALSE]
      /\ UNCHANGED <<task, report>>
-----------------------------------------------------------------------------
Boot ==
  /\ ~driver.up /\ report.starts < MaxStarts[chip.type]
  /\ driver' = [driver EXCEPT !.up = TRUE]
  /\ report' = [report EXCEPT !.starts = @ + 1, !.before = [mode |-> chip.mode, pull |-> chip.pull], !.failed = {}]
  /\ UNCHANGED <<chip, task>>

(* The provider is destroyed after the last object, and closes what is      *)
(* still open. Modes, pulls and exported folders stay.                      *)
Leave ==
  /\ Free /\ \A g \in DOMAIN driver.gpios : ~Alive(g)
  /\ driver' = [driver EXCEPT !.up = FALSE, !.open = {}]
  /\ UNCHANGED <<chip, task, report>>

(* The process is killed, maybe in the middle of a sequence.                *)
Kill ==
  /\ driver.up /\ report.starts < MaxStarts[chip.type]
  /\ driver' = [up |-> FALSE, open |-> {}, gpios |-> [g \in DOMAIN driver.gpios |-> [driver.gpios[g] EXCEPT !.alive = FALSE]]]
  /\ task' = NoTask
  /\ UNCHANGED <<chip, report>>

GpioNext ==
  \/ Boot \/ Leave \/ Kill
  \/ \E fault \in {"none", "export", "edge", "open"} :
       \/ PullStep(fault)
       \/ \E pin \in Pins, mode \in Modes, pull \in {0, 2}, edge \in Edges[chip.type] : New(pin, mode, pull, edge, fault)
       \/ \E g \in DOMAIN driver.gpios, edge \in Edges[chip.type] : (fault # "none" => edge # "none") /\ Edge(g, edge, fault)
  \/ \E g \in DOMAIN driver.gpios :
       \/ Destroy(g) \/ \E v \in Levels[chip.type] : Write(g, v)
       \/ \E mode \in Modes : ChangeMode(g, mode)
       \/ \E pull \in {0, 2} : SetPull(g, pull)
-----------------------------------------------------------------------------
GpioTypeOK ==
  /\ chip.mode \in [Pads -> {"IN", "OUT", "ALT0", "ALT5"}] /\ chip.pull \in [Pads -> 0..2]
  /\ chip.edge \in [Pads -> Edges[chip.type]] /\ chip.exported \subseteq Pads /\ chip.clock \subseteq Pads
  /\ driver.open \subseteq Pins /\ task.step \in 0..4

On(pin) == {g \in DOMAIN driver.gpios : driver.gpios[g].pin = pin /\ Alive(g)}
Since(pin) == {g \in DOMAIN driver.gpios : driver.gpios[g].pin = pin}

(* A pin with one object has the mode of it, unless it is one that the pin  *)
(* lacks, and its pull, which is that of before the program when the        *)
(* object was made with PULL_OFF; a pin with none is left as it was.        *)
GpioAgrees ==
  /\ \A g \in DOMAIN driver.gpios :
       LET gpio == driver.gpios[g]
           pad == Phys[gpio.pin]
       IN  Alive(g) /\ Since(gpio.pin) = {g} =>
             /\ gpio.mode \in {"IN", "OUT"} => chip.mode[pad] = gpio.mode
             /\ gpio.mode = "PWM_OUT" /\ PwmMode(pad) # "PWM_OUT" => chip.mode[pad] = PwmMode(pad)
             /\ task.step = 0 /\ gpio.pull # 0 => chip.pull[pad] = gpio.pull
  /\ driver.up => \A pin \in Pins :
       Since(pin) = {} => /\ chip.mode[Phys[pin]] = report.before.mode[Phys[pin]]
                          /\ chip.pull[Phys[pin]] = report.before.pull[Phys[pin]]

(* A descriptor is open for an object that says it detects edges, and such  *)
(* an object has one, as long as no file failed to open and each pin has    *)
(* one object.                                                              *)
EdgesAgree ==
  driver.up => \A pin \in Pins \ report.failed :
    \A g \in DOMAIN driver.gpios :
      On(pin) = {g} /\ Since(pin) = {g} /\ task.step = 0 =>
        /\ (pin \in driver.open) = (driver.gpios[g].edge # "none")
        /\ driver.gpios[g].edge # "none" => chip.edge[Phys[pin]] = driver.gpios[g].edge
==================================================================================
