--------------------------------- MODULE Lcd ---------------------------------
(***************************************************************************)
(* The LCD behind an MCP23008, in 4-bit mode. A call is a sequence of      *)
(* writes to the pins RS, enable, backlight and data, each of which reads  *)
(* the port and writes it back; the controller of the LCD, which is        *)
(* external, takes half a byte when enable falls. One lost half leaves it  *)
(* and the driver half a byte apart.                                       *)
(***************************************************************************)
EXTENDS Integers, Sequences

CONSTANTS
  Rows,         (* what set_cursor is called with                          *)
  Controls,     (* the flags of display control that are switched          *)
  Entries,      (* the flags of the entry mode that are switched           *)
  MaxFaults     (* bound: transfers that fail                              *)

VARIABLES
  chip,         (* the port of the expander, and the controller: the width *)
                (* of its bus, the half that it has (-1: none), display    *)
                (* control and entry mode                                  *)
  driver,       (* _displaycontrol, _displaymode                           *)
  task,         (* the writes of the current call, byte by byte, and       *)
                (* whether it initializes the LCD                          *)
  report        (* history: a transfer failed since the last complete      *)
                (* initialize, and in this call; how many failed           *)

lcdVars == <<chip, driver, task, report>>

LcdInit ==
  /\ \E width \in {4, 8}, half \in {-1, 0} :
       chip = [rs |-> 0, enable |-> 0, light |-> 0, data |-> 0,
               width |-> width, half |-> half, control |-> 0, entry |-> 2, lines |-> 0]
  /\ driver = [control |-> 4, entry |-> 2, ready |-> FALSE]
  /\ task = [left |-> <<>>, whole |-> FALSE]
  /\ report = [noisy |-> TRUE, failed |-> FALSE, faults |-> 0]

Bit(n, b) == (n \div b) % 2
With(n, b, on) == n + (IF on THEN b ELSE 0) - b * Bit(n, b)
-----------------------------------------------------------------------------
(* the controller *)

Execute(c, byte) ==
  CASE c.rs = 1    -> c
    [] byte >= 64  -> c
    [] byte >= 32  -> [c EXCEPT !.width = IF Bit(byte, 16) = 1 THEN 8 ELSE 4, !.lines = Bit(byte, 8)]
    [] byte >= 16  -> c
    [] byte >= 8   -> [c EXCEPT !.control = byte % 8]
    [] byte >= 4   -> [c EXCEPT !.entry = byte % 4]
    [] OTHER       -> c

Latch(c) ==
  IF c.width = 8 THEN Execute([c EXCEPT !.half = -1], 16 * c.data)
  ELSE IF c.half = -1 THEN [c EXCEPT !.half = c.data]
  ELSE Execute([c EXCEPT !.half = -1], 16 * c.half + c.data)
-----------------------------------------------------------------------------
(* the writes to the port: a read that fails returns all ones, a write that *)
(* fails changes nothing                                                    *)

Ones(c) == [c EXCEPT !.rs = 1, !.enable = 1, !.light = 1, !.data = 15]

Written(c, pin, v, fault) ==
  LET read == IF fault = "read" THEN Ones(c) ELSE c
      new == [read EXCEPT ![pin] = v]
      edge == c.enable = 1 /\ new.enable = 0
      after == IF edge THEN Latch(c) ELSE c
  IN  IF fault = "write" THEN c
      ELSE [after EXCEPT !.rs = new.rs, !.enable = new.enable, !.light = new.light, !.data = new.data]

Run(c, writes, bad, fault) ==
  LET run[i \in 0..Len(writes)] ==
        IF i = 0 THEN c ELSE Written(run[i - 1], writes[i][1], writes[i][2], IF i = bad THEN fault ELSE "none")
  IN  run[Len(writes)]

Pulse == <<<<"enable", 0>>, <<"enable", 1>>, <<"enable", 0>>>>
Write4bits(n) == <<<<"data", n>>>> \o Pulse
Byte(rs, b) == <<<<"rs", rs>>>> \o Write4bits(b \div 16) \o Write4bits(b % 16)
Command(b) == <<Byte(0, b)>>
Data(b) == <<Byte(1, b)>>
-----------------------------------------------------------------------------
(* calls *)

Call(writes, d, whole) ==
  /\ task.left = <<>>
  /\ task' = [left |-> writes, whole |-> whole]
  /\ driver' = d
  /\ report' = [report EXCEPT !.failed = FALSE]
  /\ UNCHANGED chip

(* A byte is written; one of its transfers may fail.                        *)
Send(bad, fault) ==
  /\ task.left # <<>>
  /\ bad <= Len(Head(task.left)) /\ (bad # 0 => report.faults < MaxFaults)
  /\ chip' = Run(chip, Head(task.left), bad, fault)
  /\ task' = [task EXCEPT !.left = Tail(@)]
  /\ LET failed == report.failed \/ bad # 0
         complete == task.whole /\ Len(task.left) = 1
     IN  report' = [report EXCEPT !.failed = failed, !.noisy = failed \/ (@ /\ ~complete),
                                  !.faults = IF bad = 0 THEN @ ELSE @ + 1]
  /\ UNCHANGED driver

(* The controller may be in either mode, or in the middle of a byte: three  *)
(* times 3 and a 2, then function set, display control, clear, entry mode   *)
(* and home.                                                                *)
InitWrites(d) ==
  <<<<<<"light", 1>>, <<"rs", 0>>, <<"enable", 0>>>>,
    Write4bits(3), Write4bits(3), Write4bits(3), Write4bits(2)>>
  \o Command(32 + 8) \o Command(8 + d.control) \o Command(1) \o Command(4 + d.entry) \o Command(2)

Initialize == Call(InitWrites(driver), [driver EXCEPT !.ready = TRUE], TRUE)

Display(d) == Command(8 + d.control)

SetControl(bit, on) ==
  LET d == [driver EXCEPT !.control = With(@, bit, on)] IN driver.ready /\ Call(Display(d), d, FALSE)

SetEntry(bit, on) ==
  LET d == [driver EXCEPT !.entry = With(@, bit, on)] IN driver.ready /\ Call(Command(4 + d.entry), d, FALSE)

Scroll == driver.ready /\ Call(Command(16 + 8), driver, FALSE)

(* Only when the backlight is off is the LCD initialized again; a read of   *)
(* it that fails is not 0.                                                  *)
On(unread) ==
  LET again == chip.light = 0 /\ ~unread
      d == [driver EXCEPT !.control = With(@, 4, TRUE)]
  IN  driver.ready /\ Call((IF again THEN InitWrites(driver) ELSE <<>>) \o Display(d), d, again)

(* also stop                                                                *)
Off ==
  LET d == [driver EXCEPT !.control = With(@, 4, FALSE)]
  IN  driver.ready /\ Call(Display(d) \o <<<<<<"light", 0>>>>>>, d, FALSE)

(* A row behind the last one is taken as the last one. The row with the     *)
(* number of lines, 2, is not, and reads behind the offsets.                *)
Offset(row) == CASE row = 0 -> {0} [] row = 1 -> {64} [] row = 2 -> {0, 64, 127} [] OTHER -> {64}

(* Nothing is written while the display is off.                             *)
WriteStringAt(row, clear) ==
  /\ driver.ready /\ Bit(driver.control, 4) = 1
  /\ \E offset \in Offset(row) :
       Call((IF clear THEN Command(1) ELSE <<>>) \o Command(128 + offset) \o Data(65), driver, FALSE)

LcdNext ==
  \/ \E fault \in {"none", "read", "write"} : \E bad \in IF fault = "none" THEN {0} ELSE 1..9 : Send(bad, fault)
  \/ Initialize \/ Off \/ Scroll
  \/ \E on \in BOOLEAN :
       \/ On(on)
       \/ \E bit \in Controls : SetControl(bit, on)
       \/ \E bit \in Entries : SetEntry(bit, on)
       \/ \E row \in Rows : WriteStringAt(row, on)
-----------------------------------------------------------------------------
LcdTypeOK ==
  /\ chip.data \in 0..15 /\ chip.half \in -1..15 /\ chip.width \in {4, 8} /\ chip.control \in 0..7
  /\ driver.control \in 0..7 /\ driver.entry \in 0..3 /\ report.faults \in 0..MaxFaults

(* Between calls the controller waits for a first half and has the driver's *)
(* settings, as long as no transfer failed since the last complete          *)
(* initialization: which makes good whatever failed before it.              *)
LcdAgrees ==
  ~report.noisy /\ task.left = <<>> =>
    /\ chip.width = 4 /\ chip.half = -1 /\ chip.lines = 1 /\ chip.enable = 0
    /\ chip.control = driver.control /\ chip.entry = driver.entry
===============================================================================
