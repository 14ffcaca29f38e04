------------------------------- MODULE Expander -------------------------------
(***************************************************************************)
(* GpioProviderMCP23017 and MCP23008: pins behind I2C. A pin is set by     *)
(* reading its register, or the copy the driver keeps, and writing it as a *)
(* whole, with no lock around the two, and nobody looks whether a transfer *)
(* failed: a failed read returns -1, all pins. A register is the set of    *)
(* its pins that are 1.                                                    *)
(***************************************************************************)
EXTENDS Integers

CONSTANTS
  Chips,        (* "23017", which keeps a copy, "23008", which reads       *)
  Pins,         (* each of them belongs to an item with its own thread     *)
  MaxCalls,     (* bound: calls                                            *)
  MaxFaults     (* bound: transfers that fail                              *)

VARIABLES
  chip,         (* its type, IODIR, GPPU and the output latch              *)
  driver,       (* m_OLAT                                                  *)
  task,         (* the call on each pin, its value, and what it read       *)
  report        (* history: what the pins were asked for, whether two      *)
                (* calls overlapped, the transfers that failed, and the    *)
                (* calls so far                                            *)

expanderVars == <<chip, driver, task, report>>

Registers == {"iodir", "gppu", "latch"}
Idle == [at |-> "none", op |-> "latch", value |-> 0, read |-> {}]

(* The constructor makes all pins outputs and reads their levels.           *)
ExpanderInit ==
  /\ \E type \in Chips, latch \in SUBSET Pins :
       /\ chip = [type |-> type, iodir |-> {}, gppu |-> {}, latch |-> latch]
       /\ driver = latch
       /\ report = [want |-> [iodir |-> {}, gppu |-> {}, latch |-> latch], overlap |-> FALSE,
                    faults |-> 0, clean |-> TRUE, calls |-> 0, inputs |-> {}]
  /\ task = [c \in Pins |-> Idle]

Put(set, pin, value) == IF value = 1 THEN set \cup {pin} ELSE set \ {pin}
-----------------------------------------------------------------------------
(* dgtWrite, setmode (IN is 1) and pullUpDownControl: a call begins ...     *)
Call(c, op, value) ==
  /\ task[c] = Idle /\ report.calls < MaxCalls
  /\ task' = [task EXCEPT ![c] = [at |-> "read", op |-> op, value |-> value, read |-> {}]]
  /\ report' = [report EXCEPT !.calls = @ + 1, !.want[op] = Put(@, c, value),
                              !.inputs = IF op = "iodir" /\ value = 1 THEN @ \cup {c} ELSE @,
                              !.overlap = @ \/ \E d \in Pins \ {c} : task[d] # Idle]
  /\ UNCHANGED <<chip, driver>>

Reads(op) == op # "latch" \/ chip.type = "23008"

(* The GPIO register has the latch of the outputs and the levels of the     *)
(* inputs.                                                                  *)
Read(op, ok, levels) ==
  CASE ~ok -> Pins
    [] ok /\ op = "latch" -> (chip.latch \ chip.iodir) \cup levels
    [] OTHER -> chip[op]

(* ... reads its register, or takes the copy of it ...                      *)
Fetch(c, ok, levels) ==
  LET t == task[c]
      old == IF Reads(t.op) THEN Read(t.op, ok, levels) ELSE driver
  IN  /\ t.at = "read"
      /\ task' = [task EXCEPT ![c].at = "write", ![c].read = old]
      /\ driver' = IF t.op = "latch" THEN old ELSE driver
      /\ ok \/ (Reads(t.op) /\ report.faults < MaxFaults)
      /\ report' = IF ok THEN report ELSE [report EXCEPT !.faults = @ + 1]
      /\ UNCHANGED chip

NewRegister(c) == Put(task[c].read, c, task[c].value)

(* ... writes it with its pin changed ...                                   *)
Write(c, ok) ==
  LET t == task[c]
      r == t.op
  IN  /\ t.at = "write"
      /\ chip' = IF ok THEN [chip EXCEPT ![r] = NewRegister(c)] ELSE chip
      /\ task' = [task EXCEPT ![c] = IF r = "latch" THEN [t EXCEPT !.at = "save"] ELSE Idle]
      /\ ok \/ report.faults < MaxFaults
      /\ report' = [report EXCEPT !.faults = IF ok THEN @ ELSE @ + 1,
                                  !.clean = IF r = "latch" THEN ok /\ ~report.overlap ELSE @]
      /\ UNCHANGED driver

(* ... and keeps what it wrote, or failed to write, in the copy.            *)
Save(c) ==
  /\ task[c].at = "save"
  /\ driver' = NewRegister(c)
  /\ task' = [task EXCEPT ![c] = Idle]
  /\ UNCHANGED <<chip, report>>

CallNext(c) ==
  \/ Save(c)
  \/ \E ok \in BOOLEAN : Write(c, ok) \/ \E levels \in SUBSET chip.iodir : Fetch(c, ok, levels)

ExpanderNext ==
  \E c \in Pins :
    \/ CallNext(c)
    \/ \E op \in Registers, value \in 0..1 : Call(c, op, value)
-----------------------------------------------------------------------------
ExpanderTypeOK ==
  /\ \A r \in Registers : chip[r] \subseteq Pins
  /\ driver \subseteq Pins /\ report.faults \in 0..MaxFaults

Quiet == \A c \in Pins : task[c] = Idle

(* Every pin has the mode, the pull-up and, unless it was an input, whose   *)
(* level may have been written back, the level it was last asked for, as    *)
(* long as no two calls overlapped and no transfer failed; and the copy is  *)
(* what the pins have after each write that succeeded, whatever failed      *)
(* before it.                                                               *)
ExpanderAgrees ==
  Quiet =>
    /\ ~report.overlap /\ report.faults = 0 =>
         /\ chip.iodir = report.want.iodir /\ chip.gppu = report.want.gppu
         /\ chip.latch \ report.inputs = report.want.latch \ report.inputs
    /\ ~report.overlap /\ report.clean => driver = chip.latch
===============================================================================
