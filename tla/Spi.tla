---------------------------------- MODULE Spi ----------------------------------
(***************************************************************************)
(* The SPI bus and its two channels: each has a device of the kernel and a *)
(* pin that selects the chip, low for on. A strip selects its channel, has *)
(* its data written and releases it; a converter selects once, reads on    *)
(* and releases nothing. Data go to the channel that was selected last.    *)
(* Users run in threads of their own: the mutex of SPI is held for one     *)
(* change only, of m_channel and a pin, which is one step here.            *)
(***************************************************************************)
EXTENDS Integers

CONSTANTS
  Strips, Meters,   (* the users                                           *)
  MaxRounds,        (* bound: selections of all users                      *)
  MaxFaults         (* bound: devices that do not open                     *)

VARIABLES
  chip,             (* the level of each channel's pin                     *)
  driver,           (* m_channels, m_channel, and the devices that opened  *)
  task,             (* of each user its channel, its step and the channel  *)
                    (* or device it has read                               *)
  report            (* history: the last transfer of each user, whether    *)
                    (* two users were busy at once, and selections         *)

spiVars == <<chip, driver, task, report>>

Users == Strips \cup Meters
Channels == 0..1
NoTransfer == [device |-> -1, chips |-> {}]

(* The channels are set up, and switched off.                               *)
SpiInit ==
  /\ \E channels \in 1..2, closed \in SUBSET Channels :
       /\ driver = [channels |-> channels, channel |-> 0, open |-> (0..channels - 1) \ closed]
       /\ report = [last |-> [u \in Users |-> NoTransfer], overlapped |-> FALSE, rounds |-> 0,
                    faults |-> IF closed = {} THEN 0 ELSE 1]
  /\ report.faults <= MaxFaults
  /\ chip = [c \in Channels |-> "high"]
  /\ \E channel \in [Users -> Channels] : task = [u \in Users |-> [channel |-> channel[u], step |-> "idle", other |-> 0]]

Known(c) == c < driver.channels
Go(u, step) == task' = [task EXCEPT ![u].step = step]
-----------------------------------------------------------------------------
(* set_channel_on, called by On of a strip, activate_spi_channel of a       *)
(* converter. An unknown channel is refused: the strip does not look at     *)
(* that, and the converter calls again.                                     *)

Select(u) ==
  /\ task[u].step = "idle" /\ report.rounds < MaxRounds
  /\ report' = [report EXCEPT !.rounds = @ + 1, !.overlapped = @ \/ \E v \in Users \ {u} : task[v].step # "idle"]
  /\ CASE ~Known(task[u].channel) -> IF u \in Strips THEN Go(u, "ready") ELSE UNCHANGED task
       [] Known(task[u].channel) /\ task[u].channel # driver.channel ->
            task' = [task EXCEPT ![u].step = "switch", ![u].other = driver.channel]
       [] OTHER -> Go(u, "mine")
  /\ UNCHANGED <<chip, driver>>

(* The pin of the other channel is looked at before the mutex is locked.    *)
Switch(u) ==
  /\ task[u].step = "switch"
  /\ Go(u, IF chip[task[u].other] = "high" THEN "mine" ELSE "raise")
  /\ UNCHANGED <<chip, driver, report>>

Raise(u) ==
  /\ task[u].step = "raise"
  /\ chip' = [chip EXCEPT ![task[u].other] = "high"]
  /\ Go(u, "mine") /\ UNCHANGED <<driver, report>>

Mine(u) ==
  /\ task[u].step = "mine"
  /\ Go(u, IF task[u].channel = driver.channel /\ chip[task[u].channel] = "low" THEN "ready" ELSE "lower")
  /\ UNCHANGED <<chip, driver, report>>

Lower(u) ==
  /\ task[u].step = "lower"
  /\ driver' = [driver EXCEPT !.channel = task[u].channel]
  /\ chip' = [chip EXCEPT ![task[u].channel] = "low"]
  /\ Go(u, "ready") /\ UNCHANGED report
-----------------------------------------------------------------------------
(* data_rw: to the device of m_channel; every chip with a low pin listens   *)

ReadChannel(u) ==
  /\ task[u].step = "ready"
  /\ task' = [task EXCEPT ![u].step = "send", ![u].other = driver.channel]
  /\ UNCHANGED <<chip, driver, report>>

(* A controller of strips sends the data of each until one cannot be sent;  *)
(* a converter reads on, and does not look at the result.                   *)
DataRw(u) ==
  LET sent == task[u].other \in driver.open IN
  /\ task[u].step = "send"
  /\ report' = [report EXCEPT !.last[u] =
       [device |-> task[u].other, chips |-> IF sent THEN {c \in Channels : chip[c] = "low"} ELSE {}]]
  /\ \/ (u \in Meters \/ sent) /\ Go(u, "ready")
     \/ u \in Strips /\ Go(u, "release")
  /\ UNCHANGED <<chip, driver>>

(* set_channel_off, by Off of a strip.                                      *)
Release(u) ==
  /\ task[u].step = "release"
  /\ Go(u, IF ~Known(task[u].channel) \/ chip[task[u].channel] = "high" THEN "idle" ELSE "off")
  /\ UNCHANGED <<chip, driver, report>>

Off(u) ==
  /\ task[u].step = "off"
  /\ chip' = [chip EXCEPT ![task[u].channel] = "high"]
  /\ Go(u, "idle") /\ UNCHANGED <<driver, report>>

(* No receiver of the converter is active any more.                         *)
Rest(u) ==
  /\ u \in Meters /\ task[u].step = "ready"
  /\ Go(u, "idle") /\ UNCHANGED <<chip, driver, report>>

SpiNext ==
  \E u \in Users :
    \/ Select(u) \/ Switch(u) \/ Raise(u) \/ Mine(u) \/ Lower(u)
    \/ ReadChannel(u) \/ DataRw(u) \/ Release(u) \/ Off(u) \/ Rest(u)
-----------------------------------------------------------------------------
SpiTypeOK ==
  /\ chip \in [Channels -> {"high", "low"}] /\ driver.channel \in Channels /\ driver.open \subseteq Channels
  /\ \A u \in Users : task[u].channel \in Channels /\ task[u].other \in Channels

(* m_channel is always one that was set up. As long as no two users were    *)
(* busy at once, at most one chip is selected, the one of m_channel.        *)
SpiAgrees ==
  /\ Known(driver.channel)
  /\ ~report.overlapped => \A c \in Channels : chip[c] = "low" => c = driver.channel

(* Until then what a user of a known channel sends reaches its own chip and *)
(* no other, if the device of that channel was opened.                      *)
SpiReports ==
  \A u \in Users :
    LET last == report.last[u] IN
    ~report.overlapped /\ Known(task[u].channel) /\ last.device # -1 =>
      /\ last.device = task[u].channel
      /\ last.chips = IF task[u].channel \in driver.open THEN {task[u].channel} ELSE {}
===============================================================================
