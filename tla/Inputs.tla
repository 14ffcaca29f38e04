------------------------------- MODULE Inputs -------------------------------
(***************************************************************************)
(* Buttons over the GPIOs of the processor. GpioProviderSimple polls the   *)
(* descriptors of the GPIOs with edge detection in a thread of its own and *)
(* hands each value to PiRobot::notify_low, which looks for the button;    *)
(* a button also has a thread that polls the level. Both bring a change to *)
(* the state machine through Button::process_level, without a lock.        *)
(***************************************************************************)
EXTENDS Integers, FiniteSetsExt, Threaded

CONSTANTS
  Pins,         (* GPIOs 1..n, each with a button                          *)
  Edges,        (* edges callers ask for                                   *)
  MaxChanges    (* bound: changes of the levels                            *)

VARIABLES
  linked,       (* GPIOs without a name of their own: only of these does   *)
                (* notify_low find the button; the configuration's choice  *)
  level, changes,  (* the pins: TRUE is high; a counter for the bound      *)
  edge, gpioEdge,  (* edge of the kernel, _edge_level of the Gpio          *)
  open, event,     (* _fds[pin].fd is open, and has an edge not read yet   *)
  request,         (* the set_egde_level call that is going on, or <<>>    *)
  found,           (* descriptors of poll that still have to be looked at  *)
  state, heard,    (* m_state of the button; what the machine heard last   *)
  poller,          (* the thread of the button                             *)
  btold, stopping, (* buttons told to stop, and those being joined         *)
  curr,            (* curr_level of Button::worker                         *)
  seen             (* the value with which a thread is in process_level    *)

inputVars == <<linked, level, changes, edge, gpioEdge, open, event, request, found, state, heard,
               poller, btold, stopping, curr, seen>>

(* The threads that may be in process_level for the button of a pin.        *)
Provider == 0
Threads == {Provider} \cup Pins

InputsInit ==
  /\ linked \in SUBSET Pins
  /\ level = [p \in Pins |-> FALSE] /\ changes = 0
  /\ edge = [p \in Pins |-> "none"] /\ gpioEdge = edge
  /\ open = [p \in Pins |-> FALSE] /\ event = open /\ request = <<>> /\ found = {}
  /\ state = [p \in Pins |-> FALSE] /\ heard = state
  /\ poller = [p \in Pins |-> "none"] /\ btold = {} /\ stopping = {} /\ curr = level
  /\ seen = [t \in Threads |-> FALSE]

fdVars == <<edge, open, event>>
buttonVars == <<state, heard, poller, btold, stopping, curr, seen>>

FdCount == Cardinality({p \in Pins : open[p]})

Press(p) ==
  /\ changes < MaxChanges
  /\ changes' = changes + 1
  /\ level' = [level EXCEPT ![p] = ~@]
  /\ event' = [event EXCEPT ![p] = @ \/ (open[p] /\ edge[p] \in
                  {"both", IF level[p] THEN "falling" ELSE "rising"})]
  /\ UNCHANGED <<linked, edge, gpioEdge, open, request, found, buttonVars, threadVars>>
-----------------------------------------------------------------------------
(* set_egde_level of a Gpio and of the provider, by a caller *)

StartProvider == Start /\ UNCHANGED inputVars
StopCall == Tell /\ UNCHANGED inputVars
StopJoin == Join /\ UNCHANGED inputVars

(* The descriptor is closed first, the edge is set ...                      *)
SetEdge(p, e) ==
  /\ caller = "free" /\ request = <<>> /\ e # gpioEdge[p]
  /\ request' = <<p, e>>
  /\ open' = [open EXCEPT ![p] = FALSE] /\ event' = [event EXCEPT ![p] = FALSE]
  /\ edge' = [edge EXCEPT ![p] = e]
  /\ IF open[p] THEN Notify ELSE UNCHANGED <<worker, missed>>
  /\ UNCHANGED <<linked, level, changes, gpioEdge, found, buttonVars, told, caller>>

(* ... and the descriptor is opened, with the older values read from it; an *)
(* export that fails leaves all as it was.                                  *)
OpenFolder ==
  /\ request # <<>> /\ request' = <<>>
  /\ LET p == request[1] IN
     \/ /\ request[2] # "none"
        /\ open' = [open EXCEPT ![p] = TRUE] /\ event' = [event EXCEPT ![p] = FALSE]
        /\ gpioEdge' = [gpioEdge EXCEPT ![p] = request[2]]
        /\ Notify
     \/ /\ request[2] = "none"
        /\ gpioEdge' = [gpioEdge EXCEPT ![p] = "none"]
        /\ UNCHANGED <<open, event, worker, missed>>
     \/ /\ request[2] # "none"        \* the folder does not open
        /\ UNCHANGED <<open, event, gpioEdge, worker, missed>>
  /\ UNCHANGED <<linked, level, changes, edge, found, buttonVars, told, caller>>
-----------------------------------------------------------------------------
(* process_level, by the provider's thread or the button's own: the value *)
(* is compared with the state, the state is set and the machine is told    *)

SetState(t, p) == state' = [state EXCEPT ![p] = seen[t]]

TellMachine(t, p) ==
  /\ heard' = [heard EXCEPT ![p] = seen[t]]
  /\ seen' = [seen EXCEPT ![t] = FALSE]
-----------------------------------------------------------------------------
(* worker of the provider *)

Prov(from, to) ==
  /\ worker = from /\ worker' = to
  /\ UNCHANGED <<linked, level, changes, edge, gpioEdge, open, request, poller, btold, stopping, curr, told,
                 missed, caller>>

WaitForDescriptor == Wait(FdCount > 0) /\ UNCHANGED inputVars
Wakeup == SpuriousWakeup /\ UNCHANGED inputVars

Awake ==
  /\ Prov("work", IF told THEN "ended" ELSE "poll")
  /\ UNCHANGED <<event, found, state, heard, seen>>

Arm ==
  /\ Prov("poll", IF FdCount = 0 \/ told THEN "top" ELSE "polling")
  /\ UNCHANGED <<event, found, state, heard, seen>>

(* poll: its timeout (or an error), or the descriptors with an edge.        *)
PollTimeout ==
  /\ Prov("polling", "poll")
  /\ UNCHANGED <<event, found, state, heard, seen>>

PollEvents ==
  /\ Prov("polling", "scan")
  /\ found' = {p \in Pins : open[p] /\ event[p]} /\ found' # {}
  /\ UNCHANGED <<event, state, heard, seen>>

First == Min(found)

(* Its value is read, unless it was closed meanwhile or cannot be read, and *)
(* goes to the button that notify_low finds.                                *)
ReadValue ==
  /\ found # {}
  /\ \/ /\ open[First] /\ First \in linked
        /\ Prov("scan", IF state[First] = level[First] THEN "scan" ELSE "set")
        /\ seen' = [seen EXCEPT ![Provider] = level[First]]
        /\ event' = [event EXCEPT ![First] = FALSE]
        /\ found' = IF worker' = "set" THEN found ELSE found \ {First}
     \/ /\ open[First] /\ First \notin linked
        /\ Prov("scan", "scan")
        /\ event' = [event EXCEPT ![First] = FALSE] /\ found' = found \ {First} /\ UNCHANGED seen
     \/ /\ Prov("scan", "scan")
        /\ found' = found \ {First} /\ UNCHANGED <<event, seen>>
  /\ UNCHANGED <<state, heard>>

ProviderSets ==
  /\ Prov("set", "tell") /\ SetState(Provider, First)
  /\ UNCHANGED <<event, found, heard, seen>>

ProviderTells ==
  /\ Prov("tell", "scan") /\ TellMachine(Provider, First)
  /\ found' = found \ {First}
  /\ UNCHANGED <<event, state>>

Scanned ==
  /\ found = {} /\ Prov("scan", "poll")
  /\ UNCHANGED <<event, found, state, heard, seen>>
-----------------------------------------------------------------------------
(* the buttons *)

(* A thread is started if the GPIO has edge detection, and only then.       *)
StartsThread(p) == gpioEdge[p] # "none"

(* The robot is started once, or again after its stop; the machine begins   *)
(* with the state of the button.                                            *)
Initialize(p) ==
  /\ caller = "free" /\ request = <<>> /\ poller[p] = "none"
  /\ state' = [state EXCEPT ![p] = level[p]] /\ heard' = [heard EXCEPT ![p] = level[p]]
  /\ poller' = [poller EXCEPT ![p] = IF StartsThread(p) THEN "begin" ELSE @]
  /\ UNCHANGED <<linked, level, changes, fdVars, gpioEdge, request, found, btold, stopping, curr, seen,
                 threadVars>>

Poller(p, from, to) ==
  /\ poller[p] = from /\ poller' = [poller EXCEPT ![p] = to]
  /\ UNCHANGED <<linked, level, changes, fdVars, gpioEdge, request, found, btold, stopping, threadVars>>

(* The level with which the thread begins is taken as known.                *)
PollerBegins(p) ==
  /\ Poller(p, "begin", "read")
  /\ curr' = [curr EXCEPT ![p] = level[p]] /\ UNCHANGED <<state, heard, seen>>

PollerReads(p) ==
  \/ /\ p \in btold /\ Poller(p, "read", "ended") /\ UNCHANGED <<state, heard, curr, seen>>
  \/ /\ p \notin btold /\ level[p] # curr[p]
     /\ Poller(p, "read", IF state[p] = level[p] THEN "read" ELSE "set")
     /\ seen' = [seen EXCEPT ![p] = level[p]] /\ curr' = [curr EXCEPT ![p] = level[p]]
     /\ UNCHANGED <<state, heard>>

PollerSets(p) == Poller(p, "set", "tell") /\ SetState(p, p) /\ UNCHANGED <<heard, curr, seen>>
PollerTells(p) == Poller(p, "tell", "read") /\ TellMachine(p, p) /\ UNCHANGED <<state, curr>>

StopButton(p) ==
  /\ caller = "free" /\ p \notin stopping /\ poller[p] # "none"
  /\ btold' = btold \cup {p} /\ stopping' = stopping \cup {p}
  /\ UNCHANGED <<linked, level, changes, fdVars, gpioEdge, request, found, state, heard, poller, curr, seen,
                 threadVars>>

JoinButton(p) ==
  /\ p \in stopping /\ stopping' = stopping \ {p}
  /\ poller[p] = "ended" /\ poller' = [poller EXCEPT ![p] = "none"]
  /\ UNCHANGED <<linked, level, changes, fdVars, gpioEdge, request, found, state, heard, btold, curr, seen,
                 threadVars>>

ProviderNext ==
  \/ WaitForDescriptor \/ Awake \/ Arm \/ PollEvents \/ ReadValue \/ ProviderSets \/ ProviderTells
  \/ Scanned \/ PollTimeout
PollerNext(p) == PollerBegins(p) \/ PollerReads(p) \/ PollerSets(p) \/ PollerTells(p)

InputsNext ==
  \/ \E p \in Pins :
       \/ Press(p) \/ Initialize(p) \/ PollerNext(p) \/ StopButton(p)
       \/ JoinButton(p) \/ \E e \in Edges : SetEdge(p, e)
  \/ OpenFolder \/ Wakeup \/ StartProvider \/ StopCall \/ StopJoin \/ ProviderNext
-----------------------------------------------------------------------------
InputsTypeOK ==
  /\ \A p \in Pins :
       /\ level[p] \in BOOLEAN /\ open[p] \in BOOLEAN /\ event[p] \in BOOLEAN
       /\ edge[p] \in Edges /\ gpioEdge[p] \in Edges
       /\ state[p] \in BOOLEAN /\ heard[p] \in BOOLEAN /\ curr[p] \in BOOLEAN
       /\ poller[p] \in {"none", "begin", "read", "set", "tell", "ended"}
       /\ event[p] => open[p]
  /\ linked \subseteq Pins /\ changes \in 0..MaxChanges /\ found \subseteq Pins /\ request \in {<<>>} \cup Pins \X Edges
  /\ btold \subseteq Pins /\ stopping \subseteq btold

(* The thread of a button will read a level that is new to it.              *)
Sees(p, b) == poller[p] = "read" /\ level[p] = b /\ curr[p] # b
=============================================================================
