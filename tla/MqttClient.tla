----------------------------- MODULE MqttClient -----------------------------
(***************************************************************************)
(* mqtt::MqttClient and MosquittoClient of pi-mqtt, the client behind the  *)
(* MQTT storage: publish puts a message into the circular buffer, the      *)
(* worker connects and sends while the client is connected, the callbacks  *)
(* of the mosquitto library set m_connected on the library's own thread,   *)
(* and stop, on the thread that publishes, ends the client.                *)
(***************************************************************************)
EXTENDS CircularBuffer

CONSTANTS
  MaxPublish,   (* bound: messages published in a behaviour                *)
  MaxLosses     (* bound: connections lost in a behaviour                  *)

ASSUME MqttAssumption ==
  /\ Moves
  /\ MaxPublish \in Nat /\ Values = 1..MaxPublish
  /\ MaxLosses \in Nat

VARIABLES
  messages,     (* m_messages                                              *)
  ppc,          (* where the publishing thread is: idle, notify            *)
  puts,         (* messages put so far; the next one is puts + 1           *)
  connected,    (* m_connected                                             *)
  net,          (* the library: off, connecting, up, lost, closing         *)
  wanted,       (* the library has not been asked to disconnect            *)
  wpc,          (* where the worker is                                     *)
  item,         (* the message the worker took                             *)
  stopSignal,
  owner,        (* running, disconnect, signal, joining, stopped           *)
  queued,       (* history: accepted and not taken yet, oldest first       *)
  sent,         (* history: what the library sent                          *)
  losses,       (* history: connections lost                               *)
  filled,       (* history: every slot was in use since the last empty     *)
  missed,       (* history: a notification fell before the worker's sleep  *)
  quiet         (* history: the connection came up, and the worker was not
                   notified, while it waited with messages queued          *)

pubVars == <<ppc, puts, filled>>
netVars == <<connected, net, wanted, losses>>
workVars == <<wpc, item, sent>>
ownVars == <<stopSignal, owner>>
vars == <<messages, pubVars, netVars, workVars, ownVars, queued, missed, quiet>>

Init ==
  /\ messages = NewBuffer /\ queued = <<>>
  /\ ppc = "idle" /\ puts = 0 /\ filled = FALSE
  /\ connected = FALSE /\ net = "off" /\ wanted = TRUE /\ losses = 0
  /\ wpc = "connect" /\ item = Empty /\ sent = <<>>
  /\ stopSignal = FALSE /\ owner = "running"
  /\ missed = FALSE /\ quiet = FALSE

Alive == wpc # "crashed"
-----------------------------------------------------------------------------
(* publish: the message is put, and cv is notified without the mutex. (Once *)
(* the stop signal is set publish does nothing.)                            *)
PutMessage ==
  /\ Alive /\ ppc = "idle" /\ owner = "running" /\ ~stopSignal /\ puts < MaxPublish
  /\ puts' = puts + 1
  /\ messages' = Put(messages, puts + 1)
  /\ queued' = IF IsFull(messages) THEN queued ELSE Append(queued, puts + 1)
  /\ filled' = (filled \/ messages.size + 1 >= MaxSize)
  /\ ppc' = "notify"
  /\ UNCHANGED <<netVars, workVars, ownVars, missed, quiet>>

Wake == IF wpc = "asleep" THEN "wait" ELSE wpc

(* Faulty variant: the notification is forgotten.                           *)
NotifyForgotten ==
  /\ Alive /\ ppc = "notify"
  /\ ppc' = "idle"
  /\ UNCHANGED <<messages, puts, filled, netVars, workVars, ownVars, queued, missed, quiet>>

Notify ==
  /\ Alive /\ ppc = "notify"
  /\ ppc' = "idle"
  /\ wpc' = Wake
  /\ missed' = IF wpc = "asleep" THEN FALSE ELSE missed \/ wpc = "prewait"
  /\ UNCHANGED <<messages, puts, filled, netVars, item, sent, ownVars, queued, quiet>>
-----------------------------------------------------------------------------
(* The mosquitto library and its callbacks *)
NetStep ==
  /\ Alive
  /\ UNCHANGED <<messages, pubVars, item, sent, ownVars, queued, wpc, missed>>

(* The broker accepted: on_connect and on_connect_flags set m_connected;    *)
(* on_client does nothing, so that nobody notifies the worker.              *)
OnConnect ==
  /\ NetStep
  /\ net = "connecting"
  /\ net' = "up" /\ connected' = TRUE
  /\ quiet' = (quiet \/ (wpc \in {"prewait", "asleep"} /\ queued # <<>>))
  /\ UNCHANGED <<wanted, losses>>

(* The connection breaks ...                                                *)
Lose ==
  /\ NetStep
  /\ net = "up" /\ losses < MaxLosses
  /\ net' = "lost" /\ losses' = losses + 1
  /\ UNCHANGED <<connected, wanted, quiet>>

(* ... or was closed; the library connects again unless it was asked to     *)
(* disconnect.                                                              *)
OnDisconnect ==
  /\ NetStep
  /\ net \in {"lost", "closing"}
  /\ connected' = FALSE
  /\ net' = IF wanted THEN "connecting" ELSE "off"
  /\ UNCHANGED <<wanted, losses, quiet>>

(* Faulty variant: m_connected is left to the callback.                     *)
DisconnectKeepsFlag ==
  /\ wanted' = FALSE
  /\ net' = IF net = "up" THEN "closing" ELSE net
  /\ UNCHANGED <<connected, losses>>

(* cl_disconnect: m_connected is reset when the library had a connection.   *)
Disconnect ==
  /\ wanted' = FALSE
  /\ connected' = (connected /\ net # "up")
  /\ net' = IF net = "up" THEN "closing" ELSE net
  /\ UNCHANGED losses
-----------------------------------------------------------------------------
(* worker *)
WorkerAt(from, to) ==
  /\ wpc = from /\ wpc' = to
  /\ UNCHANGED <<messages, pubVars, item, sent, ownVars, queued>>

Connect ==
  /\ WorkerAt("connect", "top")
  /\ net' = "connecting"
  /\ UNCHANGED <<connected, wanted, losses, missed, quiet>>

OuterLoop ==
  /\ WorkerAt("top", IF stopSignal THEN "leave" ELSE "wait")
  /\ UNCHANGED <<netVars, missed, quiet>>

(* The predicate of cv.wait, evaluated with cv_m held.                      *)
Check ==
  /\ WorkerAt("wait", IF stopSignal \/ (~IsEmpty(messages) /\ connected)
                        THEN "inner" ELSE "prewait")
  /\ UNCHANGED <<netVars, missed, quiet>>

Sleep == WorkerAt("prewait", "asleep") /\ UNCHANGED <<netVars, missed, quiet>>

SpuriousWakeup ==
  /\ WorkerAt("asleep", "wait")
  /\ missed' = FALSE /\ quiet' = FALSE
  /\ UNCHANGED netVars

(* Faulty variant: the buffer is not tested before get.                     *)
InnerLoopUntested ==
  /\ WorkerAt("inner", IF connected /\ ~stopSignal THEN "get" ELSE "top")
  /\ quiet' = FALSE /\ missed' = FALSE
  /\ UNCHANGED netVars

(* The condition of the inner loop ...                                      *)
InnerLoop ==
  /\ WorkerAt("inner", IF connected /\ ~IsEmpty(messages) /\ ~stopSignal
                         THEN "get" ELSE "top")
  /\ quiet' = FALSE /\ missed' = FALSE
  /\ UNCHANGED netVars

(* ... and its body: get returns a null pointer when the buffer was emptied *)
(* since the test.                                                          *)
GetMessage ==
  /\ wpc = "get"
  /\ item' = Got(messages)
  /\ messages' = Get(messages)
  /\ queued' = IF queued = <<>> THEN queued ELSE Tail(queued)
  /\ wpc' = "put"
  /\ UNCHANGED <<pubVars, sent, netVars, ownVars, missed, quiet>>

(* Faulty variant: a message that was not sent is put back.                 *)
SendMessageAgain ==
  /\ wpc = "put" /\ item # Empty
  /\ wpc' = "inner"
  /\ \/ sent' = Append(sent, item) /\ UNCHANGED <<messages, queued>>
     \/ /\ net # "up" /\ ~IsFull(messages)
        /\ messages' = Put(messages, item) /\ queued' = Append(queued, item)
        /\ UNCHANGED sent
  /\ UNCHANGED <<pubVars, item, netVars, ownVars, missed, quiet>>

(* put reads the message's topic; the result of publish is not looked at.   *)
SendMessage ==
  /\ wpc = "put"
  /\ wpc' = IF item = Empty THEN "crashed" ELSE "inner"
  /\ \/ item # Empty /\ sent' = Append(sent, item)
     \/ (net # "up" \/ item = Empty) /\ UNCHANGED sent
  /\ UNCHANGED <<messages, pubVars, item, netVars, ownVars, queued, missed, quiet>>

(* The worker disconnects when it leaves its loop.                          *)
Leave ==
  /\ WorkerAt("leave", "done")
  /\ IF connected THEN Disconnect ELSE UNCHANGED netVars
  /\ UNCHANGED <<missed, quiet>>
-----------------------------------------------------------------------------
(* stop: empties the buffer, disconnects a client that is connected, sets   *)
(* the stop signal with cv_m held, and joins.                               *)
OwnerAt(from, to) ==
  /\ Alive /\ owner = from /\ owner' = to
  /\ UNCHANGED <<ppc, puts, item, sent, quiet>>

EmptyQueue ==
  /\ OwnerAt("running", "disconnect")
  /\ ppc = "idle"
  /\ messages' = Clear(messages) /\ queued' = <<>>
  /\ UNCHANGED <<filled, netVars, wpc, stopSignal, missed>>

StopDisconnects ==
  /\ OwnerAt("disconnect", "signal")
  /\ IF connected THEN Disconnect ELSE UNCHANGED netVars
  /\ UNCHANGED <<messages, queued, filled, wpc, stopSignal, missed>>

(* Faulty variant: the stop signal is set without cv_m.                     *)
SetStopSignalUnlocked ==
  /\ OwnerAt("signal", "joining")
  /\ stopSignal' = TRUE
  /\ wpc' = Wake
  /\ UNCHANGED <<messages, queued, filled, netVars, missed>>

SetStopSignal ==
  /\ OwnerAt("signal", "joining")
  /\ wpc # "prewait"
  /\ stopSignal' = TRUE
  /\ wpc' = Wake
  /\ UNCHANGED <<messages, queued, filled, netVars, missed>>

Join ==
  /\ OwnerAt("joining", "stopped")
  /\ wpc = "done"
  /\ UNCHANGED <<messages, queued, filled, netVars, wpc, stopSignal, missed>>

WorkerStep ==
  \/ Connect \/ OuterLoop \/ Check \/ Sleep \/ InnerLoop \/ GetMessage
  \/ SendMessage \/ Leave

Next ==
  \/ PutMessage \/ Notify
  \/ OnConnect \/ Lose \/ OnDisconnect
  \/ WorkerStep \/ SpuriousWakeup
  \/ EmptyQueue \/ StopDisconnects \/ SetStopSignal \/ Join

(* Threads run, a publish or a stop that began goes on, and the library     *)
(* calls back. A broker need not accept. The stop signal gets cv_m even if  *)
(* the worker takes it again and again.                                     *)
Fairness ==
  /\ WF_vars(WorkerStep)
  /\ WF_vars(Notify) /\ WF_vars(OnDisconnect)
  /\ WF_vars(StopDisconnects) /\ SF_vars(SetStopSignal) /\ WF_vars(Join)

Spec == Init /\ [][Next]_vars
FairSpec == Spec /\ Fairness
-----------------------------------------------------------------------------
TypeOK ==
  /\ messages \in Buffers
  /\ ppc \in {"idle", "notify"} /\ puts \in 0..MaxPublish
  /\ connected \in BOOLEAN /\ wanted \in BOOLEAN
  /\ net \in {"off", "connecting", "up", "lost", "closing"}
  /\ wpc \in {"connect", "top", "wait", "prewait", "asleep", "inner", "get", "put",
              "leave", "done", "crashed"}
  /\ item \in Values \cup {Empty}
  /\ stopSignal \in BOOLEAN
  /\ owner \in {"running", "disconnect", "signal", "joining", "stopped"}
  /\ queued \in Seq(Values) /\ sent \in Seq(Values)
  /\ losses \in 0..MaxLosses
  /\ filled \in BOOLEAN /\ missed \in BOOLEAN /\ quiet \in BOOLEAN

(* Over lost connections the broker gets every message at most once, and    *)
(* in the order of publish as long as the buffer was never full.            *)
SentInOrder ==
  \A i, j \in DOMAIN sent : i < j =>
    /\ sent[i] # sent[j]
    /\ ~filled => sent[i] < sent[j]

(* put dereferences what get returned: it is null only when stop emptied    *)
(* the buffer after the worker's test, or when the buffer had been full.    *)
NullOnlyByStop == wpc = "crashed" => owner # "running" \/ filled

(* A client whose stop found it connected stays disconnected; one that was  *)
(* still connecting may come up after its stop (stop, worker, on_connect).  *)
StoppedIsOffline == (owner = "stopped" /\ ~wanted) => ~connected \/ net = "lost"

(* A published message is taken while the client is connected, unless the   *)
(* client is stopped, its notification fell before the worker's sleep, or   *)
(* the connection came up without a notification.                           *)
QueuedIsTaken ==
  \A n \in Values :
    LET waits == \E i \in DOMAIN queued : queued[i] = n IN
    (waits /\ connected) ~> (~waits \/ ~connected \/ owner # "running" \/ missed \/ quiet \/ ~Alive)

(* stop returns: the stop signal is set with cv_m held.                     *)
StopReturns == owner = "disconnect" ~> (owner = "stopped" \/ ~Alive)
==============================================================================
