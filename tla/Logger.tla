------------------------------- MODULE Logger -------------------------------
(***************************************************************************)
(* logger::Logger of pi-utils: any thread logs through plog, the worker    *)
(* writes what is in the circular buffer to the file, and the owner        *)
(* releases the logger when every other thread has ended (PiMain::finish   *)
(* comes before logger::release). The worker waits with Logger::cv_m,      *)
(* which hides the Threaded::cv_m that set_stop_signal locks: no mutex     *)
(* orders the worker's predicate and a notification.                       *)
(***************************************************************************)
EXTENDS CircularBuffer

CONSTANTS
  Callers,      (* threads that log                                        *)
  Contents,     (* what logger.conf may hold                               *)
  MaxLogs       (* bound: number of messages put in a behaviour            *)

ASSUME LoggerAssumption ==
  /\ Moves
  /\ MaxLogs \in Nat /\ Values = 1..MaxLogs
  /\ Contents \subseteq {"absent", "levels", "other"}

VARIABLES
  buff,         (* m_buff                                                  *)
  pc,           (* caller to where it is in log and llog                   *)
  updateConf,   (* _update_conf                                            *)
  puts,         (* messages put so far; the next one is puts + 1           *)
  wpc,          (* where the worker is                                     *)
  logm,         (* the message the worker took                             *)
  flush, stopSignal,
  owner,        (* running, flushing, joining, released                    *)
  queued,       (* history: accepted and not taken yet, oldest first       *)
  written,      (* history: what was written to the file                   *)
  filled,       (* history: every slot was in use at some time             *)
  missed,       (* history: a notification fell before the worker's sleep  *)
  late          (* history: a message was put after the worker left its inner
                   loop and before it was at the wait again                *)

callerVars == <<pc, updateConf, puts>>
ownerVars == <<flush, stopSignal, owner>>
vars == <<buff, callerVars, wpc, logm, ownerVars, queued, written, filled,
          missed, late>>

(* An exception out of log ends the process.                                *)
Thrown == \E c \in Callers : pc[c] = "thrown"

CallerAt(c, step) == ~Thrown /\ pc[c] = step
OwnerAt(step) == ~Thrown /\ owner = step
At(step) == ~Thrown /\ wpc = step

Init ==
  /\ buff = NewBuffer
  /\ pc = [c \in Callers |-> "idle"]
  /\ updateConf = TRUE /\ puts = 0
  /\ wpc = "top" /\ logm = Empty
  /\ flush = FALSE /\ stopSignal = FALSE /\ owner = "running"
  /\ queued = <<>> /\ written = <<>>
  /\ filled = FALSE /\ missed = FALSE /\ late = FALSE
-----------------------------------------------------------------------------
(* Callers. log goes on when the logger is there and is not flushed; llog   *)
(* reads the configuration first when it was told to.                       *)
Log(c) ==
  /\ CallerAt(c, "idle") /\ OwnerAt("running")
  /\ pc' = [pc EXCEPT ![c] = IF updateConf THEN "configure" ELSE "filter"]
  /\ UNCHANGED <<buff, updateConf, puts, wpc, logm, ownerVars, queued, written,
                 filled, missed, late>>

(* update_configuration: std::stoi throws on a line that holds no level,    *)
(* out of the caller of log, and _update_conf stays set.                    *)
UpdateConfiguration(c) ==
  /\ CallerAt(c, "configure")
  /\ \E content \in Contents :
       /\ pc' = [pc EXCEPT ![c] = IF content = "other" THEN "thrown" ELSE "filter"]
       /\ updateConf' = (updateConf /\ content = "other")
  /\ UNCHANGED <<buff, puts, wpc, logm, ownerVars, queued, written, filled,
                 missed, late>>

(* The level of the message is higher than _level.                          *)
Ignore(c) ==
  /\ CallerAt(c, "filter")
  /\ pc' = [pc EXCEPT ![c] = "idle"]
  /\ UNCHANGED <<buff, updateConf, puts, wpc, logm, ownerVars, queued, written,
                 filled, missed, late>>

PutMessage(c) ==
  /\ CallerAt(c, "filter") /\ puts < MaxLogs
  /\ puts' = puts + 1
  /\ buff' = Put(buff, puts + 1)
  /\ queued' = IF IsFull(buff) THEN queued ELSE Append(queued, puts + 1)
  /\ filled' = (filled \/ buff.size + 1 >= MaxSize)
  /\ pc' = [pc EXCEPT ![c] = "notify"]
  /\ late' = (late \/ wpc \in {"flushed", "top"})
  /\ UNCHANGED <<updateConf, wpc, logm, ownerVars, written, missed>>

(* cv.notify_one() wakes the worker only if it sleeps.                      *)
Wake ==
  /\ wpc' = IF wpc = "asleep" THEN "wait" ELSE wpc
  /\ missed' = IF wpc = "asleep" THEN FALSE ELSE missed \/ wpc = "prewait"

Notify(c) ==
  /\ CallerAt(c, "notify")
  /\ pc' = [pc EXCEPT ![c] = "idle"]
  /\ Wake
  /\ UNCHANGED <<buff, updateConf, puts, logm, ownerVars, queued, written,
                 filled, late>>

(* set_update_conf, on SIGHUP.                                              *)
SetUpdateConf ==
  /\ OwnerAt("running") /\ ~updateConf
  /\ updateConf' = TRUE
  /\ UNCHANGED <<buff, pc, puts, wpc, logm, ownerVars, queued, written, filled,
                 missed, late>>
-----------------------------------------------------------------------------
(* worker                                                                   *)
WorkerAt(from, to) ==
  /\ At(from) /\ wpc' = to
  /\ UNCHANGED <<buff, callerVars, logm, ownerVars, queued, written, filled>>

(* while(!is_stop_signal())                                                 *)
OuterLoop ==
  WorkerAt("top", IF stopSignal THEN "done" ELSE "wait") /\ UNCHANGED <<missed, late>>

(* Faulty variant: the predicate only tests the stop signal.                *)
CheckStopOnly ==
  /\ WorkerAt("wait", IF stopSignal THEN "inner" ELSE "prewait")
  /\ UNCHANGED <<missed, late>>

(* The predicate of cv.wait ...                                             *)
Check ==
  /\ WorkerAt("wait", IF stopSignal \/ ~IsEmpty(buff) THEN "inner" ELSE "prewait")
  /\ UNCHANGED <<missed, late>>

(* ... after which it sleeps until it is notified, or wakes up by itself.   *)
Sleep == WorkerAt("prewait", "asleep") /\ UNCHANGED <<missed, late>>

SpuriousWakeup ==
  /\ WorkerAt("asleep", "wait")
  /\ missed' = FALSE
  /\ UNCHANGED late

(* Faulty variant: the flush flag does not hold the worker.                 *)
GoesOnUntilStop == ~stopSignal /\ ~IsEmpty(buff)

GoesOn == (~stopSignal \/ flush) /\ ~IsEmpty(buff)

TakeMessage ==
  /\ At("inner") /\ GoesOn
  /\ logm' = Got(buff)
  /\ buff' = Get(buff)
  /\ queued' = Tail(queued)
  /\ wpc' = "write"
  /\ UNCHANGED <<callerVars, ownerVars, written, filled, missed, late>>

WriteLog ==
  /\ At("write")
  /\ written' = Append(written, logm)
  /\ wpc' = "inner"
  /\ UNCHANGED <<buff, callerVars, logm, ownerVars, queued, filled, missed, late>>

LeaveInner ==
  /\ ~GoesOn
  /\ WorkerAt("inner", "flushed")
  /\ late' = FALSE
  /\ UNCHANGED missed

(* if(is_flush()) break                                                     *)
FlushTest == WorkerAt("flushed", IF flush THEN "done" ELSE "top") /\ UNCHANGED <<missed, late>>
-----------------------------------------------------------------------------
(* The owner. release: plog is null from here on; ~Logger sets the flush    *)
(* flag ...                                                                 *)
Release ==
  /\ OwnerAt("running") /\ \A c \in Callers : pc[c] = "idle"
  /\ owner' = "flushing"
  /\ flush' = TRUE
  /\ UNCHANGED <<buff, callerVars, wpc, logm, stopSignal, queued, written,
                 filled, missed, late>>

(* Faulty variant: the worker is not notified of the stop signal.           *)
SetStopSignalSilently ==
  /\ OwnerAt("flushing")
  /\ owner' = "joining"
  /\ stopSignal' = TRUE
  /\ UNCHANGED <<buff, callerVars, wpc, logm, flush, queued, written, filled, missed, late>>

(* ... and Threaded::stop the stop signal, with a mutex the worker does not *)
(* hold, notifies ...                                                       *)
SetStopSignal ==
  /\ OwnerAt("flushing")
  /\ owner' = "joining"
  /\ stopSignal' = TRUE
  /\ Wake
  /\ UNCHANGED <<buff, callerVars, logm, flush, queued, written, filled, late>>

(* ... and joins.                                                           *)
Join ==
  /\ OwnerAt("joining") /\ wpc = "done"
  /\ owner' = "released"
  /\ UNCHANGED <<buff, callerVars, wpc, logm, flush, stopSignal, queued,
                 written, filled, missed, late>>

WorkerStep ==
  OuterLoop \/ Check \/ Sleep \/ TakeMessage \/ WriteLog \/ LeaveInner \/ FlushTest

CallerStep(c) ==
  Log(c) \/ UpdateConfiguration(c) \/ Ignore(c) \/ PutMessage(c) \/ Notify(c)

Next ==
  \/ \E c \in Callers : CallerStep(c)
  \/ WorkerStep \/ SpuriousWakeup
  \/ SetUpdateConf \/ Release \/ SetStopSignal \/ Join

(* Threads run: a call of log returns, and a release that began goes on.    *)
Fairness ==
  /\ WF_vars(WorkerStep)
  /\ \A c \in Callers :
       WF_vars(UpdateConfiguration(c)) /\ WF_vars(Ignore(c)) /\ WF_vars(Notify(c))
  /\ WF_vars(SetStopSignal) /\ WF_vars(Join)

Spec == Init /\ [][Next]_vars
FairSpec == Spec /\ Fairness
-----------------------------------------------------------------------------
TypeOK ==
  /\ buff \in Buffers
  /\ pc \in [Callers -> {"idle", "configure", "filter", "notify", "thrown"}]
  /\ updateConf \in BOOLEAN /\ puts \in 0..MaxLogs
  /\ wpc \in {"top", "wait", "prewait", "asleep", "inner", "write", "flushed", "done"}
  /\ logm \in Values \cup {Empty}
  /\ flush \in BOOLEAN /\ stopSignal \in BOOLEAN
  /\ owner \in {"running", "flushing", "joining", "released"}
  /\ queued \in Seq(Values) /\ written \in Seq(Values \cup {Empty})
  /\ filled \in BOOLEAN /\ missed \in BOOLEAN /\ late \in BOOLEAN

InHand == IF wpc = "write" THEN <<logm>> ELSE <<>>

(* As long as the buffer was never full, the file holds the messages in the *)
(* order of the puts, and what is missing is on its way (llog, worker).     *)
WrittenInOrder ==
  ~filled => written \o InHand \o queued = [n \in 1..puts |-> n]

(* Whatever the buffer went through, no message is written twice.           *)
WrittenOnce ==
  \A i, j \in DOMAIN written : written[i] = written[j] => i = j \/ written[i] = Empty

(* ~Logger flushes: the worker does not end while messages are queued,      *)
(* except those put after it left its inner loop, if the release began      *)
(* before it was at the wait again.                                         *)
ReleaseKeepsMessages == wpc = "done" => queued = <<>> \/ late

(* A message that is queued is written, unless a notification fell before   *)
(* the worker's sleep, or it was put after the worker left its inner loop.  *)
WrittenUnlessMissed ==
  \A n \in Values :
    (\E i \in DOMAIN queued : queued[i] = n)
      ~> (~(\E i \in DOMAIN queued : queued[i] = n) \/ missed \/ late \/ Thrown)

(* release returns, unless the notification of the stop fell there.         *)
ReleaseReturns == owner = "flushing" ~> (owner = "released" \/ missed)
==============================================================================
