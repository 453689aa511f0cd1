---------------------------- MODULE DeviceWorker ----------------------------
(***************************************************************************)
(* dsp408.mqtt.DeviceWorker: one worker object, the three threads that use *)
(* it and the Device handle they share.                                    *)
(*                                                                         *)
(*   "worker"  run(): identity, initial state, then poll and sleep         *)
(*   "paho"    handle_command() for the messages MqttBridge routes here    *)
(*   "bridge"  start(), and at the end publish_availability(False), stop() *)
(*                                                                         *)
(* An exchange of Device is one step that finds its handle closed, or      *)
(* fails, or is answered (DeviceExchange has what happens inside).  A poll *)
(* is two exchanges: one whose errors reach run(), and one that stands for *)
(* the per-channel reads, whose errors _poll_once swallows.                *)
(***************************************************************************)
EXTENDS Naturals

CONSTANTS
  Handles,    \* identities for Device objects; reused once nobody holds one
  NoHandle,   \* no Device, and no holder of a lock
  Commands,   \* what MQTT may deliver: "valid" and "malformed" payloads
  Endings,    \* how the bridge lets go of the worker: "reap", "shutdown"
  Retained    \* what an earlier process may have left on the status topic

ASSUME WorkerAssumption ==
  /\ NoHandle \notin Handles /\ NoHandle \notin {"worker", "paho"}
  /\ Commands \subseteq {"valid", "malformed"}
  /\ Endings \subseteq {"reap", "shutdown"}
  /\ Retained \subseteq {"none", "online", "offline"}

VARIABLES
  answers,  \* the DSP is plugged in and answers
  hid,      \* state of each Device's HID handle
  dead,     \* handles opened before the last unplugging
  dev,      \* DeviceWorker._dev
  wlock,    \* thread that holds DeviceWorker._lock
  pc,       \* where each thread is
  goal,     \* what the thread's current exchange is for
  hold,     \* the Device the thread got from _ensure_device
  stop,     \* the _stop event
  flag,     \* _online_flag
  telling,  \* argument of the thread's publish_availability
  status,   \* retained payload of the availability topic
  routed    \* MqttBridge still routes messages to this worker

vars == <<answers, hid, dead, dev, wlock, pc, goal, hold, stop, flag, telling, status, routed>>
usb == <<answers, hid, dead, dev, wlock>>
avail == <<flag, telling, status>>

Threads == {"worker", "paho", "bridge"}
Users == {"worker", "paho"}
NoOne == NoHandle

-----------------------------------------------------------------------------
(* Where a thread goes next *)

Goto(t, where) == pc' = [pc EXCEPT ![t] = where]

\* The thread goes on with another purpose.
Continue(t, where, why) ==
  /\ pc' = [pc EXCEPT ![t] = where]
  /\ goal' = [goal EXCEPT ![t] = why]

Say(t, online) == telling' = [telling EXCEPT ![t] = online]
Mute(t) == telling' = telling

\* run() and handle_command after an exchange that was answered, or whose
\* error is swallowed: the identity, the initial state and the per-channel
\* reads are all wrapped in `except Exception'.
GoOn(t) ==
  CASE goal[t] = "identity" -> Continue(t, "ensure", "initial") /\ Mute(t)
    [] goal[t] = "initial"  -> Continue(t, "loop", "initial") /\ Mute(t)
    [] goal[t] = "poll"     -> Continue(t, "check", "refresh") /\ Mute(t)
    [] goal[t] = "refresh"  -> Continue(t, "tell", "refresh") /\ Say(t, TRUE)
    [] goal[t] = "command"  -> Continue(t, "idle", "none") /\ Mute(t)

Swallowed == {"identity", "initial", "refresh"}

\* After DeviceNotFound, ProtocolError or OSError.
Fail(t) == IF goal[t] \in Swallowed THEN GoOn(t)
           ELSE Goto(t, "close") /\ UNCHANGED goal /\ Mute(t)

\* After an exception neither run() nor handle_command catches.
Crash(t) == IF goal[t] \in Swallowed THEN GoOn(t)
            ELSE Goto(t, "crashed") /\ UNCHANGED goal /\ Mute(t)

\* The thread forgets its local `dev', unless the poll goes on with it.
Forget(t) == hold' = IF goal[t] = "poll" THEN hold ELSE [hold EXCEPT ![t] = NoHandle]
Drop(t) == hold' = [hold EXCEPT ![t] = NoHandle]

-----------------------------------------------------------------------------
Init ==
  /\ answers \in BOOLEAN
  /\ hid = [h \in Handles |-> "closed"]
  /\ dead = {}
  /\ dev = NoHandle
  /\ wlock = NoOne
  /\ pc = [t \in Threads |-> IF t = "worker" THEN "new" ELSE IF t = "paho" THEN "idle" ELSE "start"]
  /\ goal = [t \in Threads |-> "none"]
  /\ hold = [t \in Users |-> NoHandle]
  /\ stop = FALSE
  /\ flag = FALSE
  /\ telling = [t \in Threads |-> FALSE]
  /\ status \in Retained
  /\ routed = TRUE

-----------------------------------------------------------------------------
(* The handle: _ensure_device and _close_device *)

Unused(h) == h # dev /\ hid[h] = "closed" /\ \A t \in Users : hold[t] # h

\* `if self._dev is None' fails: the handle is there.
EnsureHave(t) ==
  /\ pc[t] = "ensure"
  /\ wlock = NoOne
  /\ dev # NoHandle
  /\ hold' = [hold EXCEPT ![t] = dev]
  /\ Goto(t, "check")
  /\ UNCHANGED <<usb, goal, stop, avail, routed>>

\* Device.open raises; nothing is open.
OpenFails(t) ==
  /\ pc[t] = "ensure"
  /\ wlock = NoOne
  /\ dev = NoHandle
  /\ ~answers
  /\ Fail(t)
  /\ UNCHANGED <<usb, hold, stop, flag, status, routed>>

\* Device.open returns; the lock is kept for the connect handshake.
OpenOK(t) ==
  /\ pc[t] = "ensure"
  /\ wlock = NoOne
  /\ dev = NoHandle
  /\ answers
  /\ \E h \in Handles :
       /\ Unused(h)
       /\ hid' = [hid EXCEPT ![h] = "opened"]
       /\ dead' = dead \ {h}
       /\ hold' = [hold EXCEPT ![t] = h]
  /\ wlock' = t
  /\ Goto(t, "connect")
  /\ UNCHANGED <<answers, dev, goal, stop, avail, routed>>

\* An exchange on handle h succeeds.
Alive(h) == answers /\ h \notin dead

\* dev.connect() succeeds and the Device becomes the worker's.
ConnectOK(t) ==
  /\ pc[t] = "connect"
  /\ Alive(hold[t])
  /\ hid' = [hid EXCEPT ![hold[t]] = "connected"]
  /\ dev' = hold[t]
  /\ wlock' = NoOne
  /\ Goto(t, "check")
  /\ UNCHANGED <<answers, dead, goal, hold, stop, avail, routed>>

\* Faulty variant: the handle of a failed connect is not closed.
ConnectLeaks(t) ==
  /\ pc[t] = "connect"
  /\ ~Alive(hold[t])
  /\ wlock' = NoOne
  /\ Drop(t)
  /\ Fail(t)
  /\ UNCHANGED <<answers, hid, dead, dev, stop, flag, status, routed>>

\* dev.connect() raises: "close the HID handle so the next ensure_device call
\* cleanly re-opens".
ConnectFails(t) ==
  /\ pc[t] = "connect"
  /\ ~Alive(hold[t])
  /\ hid' = [hid EXCEPT ![hold[t]] = "closed"]
  /\ wlock' = NoOne
  /\ Drop(t)
  /\ Fail(t)
  /\ UNCHANGED <<answers, dead, dev, stop, flag, status, routed>>

\* Where _close_device returns to.
AfterClose(t) ==
  CASE goal[t] = "final"   -> Goto(t, "ended") /\ Mute(t)
    [] goal[t] = "poll"    -> Goto(t, "tell") /\ Say(t, FALSE)
    [] goal[t] = "command" -> Goto(t, "idle") /\ Mute(t)


\* _close_device: Device.close() waits for the exchange in progress, if any.
CloseDevice(t) ==
  /\ pc[t] = "close"
  /\ wlock = NoOne
  /\ hid' = IF dev = NoHandle THEN hid ELSE [hid EXCEPT ![dev] = "closed"]
  /\ dev' = NoHandle
  /\ Drop(t)
  /\ AfterClose(t)
  /\ UNCHANGED <<answers, dead, wlock, goal, stop, flag, status, routed>>

-----------------------------------------------------------------------------
(* An exchange on the handle *)

\* `if self._t is None: raise ProtocolError' of _exchange.
CheckClosed(t) ==
  /\ pc[t] = "check"
  /\ hid[hold[t]] = "closed"
  /\ Fail(t)
  /\ Forget(t)
  /\ UNCHANGED <<usb, stop, flag, status, routed>>

CheckOpen(t) ==
  /\ pc[t] = "check"
  /\ hid[hold[t]] # "closed"
  /\ Goto(t, "io")
  /\ UNCHANGED <<usb, goal, hold, stop, avail, routed>>

\* The handle was closed while the thread waited for Device._lock:
\* `self._t.send_frame' raises AttributeError.
IoOnNone(t) ==
  /\ pc[t] = "io"
  /\ hid[hold[t]] = "closed"
  /\ Crash(t)
  /\ Forget(t)
  /\ UNCHANGED <<usb, stop, flag, status, routed>>

\* A timeout or an hid error.
IoFails(t) ==
  /\ pc[t] = "io"
  /\ hid[hold[t]] # "closed"
  /\ ~Alive(hold[t])
  /\ Fail(t)
  /\ Forget(t)
  /\ UNCHANGED <<usb, stop, flag, status, routed>>

IoOK(t) ==
  /\ pc[t] = "io"
  /\ hid[hold[t]] # "closed"
  /\ Alive(hold[t])
  /\ GoOn(t)
  /\ Forget(t)
  /\ UNCHANGED <<usb, stop, flag, status, routed>>

-----------------------------------------------------------------------------
(* Availability: publish_availability *)

AfterTell(t) ==
  IF t = "bridge" THEN Goto(t, "stop")
  ELSE Goto(t, IF goal[t] = "final" THEN "close" ELSE "sleep")

\* `if online == self._online_flag: return', else the flag is set ...
TellSame(t) ==
  /\ pc[t] = "tell"
  /\ telling[t] = flag
  /\ AfterTell(t)
  /\ UNCHANGED <<usb, goal, hold, stop, avail, routed>>


TellChange(t) ==
  /\ pc[t] = "tell"
  /\ telling[t] # flag
  /\ flag' = telling[t]
  /\ Goto(t, "send")
  /\ UNCHANGED <<usb, goal, hold, stop, telling, status, routed>>

\* Faulty variant: offline is told with the empty payload that retracts a
\* retained message.
PublishEmpty(t) ==
  /\ pc[t] = "send"
  /\ status' = IF telling[t] THEN "online" ELSE ""
  /\ AfterTell(t)
  /\ UNCHANGED <<usb, goal, hold, stop, flag, telling, routed>>

\* ... and only then is it published.
Publish(t) ==
  /\ pc[t] = "send"
  /\ status' = IF telling[t] THEN "online" ELSE "offline"
  /\ AfterTell(t)
  /\ UNCHANGED <<usb, goal, hold, stop, flag, telling, routed>>

-----------------------------------------------------------------------------
(* The three threads and the device *)

\* `while not self._stop.is_set()' of run().
Loop ==
  /\ pc["worker"] = "loop"
  /\ IF stop THEN Continue("worker", "tell", "final") /\ Say("worker", FALSE)
             ELSE Continue("worker", "ensure", "poll") /\ Mute("worker")
  /\ UNCHANGED <<usb, hold, stop, flag, status, routed>>

\* `self._stop.wait(...)' ends: poll_interval, backoff or stop().
Wake ==
  /\ pc["worker"] = "sleep"
  /\ Goto("worker", "loop")
  /\ UNCHANGED <<usb, goal, hold, stop, avail, routed>>

\* _on_message finds the worker; a malformed payload raises ValueError before
\* the Device is touched, and is handled like a failed exchange.
Command(c) ==
  /\ pc["paho"] = "idle"
  /\ routed
  /\ Continue("paho", IF c = "valid" THEN "ensure" ELSE "close", "command")
  /\ UNCHANGED <<usb, hold, stop, avail, routed>>

\* start().
Start ==
  /\ pc["bridge"] = "start"
  /\ pc' = [pc EXCEPT !["bridge"] = "watch", !["worker"] = "ensure"]
  /\ goal' = [goal EXCEPT !["worker"] = "identity"]
  /\ UNCHANGED <<usb, hold, stop, avail, routed>>

\* _hotplug_sync finds the device gone and has taken the worker out of the
\* table, or MqttBridge.stop() goes through the table.
End(e) ==
  /\ pc["bridge"] = "watch"
  /\ e = "reap" => ~answers
  /\ routed' = (routed /\ e # "reap")
  /\ Continue("bridge", "tell", e)
  /\ Say("bridge", FALSE)
  /\ UNCHANGED <<usb, hold, stop, flag, status>>

\* DeviceWorker.stop() sets the event ...
Stop ==
  /\ pc["bridge"] = "stop"
  /\ stop' = TRUE
  /\ Goto("bridge", "join")
  /\ UNCHANGED <<usb, goal, hold, avail, routed>>

\* ... and joins the thread, for 5 seconds at most.
Join ==
  /\ pc["bridge"] = "join"
  /\ Goto("bridge", "joined")
  /\ UNCHANGED <<usb, goal, hold, stop, avail, routed>>

\* MqttBridge.stop(): loop_stop() waits for the running callback.
Finish ==
  /\ pc["bridge"] = "joined"
  /\ goal["bridge"] = "shutdown" => pc["paho"] \in {"idle", "crashed"}
  /\ routed' = FALSE
  /\ Goto("bridge", "done")
  /\ UNCHANGED <<usb, goal, hold, stop, avail>>

\* The link fails or the cable is pulled; pulling it kills the open handles.
Vanish ==
  /\ answers
  /\ answers' = FALSE
  /\ \/ dead' = {h \in Handles : hid[h] # "closed"}
     \/ dead' = dead
  /\ UNCHANGED <<hid, dev, wlock, pc, goal, hold, stop, avail, routed>>

Return ==
  /\ ~answers
  /\ answers' = TRUE
  /\ UNCHANGED <<hid, dead, dev, wlock, pc, goal, hold, stop, avail, routed>>

Step(t) ==
  \/ EnsureHave(t) \/ OpenFails(t) \/ OpenOK(t) \/ ConnectOK(t) \/ ConnectFails(t)
  \/ CheckClosed(t) \/ CheckOpen(t) \/ IoOnNone(t) \/ IoFails(t) \/ IoOK(t)
  \/ CloseDevice(t)

WorkerStep == Step("worker") \/ TellSame("worker") \/ TellChange("worker")
                \/ Publish("worker") \/ Loop \/ Wake
BridgeStep == Start \/ TellSame("bridge") \/ TellChange("bridge")
                \/ Publish("bridge") \/ Stop \/ Join \/ Finish

Next ==
  \/ WorkerStep
  \/ Step("paho")
  \/ \E c \in Commands : Command(c)
  \/ BridgeStep
  \/ \E e \in Endings : End(e)
  \/ Vanish
  \/ Return

Spec == Init /\ [][Next]_vars

\* The operating system runs every thread; sleeps and joins end.  Nothing is
\* assumed of the device, of the commands or of the end of the worker.
FairSpec == Spec /\ WF_vars(WorkerStep) /\ WF_vars(Step("paho")) /\ WF_vars(BridgeStep)

-----------------------------------------------------------------------------
(* Properties *)

\* Every variable stays in its domain (DeviceWorker's fields, the locals).
TypeOK ==
  /\ answers \in BOOLEAN
  /\ hid \in [Handles -> {"closed", "opened", "connected"}]
  /\ dead \in SUBSET Handles
  /\ dev \in Handles \cup {NoHandle}
  /\ wlock \in Users \cup {NoOne}
  /\ pc \in [Threads -> {"new", "loop", "ensure", "connect", "check", "io", "close", "tell",
                         "send", "sleep", "ended", "crashed", "idle",
                         "start", "watch", "stop", "join", "joined", "done"}]
  /\ goal \in [Threads -> {"none", "identity", "initial", "poll", "refresh", "final",
                           "command", "reap", "shutdown"}]
  /\ hold \in [Users -> Handles \cup {NoHandle}]
  /\ stop \in BOOLEAN
  /\ flag \in BOOLEAN
  /\ telling \in [Threads -> BOOLEAN]
  /\ status \in {"none", "online", "offline"}
  /\ routed \in BOOLEAN

\* "The handle is OPENED ONCE and held" (mqtt.py:183): whatever fails, and in
\* whatever order the threads run, an open HID handle is the worker's own or
\* the one a thread is connecting; none is forgotten open and there are never
\* two.  The worker's own has connected: _ensure_device never hands out "a
\* zombie Device whose Transport is live but whose connect handshake never
\* completed" (mqtt.py:203-206).
HandleAccounted ==
  \A h \in Handles : hid[h] # "closed" =>
    \/ h = dev /\ hid[h] = "connected"
    \/ dev = NoHandle /\ wlock \in Users /\ pc[wlock] = "connect" /\ hold[wlock] = h

\* The worker is on its own no more: the bridge tells its status too, or its
\* thread has died (PollsUntilStopped).
Ending == goal["bridge"] \in {"reap", "shutdown"}
Lost == Ending \/ pc["worker"] = "crashed"



\* run() "Polls the device until stopped": no other thread's use of the
\* shared handle ends the worker's thread.
PollsUntilStopped == pc["worker"] # "crashed"

\* A shut-down bridge leaves `offline' on the availability topic.
ShutdownIsOffline ==
  pc["bridge"] = "done" /\ goal["bridge"] = "shutdown" => status # "online"

\* A shut-down bridge, whose worker's thread was joined, has released the USB
\* interface.
ShutdownReleasesUsb ==
  pc["bridge"] = "done" /\ goal["bridge"] = "shutdown" /\ pc["worker"] = "ended"
    => \A h \in Handles : hid[h] = "closed"
-----------------------------------------------------------------------------
(* The inductive invariant of the proofs *)

\* DeviceWorker._lock is held across the connect handshake and nowhere else
\* across a step; the handle being connected is open and not the worker's yet.
LockMeaning ==
  /\ \A t \in Users : pc[t] = "connect" <=> wlock = t
  /\ wlock # NoOne => dev = NoHandle /\ hold[wlock] \in Handles /\ hid[hold[wlock]] = "opened"

\* The worker's own handle is open.
DevIsOpen == dev # NoHandle => hid[dev] = "connected"

\* What a thread is about, by where it is.
GoalShape ==
  \A t \in Users :
    /\ pc[t] \in {"ensure", "connect", "check", "io"} =>
         goal[t] \in {"identity", "initial", "poll", "refresh", "command"}
    /\ pc[t] = "close" => goal[t] \in {"final", "poll", "command"}

\* The worker's thread does nothing before start().
StartedOnce == pc["bridge"] = "start" => pc["worker"] = "new"

\* Inductive: implies HandleAccounted.
WorkerInv == TypeOK /\ HandleAccounted /\ LockMeaning /\ DevIsOpen /\ GoalShape /\ StartedOnce

\* As long as the worker is on its own, the status topic and _online_flag agree,
\* but for the moment between the two assignments of publish_availability.
StatusFollowsFlag ==
  ~Ending => IF pc["worker"] = "send" THEN flag = telling["worker"] ELSE flag = (status = "online")

\* Only an end makes the bridge speak.
BridgeShape == pc["bridge"] \in {"start", "watch"} \/ Ending
=============================================================================
