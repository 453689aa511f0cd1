----------------------------- MODULE MqttBridge -----------------------------
(***************************************************************************)
(* dsp408.mqtt.MqttBridge: the table of workers, the hot-plug loop, the    *)
(* connection to the broker and stop().  Three threads meet here:          *)
(*                                                                         *)
(*   main  run(), _hotplug_sync()                                          *)
(*   paho  _on_connect(), from loop_start() to loop_stop()                 *)
(*   stop  stop(), called by whoever ends the bridge                       *)
(*                                                                         *)
(* A worker remembers the slug and the path of the DSP it was made for.    *)
(* Here it is a thread that runs until told to stop; DeviceWorker has the  *)
(* rest.                                                                   *)
(***************************************************************************)
EXTENDS Discovery

CONSTANTS
  Sanitized, \* sanitize_id: a function from display ids to slugs
  Selector,  \* the selector of the command line: NoSelector or a name
  Boot,      \* buses the bridge may start with
  MaxPlugs,  \* bound: DSPs that are plugged in after the start
  Stops,     \* how the bridge may be ended: "interrupt", a Ctrl-C; "signal",
             \* cmd_mqtt's handler; "thread", another thread of the program
  Faults,    \* "drop" the broker's connection, "slowjoin" a worker that
             \* outlives join(timeout=5.0), "refused" a first connection,
             \* "swap" a slug that moves to another path between two syncs
  NoWorker

ASSUME BridgeAssumption ==
  /\ DOMAIN Sanitized = DisplayIds
  /\ Boot \subseteq Buses /\ MaxPlugs \in Nat
  /\ Stops \subseteq {"interrupt", "signal", "thread"}
  /\ Faults \subseteq {"drop", "slowjoin", "refused", "swap"}

VARIABLES
  bus,      \* the unit at each path
  plugs,    \* DSPs plugged in so far
  table,    \* _workers: at most one worker for a slug
  made,     \* how often workers were made so far
  alive,    \* workers whose thread runs
  told,     \* workers whose _stop event is set, while their thread may run
  locked,   \* _workers_lock is held across a step of main
  pc,       \* where main is
  seen,     \* devices the last _select_devices returned
  reap,     \* workers popped from the table that main has still to stop
  add,      \* slugs main has still to subscribe and start
  at,       \* the worker main is at
  link,     \* the connection to the broker
  subs,     \* slugs whose command topics the broker has subscriptions for
  bstatus,  \* retained payload of the bridge's status topic
  ppc,      \* where paho's thread is
  resub,    \* workers _on_connect has still to subscribe
  stopping, \* MqttBridge._stop
  spc,      \* where stop() is
  caller,   \* who called it
  pend,     \* workers stop() has still to stop
  joined,   \* the one it waits for
  known     \* history: `made' when stop() took its snapshot

vars == <<bus, plugs, table, made, alive, told, locked, pc, seen, reap, add, at, link, subs,
          bstatus, ppc, resub, stopping, spc, caller, pend, joined, known>>
usb == <<bus, plugs>>
workers == <<table, made, alive, told>>
diff == <<locked, seen, reap, add, at>>
broker == <<link, subs, bstatus>>
paho == <<ppc, resub>>
ending == <<stopping, spc, caller, pend, joined, known>>

Slugs == {Sanitized[id] : id \in DisplayIds}
Workers == [slug : Slugs, path : Ports, gen : Nat]

SlugsOf(S) == {d.slug : d \in S}

\* Of the devices with the same slug the first, or the last, of the enumeration.
Foremost(devs) == {d \in devs : \A e \in devs : e.slug = d.slug => d.path <= e.path}
Hindmost(devs) == {d \in devs : \A e \in devs : e.slug = d.slug => e.path <= d.path}

\* _select_devices, each device with its slug.
Selected(b) ==
  {[slug |-> Sanitized[DisplayId(b, p)], path |-> p] :
     p \in IF Selector = NoSelector THEN Plugged(b) ELSE Resolved(b, Selector)}

\* A signal handler runs on main's stack: main waits until it returns.
Suspended == caller = "signal" /\ spc \notin {"idle", "done"}
MainAt(where) == pc = where /\ ~Suspended

-----------------------------------------------------------------------------
Init ==
  /\ bus \in Boot /\ plugs = 0
  /\ table = {} /\ made = 0 /\ alive = {} /\ told = {}
  /\ locked = FALSE
  /\ pc = "spawn"
  /\ seen = {} /\ reap = {} /\ add = {} /\ at = NoWorker
  /\ link = "down" /\ subs = {} /\ bstatus = "none"
  /\ ppc = "off" /\ resub = {}
  /\ stopping = FALSE /\ spc = "idle" /\ caller = "nobody" /\ pend = {} /\ joined = NoWorker
  /\ known = 0

\* DeviceWorker(...) for each of these devices.
Make(devs) == {[slug |-> d.slug, path |-> d.path, gen |-> made + 1] : d \in devs}

\* _initial_spawn: a worker object for each DSP found, not started yet; of two
\* DSPs with the same slug the first gets it.
InitialSpawn ==
  /\ MainAt("spawn")
  /\ table' = Make(Foremost(Selected(bus)))
  /\ made' = made + 1
  /\ pc' = "connect"
  /\ UNCHANGED <<usb, alive, told, diff, broker, paho, ending>>

\* will_set, connect, loop_start, and the snapshot of the workers to start.
Connect ==
  /\ MainAt("connect")
  /\ link' = "wait"
  /\ ppc' = "idle"
  /\ add' = SlugsOf(table)
  /\ pc' = "startall"
  /\ UNCHANGED <<usb, workers, locked, seen, reap, at, subs, bstatus, resub, ending>>

\* connect() raises before the `try' of run().
ConnectRefused ==
  /\ "refused" \in Faults
  /\ MainAt("connect")
  /\ pc' = "raised"
  /\ UNCHANGED <<usb, workers, diff, broker, paho, ending>>

\* DeviceWorker.start() of the snapshot's workers: the thread begins; one told
\* already ends at once.
StartNext ==
  /\ MainAt("startall")
  /\ \E w \in table : /\ w.slug \in add
                      /\ alive' = alive \cup {w}
                      /\ add' = add \ {w.slug}
  /\ UNCHANGED <<usb, table, made, told, pc, locked, seen, reap, at, broker, paho, ending>>

AllStarted ==
  /\ MainAt("startall")
  /\ add = {}
  /\ pc' = "check"
  /\ UNCHANGED <<usb, workers, diff, broker, paho, ending>>

-----------------------------------------------------------------------------
(* The hot-plug loop *)

\* `while not self._stop.is_set()'.
Check ==
  /\ MainAt("check")
  /\ pc' = IF stopping THEN "finally" ELSE "sleep"
  /\ UNCHANGED <<usb, workers, diff, broker, paho, ending>>

\* `_stop.wait(1.0)' returns, set or not, and _hotplug_sync enumerates.
Select ==
  /\ MainAt("sleep")
  /\ seen' = Selected(bus)
  /\ pc' = "diff"
  /\ UNCHANGED <<usb, workers, locked, reap, add, at, broker, paho, ending>>

EnterDiff ==
  /\ MainAt("diff")
  /\ ~locked
  /\ locked' = TRUE
  /\ pc' = "update"
  /\ UNCHANGED <<usb, workers, seen, reap, add, at, broker, paho, ending>>

\* Faulty variants: nothing disappears; a slug in the table is made again.
NothingGone == {}
AllAppeared == seen

\* The workers whose slug is not enumerated, and the devices whose slug has no
\* worker: the table knows no paths.
Gone == {w \in table : w.slug \notin SlugsOf(seen)}
Appeared == {d \in seen : d.slug \notin SlugsOf(table)}

\* The table is brought up to date under the lock; of two new devices with the
\* same slug the later one's worker stays.
Update ==
  /\ MainAt("update")
  /\ reap' = Gone
  /\ add' = SlugsOf(Appeared)
  /\ table' = (table \ Gone) \cup Make(Hindmost(Appeared))
  /\ made' = IF Appeared = {} THEN made ELSE made + 1
  /\ seen' = {}
  /\ locked' = FALSE
  /\ pc' = "reap"
  /\ UNCHANGED <<usb, alive, told, at, broker, paho, ending>>

\* Faulty variant: a worker that was popped is not stopped.
PopOnly ==
  /\ MainAt("reap")
  /\ \E w \in reap : reap' = reap \ {w}
  /\ UNCHANGED <<usb, workers, pc, locked, seen, add, at, broker, paho, ending>>

\* w.stop() for the workers that were popped: the event is set ...
Reap ==
  /\ MainAt("reap")
  /\ \E w \in reap : told' = told \cup {w} /\ at' = w
  /\ pc' = "join"
  /\ UNCHANGED <<usb, table, made, alive, locked, seen, reap, add, broker, paho, ending>>

\* join(timeout=5.0) returns: the thread has ended, never ran, or is slow.
Joined(w) == w \notin alive \/ "slowjoin" \in Faults

\* ... and the thread joined.
ReapJoin ==
  /\ MainAt("join")
  /\ Joined(at)
  /\ reap' = reap \ {at} /\ at' = NoWorker
  /\ pc' = "reap"
  /\ UNCHANGED <<usb, workers, locked, seen, add, broker, paho, ending>>

AllReaped ==
  /\ MainAt("reap")
  /\ reap = {}
  /\ pc' = "add"
  /\ UNCHANGED <<usb, workers, diff, broker, paho, ending>>

\* client.subscribe: kept by the broker if the connection is up; one that is
\* still being set up may drop it.
Subscribe(s) ==
  \/ link \in {"wait", "up"} /\ subs' = subs \cup {s}
  \/ link \in {"wait", "down"} /\ subs' = subs

\* A slug that appeared: its worker is looked up and its topics subscribed ...
Add ==
  /\ MainAt("add")
  /\ \E w \in table : w.slug \in add /\ at' = w /\ Subscribe(w.slug)
  /\ pc' = "start"
  /\ UNCHANGED <<usb, workers, locked, seen, reap, add, link, bstatus, paho, ending>>

\* Faulty variant: the worker's thread is left to the next connection.
SubscribeOnly ==
  /\ MainAt("start")
  /\ add' = add \ {at.slug} /\ at' = NoWorker
  /\ pc' = "add"
  /\ UNCHANGED <<usb, workers, locked, seen, reap, broker, paho, ending>>

\* ... and its thread started.
StartAdded ==
  /\ MainAt("start")
  /\ alive' = alive \cup {at}
  /\ add' = add \ {at.slug} /\ at' = NoWorker
  /\ pc' = "add"
  /\ UNCHANGED <<usb, table, made, told, locked, seen, reap, broker, paho, ending>>

AllAdded ==
  /\ MainAt("add")
  /\ add = {}
  /\ pc' = "check"
  /\ UNCHANGED <<usb, workers, diff, broker, paho, ending>>

-----------------------------------------------------------------------------
(* paho's thread and the broker *)

\* The broker accepts the connection; paho calls _on_connect.
Accepted ==
  /\ link = "wait" /\ ppc = "idle"
  /\ link' = "up"
  /\ ppc' = "announce"
  /\ UNCHANGED <<usb, workers, pc, diff, subs, bstatus, resub, ending>>

\* _on_connect publishes "online" ...
Announce ==
  /\ ppc = "announce"
  /\ bstatus' = IF link = "up" THEN "online" ELSE bstatus
  /\ ppc' = "snapshot"
  /\ UNCHANGED <<usb, workers, pc, diff, link, subs, resub, ending>>

\* Faulty variant: the workers at start-up only are subscribed again.
SnapshotFirst ==
  /\ ppc = "snapshot"
  /\ ~locked
  /\ resub' = {w \in table : w.gen = 1}
  /\ ppc' = "resub"
  /\ UNCHANGED <<usb, workers, pc, diff, broker, ending>>

\* ... takes a snapshot of the table ...
Snapshot ==
  /\ ppc = "snapshot"
  /\ ~locked
  /\ resub' = table
  /\ ppc' = "resub"
  /\ UNCHANGED <<usb, workers, pc, diff, broker, ending>>

\* ... and subscribes every worker's topics again.
Resubscribe ==
  /\ ppc = "resub"
  /\ \E w \in resub : resub' = resub \ {w} /\ Subscribe(w.slug)
  /\ UNCHANGED <<usb, workers, pc, diff, link, bstatus, ppc, ending>>

Connected ==
  /\ ppc = "resub"
  /\ resub = {}
  /\ ppc' = "idle"
  /\ UNCHANGED <<usb, workers, pc, diff, broker, resub, ending>>

\* The connection breaks: the session's subscriptions go and the broker
\* publishes the will.
Drop ==
  /\ "drop" \in Faults
  /\ link \in {"wait", "up"}
  /\ link' = "down" /\ subs' = {} /\ bstatus' = "offline"
  /\ UNCHANGED <<usb, workers, pc, diff, paho, ending>>

\* paho's loop connects again.
Reconnect ==
  /\ link = "down" /\ ppc = "idle"
  /\ spc # "loop"
  /\ link' = "wait"
  /\ UNCHANGED <<usb, workers, pc, diff, subs, bstatus, paho, ending>>

-----------------------------------------------------------------------------
(* The end *)

\* stop() is called by cmd_mqtt's signal handler, on top of whatever main was
\* doing, or by another thread.
StopCall(how) ==
  /\ spc = "idle"
  /\ pc \notin {"raised", "exited"}
  /\ caller' = how
  /\ stopping' = TRUE
  /\ spc' = "offline"
  /\ UNCHANGED <<usb, workers, pc, diff, broker, paho, pend, joined, known>>

\* What a Ctrl-C leaves: in the middle of the diff some workers are popped, and
\* the rest of the round is forgotten.
Unwind ==
  /\ \E P \in SUBSET (IF pc = "update" THEN Gone ELSE {}) :
       table' = table \ P /\ reap' = reap \cup P
  /\ seen' = {} /\ add' = {} /\ at' = NoWorker
  /\ pc' = "finally"

\* Faulty variant: the lock is not taken with `with'.
InterruptLocked ==
  /\ spc = "idle"
  /\ pc \notin {"raised", "exited"}
  /\ Unwind
  /\ caller' = "interrupt" /\ stopping' = TRUE /\ spc' = "offline"
  /\ UNCHANGED <<usb, made, alive, told, locked, broker, paho, pend, joined, known>>

\* Ctrl-C, wherever main is: KeyboardInterrupt leaves the step and gives the
\* lock back, and stop() is called by the `finally' of run(), before its `try'
\* by cmd_mqtt.  A round it cuts tells nobody any more what it popped.
Interrupt ==
  /\ spc = "idle"
  /\ pc \notin {"raised", "exited"}
  /\ Unwind
  /\ locked' = FALSE
  /\ caller' = "interrupt" /\ stopping' = TRUE /\ spc' = "offline"
  /\ UNCHANGED <<usb, made, alive, told, broker, paho, pend, joined, known>>

\* "offline" is published; without a connection the will has said it.
StopOffline ==
  /\ spc = "offline"
  /\ \/ link \in {"wait", "up"} /\ bstatus' = "offline"
     \/ link \in {"wait", "down"} /\ bstatus' = bstatus
  /\ spc' = "snapshot"
  /\ UNCHANGED <<usb, workers, pc, diff, link, subs, paho, stopping, caller, pend, joined, known>>

\* Faulty variant: only the workers made at start-up are stopped.
StopFirst ==
  /\ spc = "snapshot"
  /\ ~locked
  /\ pend' = {w \in table : w.gen = 1} /\ known' = made
  /\ spc' = "workers"
  /\ UNCHANGED <<usb, workers, pc, diff, broker, paho, stopping, caller, joined>>

StopSnapshot ==
  /\ spc = "snapshot"
  /\ ~locked
  /\ pend' = table /\ known' = made
  /\ spc' = "workers"
  /\ UNCHANGED <<usb, workers, pc, diff, broker, paho, stopping, caller, joined>>

StopWorker ==
  /\ spc = "workers"
  /\ \E w \in pend : told' = told \cup {w} /\ joined' = w
  /\ spc' = "join"
  /\ UNCHANGED <<usb, table, made, alive, pc, diff, broker, paho, stopping, caller, pend, known>>

StopJoin ==
  /\ spc = "join"
  /\ Joined(joined)
  /\ pend' = pend \ {joined} /\ joined' = NoWorker
  /\ spc' = "workers"
  /\ UNCHANGED <<usb, workers, pc, diff, broker, paho, stopping, caller, known>>

\* loop_stop() tells paho's thread, which connects no more ...
LoopStop ==
  /\ spc = "workers"
  /\ pend = {}
  /\ spc' = "loop"
  /\ UNCHANGED <<usb, workers, pc, diff, broker, paho, stopping, caller, pend, joined, known>>

\* ... and joins it, once its callback has returned.
LoopStopped ==
  /\ spc = "loop"
  /\ ppc \in {"off", "idle"}
  /\ ppc' = "off"
  /\ spc' = "disconnect"
  /\ UNCHANGED <<usb, workers, pc, diff, broker, resub, stopping, caller, pend, joined, known>>

\* disconnect() ends the session without the will.
Disconnect ==
  /\ spc = "disconnect"
  /\ link' = "down" /\ subs' = {}
  /\ spc' = "done"
  /\ UNCHANGED <<usb, workers, pc, diff, bstatus, paho, stopping, caller, pend, joined, known>>

\* run()'s own stop() in `finally': the work is done, or another caller's.
Exit ==
  /\ MainAt("finally")
  /\ caller = "interrupt" => spc = "done"
  /\ pc' = "exited"
  /\ UNCHANGED <<usb, workers, diff, broker, paho, ending>>

-----------------------------------------------------------------------------
(* The workers' threads and the USB bus *)

\* A worker that was told to stop ends; until then it runs.
ThreadEnds(w) ==
  /\ w \in told
  /\ alive' = alive \ {w} /\ told' = told \ {w}
  /\ UNCHANGED <<usb, table, made, pc, diff, broker, paho, ending>>

\* No slug that has a worker, or was just enumerated, is on another path.
NoSwap(b) ==
  \A d \in Selected(b) : \A w \in table \cup seen : w.slug = d.slug => w.path = d.path

Rewire(b) ==
  /\ "swap" \in Faults \/ NoSwap(b)
  /\ bus' = b
  /\ UNCHANGED <<workers, pc, diff, broker, paho, ending>>

Unplug(p) ==
  /\ bus[p] # NoUnit
  /\ Rewire([bus EXCEPT ![p] = NoUnit])
  /\ UNCHANGED plugs

\* A unit comes, to whichever path is free.
Plug(u, p) ==
  /\ plugs < MaxPlugs
  /\ bus[p] = NoUnit /\ \A q \in Ports : bus[q] # u
  /\ Rewire([bus EXCEPT ![p] = u])
  /\ plugs' = plugs + 1

Main == InitialSpawn \/ Connect \/ StartNext \/ AllStarted \/ Check \/ Select \/ EnterDiff
          \/ Update \/ Reap \/ ReapJoin \/ AllReaped \/ Add \/ StartAdded \/ AllAdded \/ Exit
Paho == Accepted \/ Announce \/ Snapshot \/ Resubscribe \/ Connected \/ Reconnect
Stop == StopOffline \/ StopSnapshot \/ StopWorker \/ StopJoin \/ LoopStop \/ LoopStopped \/ Disconnect

Next ==
  \/ Main \/ ConnectRefused
  \/ Paho \/ Drop
  \/ Stop
  \/ "interrupt" \in Stops /\ Interrupt
  \/ \E how \in Stops \ {"interrupt"} : StopCall(how)
  \/ \E w \in alive : ThreadEnds(w)
  \/ \E p \in Ports : Unplug(p) \/ \E u \in Units : Plug(u, p)

Spec == Init /\ [][Next]_vars

\* The operating system runs every thread, and a worker that was told to stop
\* reaches the end of its loop.  The broker and the bus promise nothing.
FairSpec ==
  /\ Spec /\ WF_vars(Main) /\ WF_vars(Paho) /\ WF_vars(Stop)
  /\ WF_vars(\E w \in alive : ThreadEnds(w))

-----------------------------------------------------------------------------
(* Properties *)

\* Every variable stays in its domain; the table is a dictionary.
TypeOK ==
  /\ bus \in [Ports -> Units \cup {NoUnit}] /\ plugs \in 0..MaxPlugs
  /\ table \subseteq Workers /\ alive \subseteq Workers /\ told \subseteq Workers
  /\ \A v, w \in table : v.slug = w.slug => v = w
  /\ made \in Nat
  /\ locked \in BOOLEAN
  /\ pc \in {"spawn", "connect", "startall", "check", "sleep", "diff", "update", "reap",
             "join", "add", "start", "finally", "raised", "exited"}
  /\ seen \subseteq [slug : Slugs, path : Ports]
  /\ add \subseteq Slugs /\ at \in Workers \cup {NoWorker}
  /\ reap \subseteq Workers /\ resub \subseteq Workers /\ pend \subseteq Workers
  /\ joined \in Workers \cup {NoWorker}
  /\ link \in {"down", "wait", "up"}
  /\ subs \subseteq Slugs
  /\ bstatus \in {"none", "online", "offline"}
  /\ ppc \in {"off", "idle", "announce", "snapshot", "resub"}
  /\ stopping \in BOOLEAN
  /\ spc \in {"idle", "offline", "snapshot", "workers", "join", "loop", "disconnect", "done"}
  /\ caller \in Stops \cup {"nobody"}
  /\ known \in Nat

\* "Re-subscribe for every worker (restore after reconnect)" (mqtt.py:1362)
\* and the hot-plug loop between them: with neither at work, the broker has
\* the command topics of every worker of the table.
TableIsSubscribed ==
  pc = "sleep" /\ ppc = "idle" /\ link = "up" /\ ~stopping => SlugsOf(table) \subseteq subs

\* "manages one DeviceWorker per connected DSP-408" (mqtt.py:1270): a slug
\* has at most one thread that was not told to stop, and main still has it in
\* the table or among those it is about to tell.
Active == alive \ told
OneActiveWorker ==
  /\ \A v, w \in Active : v.slug = w.slug => v = w
  /\ Active \subseteq table \cup reap

Running == ~stopping /\ pc # "raised"

\* "Open by stable path so we survive a re-enumeration loop" (mqtt.py:198) and
\* _hotplug_sync: a DSP that stays where it is ends up with a running worker
\* that opens its path.
PluggedIsServed ==
  \A p \in Ports : <>[](bus[p] # NoUnit /\ Running) => <>[](\E w \in Active : w.path = p)

\* _hotplug_sync: a path that stays empty ends up without a thread.
UnpluggedIsReaped ==
  \A p \in Ports : <>[](bus[p] = NoUnit /\ Running) => <>[](\A w \in alive : w.path # p)

\* The ids of the DSPs on the bus select them, whatever is plugged in or out.
IdsSelectTheirs == IdsIdentify(bus)

\* stop(): when run() has returned, every thread has been told to stop.
StopTellsAll == pc = "exited" /\ spc = "done" => Active = {}

\* stop(), and whoever else was at work on the table: when run() has returned,
\* the only threads nobody has told to stop are those that a round popped which
\* Ctrl-C cut, and those main made after the snapshot of a stop() that was
\* called over its head.
NoWorkerOutlivesStop ==
  pc = "exited" /\ spc = "done" =>
    \A w \in Active : IF caller = "interrupt" THEN w \in reap ELSE w.gen > known

\* "Publish bridge-level offline BEFORE disconnecting so HA gets the clean
\* signal" (mqtt.py:1485): a bridge that stopped does not leave "online".
StoppedIsOffline == spc = "done" => bstatus # "online"

\* stop() comes to its end whoever calls it and whenever ...
StopAlwaysReturns == stopping ~> spc = "done"

\* ... unless it is the signal handler's and waits for the lock of the code the
\* signal interrupted.
StopReturns == stopping ~> spc = "done" \/ (Suspended /\ locked)

-----------------------------------------------------------------------------
(* An inductive invariant *)

\* What each thread holds at each of its steps.
ThreadShape ==
  /\ pc = "spawn" => table = {}
  /\ pc \in {"spawn", "connect"} => alive = {}
  /\ pc \in {"spawn", "connect"} => ppc = "off" /\ link = "down"
  /\ reap = {} \/ pc \in {"reap", "join"} \/ caller = "interrupt"
  /\ caller = "interrupt" => pc \in {"finally", "exited"}
  /\ spc = "idle" => caller = "nobody"
  /\ pc = "join" => at \in reap
  /\ pc = "start" => at \in table
  /\ resub = {} \/ ppc = "resub"
  /\ spc = "join" => joined \in Workers

\* A slug that went away has no new worker before its old one was told.
OneForASlug == \A v, w \in table \cup reap : v.slug = w.slug => v = w

ActiveAreKnown ==
  /\ Active \subseteq table \cup reap
  /\ pc = "join" => at \notin Active

\* Slugs main has in the table and not yet at the broker.
ToSubscribe ==
  {s \in add : pc \in {"reap", "join", "add"} \/ (pc = "start" /\ s # at.slug)}

\* While a connection lasts and no Ctrl-C has come, a slug of the table is
\* subscribed or somebody is about to.
SubscribedOrDue ==
  link = "up" /\ ppc \in {"resub", "idle"} /\ caller # "interrupt" =>
    SlugsOf(table) \subseteq subs \cup SlugsOf(resub) \cup ToSubscribe

BridgeInv == TypeOK /\ ThreadShape /\ OneForASlug /\ ActiveAreKnown /\ SubscribedOrDue

\* Workers main has still to start; they have no thread yet.
ToStart == {w \in table : w.slug \in add \/ pc = "connect"}
NotYetStarted ==
  /\ ToStart \cap alive = {}
  /\ pc = "start" => at \in ToStart
  /\ add = {} \/ pc \in {"startall", "reap", "join", "add", "start"}

\* Workers are counted as they are made.
Counted ==
  /\ \A w \in table \cup alive \cup pend : w.gen <= made
  /\ known <= made

\* What stop() still owes after its snapshot: a thread that was not told, or is
\* not started yet, is on its list, on main's, or was made later.
StopOwes ==
  spc \in {"workers", "join", "loop", "disconnect", "done"} =>
    /\ \A w \in Active : w \in pend \cup reap \/ w.gen > known
    /\ \A w \in ToStart : w \in pend \cup told \/ w.gen > known
    /\ spc = "join" => /\ joined \in pend \ Active
                       /\ joined \in ToStart => joined \in told
    /\ spc \in {"loop", "disconnect", "done"} => pend = {}
    /\ caller = "interrupt" => known = made

EndInv == NotYetStarted /\ Counted /\ StopOwes
=============================================================================
