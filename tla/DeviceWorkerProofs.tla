------------------------- MODULE DeviceWorkerProofs -------------------------
(***************************************************************************)
(* Proofs about DeviceWorker for every number of handles, every set of     *)
(* commands and endings and every retained status.                         *)
(***************************************************************************)
EXTENDS DeviceWorker, TLAPS

Working == {"identity", "initial", "poll", "refresh", "command"}

\* Where run() and handle_command go after an exchange, whatever came of it.
LEMMA AfterExchange ==
  ASSUME WorkerInv, NEW t \in Users, pc[t] \in {"ensure", "connect", "check", "io"},
         GoOn(t) \/ Fail(t) \/ Crash(t)
  PROVE  /\ pc' \in [Threads -> {"new", "loop", "ensure", "connect", "check", "io", "close",
                                 "tell", "send", "sleep", "ended", "crashed", "idle", "start",
                                 "watch", "stop", "join", "joined", "done"}]
         /\ goal' \in [Threads -> Working \cup {"none", "final", "reap", "shutdown"}]
         /\ telling' \in [Threads -> BOOLEAN]
         /\ \A u \in Threads \ {t} : pc'[u] = pc[u] /\ goal'[u] = goal[u]
         /\ pc'[t] \in {"ensure", "loop", "check", "tell", "idle", "close", "crashed"}
         /\ pc'[t] \in {"ensure", "check"} => goal'[t] \in Working
         /\ pc'[t] = "close" => goal'[t] \in {"poll", "command"}
<1> USE DEF WorkerInv, Threads, Users, Working
<1>1. goal[t] \in Working
  BY DEF GoalShape
<1>2. CASE GoOn(t)
  <2>1. /\ goal[t] = "identity" => Continue(t, "ensure", "initial") /\ Mute(t)
        /\ goal[t] = "initial" => Continue(t, "loop", "initial") /\ Mute(t)
        /\ goal[t] = "poll" => Continue(t, "check", "refresh") /\ Mute(t)
        /\ goal[t] = "refresh" => Continue(t, "tell", "refresh") /\ Say(t, TRUE)
        /\ goal[t] = "command" => Continue(t, "idle", "none") /\ Mute(t)
    BY <1>2 DEF GoOn
  <2>2. /\ telling' \in [Threads -> BOOLEAN]
        /\ \E where \in {"ensure", "loop", "check", "tell", "idle"},
             why \in Working \cup {"none"} :
             /\ Continue(t, where, why)
             /\ where \in {"ensure", "check"} => why \in Working
    BY <1>1, <2>1 DEF Mute, Say, TypeOK
  <2> QED BY <2>2 DEF Continue, TypeOK
<1>3. CASE ~GoOn(t)
  <2>1. goal[t] \in {"poll", "command"}
    BY <1>1, <1>3 DEF Fail, Crash, Swallowed
  <2>2. goal' = goal /\ telling' = telling
    BY <1>3 DEF Fail, Crash, Mute
  <2>3. pc' = [pc EXCEPT ![t] = "close"] \/ pc' = [pc EXCEPT ![t] = "crashed"]
    BY <1>3 DEF Fail, Crash, Goto
  <2> QED BY <2>1, <2>2, <2>3 DEF TypeOK
<1> QED BY <1>2, <1>3

\* The invariant after a step of thread t that touches no handle.
LEMMA NoHandleTouched ==
  ASSUME WorkerInv, NEW t \in Users, pc[t] # "connect", pc'[t] # "connect",
         \A u \in Users \ {t} : pc'[u] = pc[u],
         \A u \in Users \ {t} : hold'[u] = hold[u],
         UNCHANGED <<hid, dev, wlock>>
  PROVE  HandleAccounted' /\ LockMeaning' /\ DevIsOpen'
<1> USE WorkerAssumption DEF WorkerInv, WorkerAssumption, Users, NoOne
<1>1. LockMeaning'
  <2>1. wlock \in Users \cup {NoOne} /\ wlock # t
    BY DEF LockMeaning, TypeOK
  <2> QED BY <2>1 DEF LockMeaning
<1>2. HandleAccounted'
  BY DEF HandleAccounted, LockMeaning
<1> QED BY <1>1, <1>2 DEF DevIsOpen

\* DeviceWorker.__init__ establishes the invariant.
LEMMA InitInv == Init => WorkerInv
<1> SUFFICES ASSUME Init PROVE WorkerInv
  OBVIOUS
<1> USE WorkerAssumption DEF Init, WorkerAssumption, Threads, Users, NoOne
<1>1. TypeOK
  BY DEF TypeOK
<1>2. HandleAccounted /\ DevIsOpen /\ StartedOnce
  BY DEF HandleAccounted, DevIsOpen, StartedOnce
<1>3. LockMeaning /\ GoalShape
  BY DEF LockMeaning, GoalShape
<1> QED BY <1>1, <1>2, <1>3 DEF WorkerInv

\* _ensure_device and _close_device keep it.
LEMMA HandleStep ==
  ASSUME WorkerInv, NEW t \in Users,
         EnsureHave(t) \/ OpenFails(t) \/ OpenOK(t) \/ ConnectOK(t) \/ ConnectFails(t)
           \/ CloseDevice(t)
  PROVE  WorkerInv'
<1> USE WorkerAssumption DEF WorkerInv, WorkerAssumption, Threads, Users, NoOne
<1>1. CASE EnsureHave(t)
  <2>1. TypeOK' /\ GoalShape' /\ StartedOnce'
    BY <1>1 DEF EnsureHave, usb, avail, Goto, TypeOK, GoalShape, StartedOnce
  <2>2. HandleAccounted' /\ LockMeaning' /\ DevIsOpen'
    BY <1>1, NoHandleTouched DEF EnsureHave, usb, Goto, TypeOK
  <2> QED BY <2>1, <2>2
<1>2. CASE OpenFails(t)
  <2>1. pc[t] = "ensure" /\ Fail(t)
    BY <1>2 DEF OpenFails
  <2>2. TypeOK' /\ GoalShape' /\ StartedOnce'
    BY <1>2, <2>1, AfterExchange DEF OpenFails, usb, TypeOK, GoalShape, StartedOnce, Working
  <2>3. HandleAccounted' /\ LockMeaning' /\ DevIsOpen'
    BY <1>2, <2>1, AfterExchange, NoHandleTouched DEF OpenFails, usb
  <2> QED BY <2>2, <2>3
<1>3. CASE OpenOK(t)
  <2>1. PICK h \in Handles : /\ Unused(h)
                             /\ hid' = [hid EXCEPT ![h] = "opened"]
                             /\ dead' = dead \ {h}
                             /\ hold' = [hold EXCEPT ![t] = h]
    BY <1>3 DEF OpenOK
  <2>2. /\ pc[t] = "ensure" /\ pc' = [pc EXCEPT ![t] = "connect"]
        /\ wlock = NoHandle /\ wlock' = t /\ dev = NoHandle /\ dev' = NoHandle
        /\ UNCHANGED <<answers, goal, stop, flag, telling, status, routed>>
    BY <1>3 DEF OpenOK, Goto, avail
  <2>3. TypeOK' /\ GoalShape' /\ StartedOnce' /\ DevIsOpen'
    BY <2>1, <2>2 DEF TypeOK, GoalShape, StartedOnce, DevIsOpen
  <2>4. \A g \in Handles : hid[g] = "closed"
    BY <2>2 DEF HandleAccounted, TypeOK
  <2>5. HandleAccounted' /\ LockMeaning'
    BY <2>1, <2>2, <2>4 DEF HandleAccounted, LockMeaning, TypeOK
  <2> QED BY <2>3, <2>5
<1>4. CASE ConnectOK(t)
  <2>1. /\ pc[t] = "connect" /\ pc' = [pc EXCEPT ![t] = "check"]
        /\ hid' = [hid EXCEPT ![hold[t]] = "connected"]
        /\ dev' = hold[t] /\ wlock' = NoHandle
        /\ UNCHANGED <<answers, dead, goal, hold, stop, flag, telling, status, routed>>
    BY <1>4 DEF ConnectOK, Goto, avail, NoOne
  <2>2. wlock = t /\ dev = NoHandle /\ hold[t] \in Handles
    BY <2>1 DEF LockMeaning, TypeOK
  <2>3. TypeOK' /\ GoalShape' /\ StartedOnce'
    BY <2>1, <2>2 DEF TypeOK, GoalShape, StartedOnce
  <2>4. DevIsOpen' /\ LockMeaning'
    BY <2>1, <2>2 DEF DevIsOpen, LockMeaning, TypeOK
  <2>5. HandleAccounted'
    BY <2>1, <2>2 DEF HandleAccounted, TypeOK
  <2> QED BY <2>3, <2>4, <2>5
<1>5. CASE ConnectFails(t)
  <2>1. /\ pc[t] = "connect" /\ Fail(t)
        /\ hid' = [hid EXCEPT ![hold[t]] = "closed"]
        /\ hold' = [hold EXCEPT ![t] = NoHandle] /\ wlock' = NoHandle
        /\ UNCHANGED <<answers, dead, dev, stop, flag, status, routed>>
    BY <1>5 DEF ConnectFails, Drop, NoOne
  <2>2. wlock = t /\ dev = NoHandle /\ hold[t] \in Handles
    BY <2>1 DEF LockMeaning, TypeOK
  <2>3. TypeOK' /\ GoalShape' /\ StartedOnce'
    BY <2>1, <2>2, AfterExchange DEF TypeOK, GoalShape, StartedOnce, Working
  <2>4. DevIsOpen' /\ LockMeaning'
    BY <2>1, <2>2, AfterExchange DEF DevIsOpen, LockMeaning, TypeOK
  <2>5. HandleAccounted'
    BY <2>1, <2>2 DEF HandleAccounted, TypeOK
  <2> QED BY <2>3, <2>4, <2>5
<1>6. CASE CloseDevice(t)
  <2>1. /\ pc[t] = "close" /\ wlock = NoHandle /\ AfterClose(t)
        /\ hid' = IF dev = NoHandle THEN hid ELSE [hid EXCEPT ![dev] = "closed"]
        /\ dev' = NoHandle
        /\ hold' = [hold EXCEPT ![t] = NoHandle]
        /\ UNCHANGED <<answers, dead, wlock, goal, stop, flag, status, routed>>
    BY <1>6 DEF CloseDevice, Drop, NoOne
  <2>2. goal[t] \in {"final", "poll", "command"}
    BY <2>1 DEF GoalShape
  <2>3. /\ telling' \in [Threads -> BOOLEAN]
        /\ \E where \in {"ended", "tell", "idle"} : pc' = [pc EXCEPT ![t] = where]
    <3>1. \/ Goto(t, "ended") /\ Mute(t)
          \/ Goto(t, "tell") /\ Say(t, FALSE)
          \/ Goto(t, "idle") /\ Mute(t)
      BY <2>1, <2>2 DEF AfterClose
    <3>2. telling' \in [Threads -> BOOLEAN]
      BY <3>1 DEF Mute, Say, TypeOK
    <3> QED BY <3>1, <3>2 DEF Goto
  <2>4. TypeOK' /\ GoalShape' /\ StartedOnce'
    BY <2>1, <2>3 DEF TypeOK, GoalShape, StartedOnce
  <2>5. DevIsOpen' /\ LockMeaning'
    BY <2>1, <2>3 DEF DevIsOpen, LockMeaning, TypeOK
  <2>6. HandleAccounted'
    BY <2>1 DEF HandleAccounted, TypeOK
  <2> QED BY <2>4, <2>5, <2>6
<1> QED BY <1>1, <1>2, <1>3, <1>4, <1>5, <1>6

\* The test of Device._t and the exchange itself keep it.
LEMMA ExchangeStep ==
  ASSUME WorkerInv, NEW t \in Users,
         CheckClosed(t) \/ CheckOpen(t) \/ IoOnNone(t) \/ IoFails(t) \/ IoOK(t)
  PROVE  WorkerInv'
<1> USE WorkerAssumption DEF WorkerInv, WorkerAssumption, Threads, Users, NoOne
<1>1. CASE CheckOpen(t)
  <2>1. TypeOK' /\ GoalShape' /\ StartedOnce'
    BY <1>1 DEF CheckOpen, usb, avail, Goto, TypeOK, GoalShape, StartedOnce
  <2>2. HandleAccounted' /\ LockMeaning' /\ DevIsOpen'
    BY <1>1, NoHandleTouched DEF CheckOpen, usb, Goto, TypeOK
  <2> QED BY <2>1, <2>2
<1>2. CASE CheckClosed(t) \/ IoOnNone(t) \/ IoFails(t) \/ IoOK(t)
  <2>1. /\ pc[t] \in {"check", "io"}
        /\ GoOn(t) \/ Fail(t) \/ Crash(t)
        /\ hold' = hold \/ hold' = [hold EXCEPT ![t] = NoHandle]
        /\ UNCHANGED <<answers, hid, dead, dev, wlock, stop, flag, status, routed>>
    BY <1>2 DEF CheckClosed, IoOnNone, IoFails, IoOK, Forget, usb
  <2>2. TypeOK' /\ GoalShape' /\ StartedOnce'
    BY <2>1, AfterExchange DEF TypeOK, GoalShape, StartedOnce, Working
  <2>3. HandleAccounted' /\ LockMeaning' /\ DevIsOpen'
    BY <2>1, AfterExchange, NoHandleTouched DEF TypeOK
  <2> QED BY <2>2, <2>3
<1> QED BY <1>1, <1>2

\* publish_availability, called by the worker or by the bridge, keeps it.
LEMMA TellStep ==
  ASSUME WorkerInv, NEW t \in {"worker", "bridge"}, TellSame(t) \/ TellChange(t) \/ Publish(t)
  PROVE  WorkerInv'
<1> USE WorkerAssumption DEF WorkerInv, WorkerAssumption, Threads, Users, NoOne
<1>1. /\ pc[t] \in {"tell", "send"}
      /\ \E where \in {"send", "stop", "close", "sleep"} :
           /\ pc' = [pc EXCEPT ![t] = where]
           /\ where = "close" => goal[t] = "final"
      /\ UNCHANGED <<answers, hid, dead, dev, wlock, goal, hold, stop, telling, routed>>
  BY DEF TellSame, TellChange, Publish, AfterTell, Goto, usb, avail
<1>2. flag' \in BOOLEAN /\ status' \in {"none", "online", "offline"}
  BY DEF TellSame, TellChange, Publish, avail, TypeOK
<1>3. TypeOK' /\ GoalShape' /\ StartedOnce'
  BY <1>1, <1>2 DEF TypeOK, GoalShape, StartedOnce
<1>4. DevIsOpen' /\ LockMeaning' /\ HandleAccounted'
  BY <1>1 DEF DevIsOpen, LockMeaning, HandleAccounted, TypeOK
<1> QED BY <1>3, <1>4

\* The loops of the three threads, and the cable, keep it.
LEMMA LoopStep ==
  ASSUME WorkerInv,
         \/ Loop \/ Wake \/ \E c \in Commands : Command(c)
         \/ Start \/ \E e \in Endings : End(e)
         \/ Stop \/ Join \/ Finish
  PROVE  WorkerInv'
<1> USE WorkerAssumption DEF WorkerInv, WorkerAssumption, Threads, Users, NoOne
<1>1. CASE Loop \/ Wake
  <2>1. /\ pc["worker"] \in {"loop", "sleep"}
        /\ \E where \in {"tell", "ensure", "loop"}, why \in {"final", "poll", goal["worker"]} :
             /\ pc' = [pc EXCEPT !["worker"] = where]
             /\ goal' = [goal EXCEPT !["worker"] = why]
             /\ where = "ensure" => why = "poll"
        /\ telling' \in [Threads -> BOOLEAN]
        /\ UNCHANGED <<answers, hid, dead, dev, wlock, hold, stop, flag, status, routed>>
    <3>1. CASE Loop
      <4>1. CASE stop
        <5>1. /\ pc["worker"] = "loop"
              /\ pc' = [pc EXCEPT !["worker"] = "tell"]
              /\ goal' = [goal EXCEPT !["worker"] = "final"]
              /\ telling' = [telling EXCEPT !["worker"] = FALSE]
              /\ UNCHANGED <<answers, hid, dead, dev, wlock, hold, stop, flag, status, routed>>
          BY <3>1, <4>1 DEF Loop, Continue, Say, usb
        <5>2. telling' \in [Threads -> BOOLEAN]
          BY <5>1 DEF TypeOK
        <5> QED BY <5>1, <5>2
      <4>2. CASE ~stop
        BY <3>1, <4>2 DEF Loop, Continue, Mute, usb, TypeOK
      <4> QED BY <4>1, <4>2
    <3>2. CASE Wake
      <4>1. goal = [goal EXCEPT !["worker"] = goal["worker"]]
        BY DEF TypeOK
      <4> QED BY <3>2, <4>1 DEF Wake, Goto, usb, avail, TypeOK
    <3> QED BY <1>1, <3>1, <3>2
  <2>3. TypeOK' /\ GoalShape' /\ StartedOnce'
    BY <2>1 DEF TypeOK, GoalShape, StartedOnce
  <2>2. HandleAccounted' /\ LockMeaning' /\ DevIsOpen'
    BY <2>1, NoHandleTouched DEF TypeOK
  <2> QED BY <2>2, <2>3
<1>2. ASSUME NEW c \in Commands, Command(c) PROVE WorkerInv'
  <2>1. TypeOK' /\ GoalShape' /\ StartedOnce'
    BY <1>2 DEF Command, Continue, usb, avail, TypeOK, GoalShape, StartedOnce
  <2>2. HandleAccounted' /\ LockMeaning' /\ DevIsOpen'
    BY <1>2, NoHandleTouched DEF Command, Continue, usb, TypeOK
  <2> QED BY <2>1, <2>2
<1>3. CASE Start
  <2>1. TypeOK' /\ GoalShape' /\ StartedOnce'
    BY <1>3 DEF Start, usb, avail, TypeOK, GoalShape, StartedOnce
  <2>2. HandleAccounted' /\ LockMeaning' /\ DevIsOpen'
    BY <1>3, NoHandleTouched DEF Start, usb, TypeOK, StartedOnce
  <2> QED BY <2>1, <2>2
<1>4. ASSUME NEW e \in Endings, End(e) PROVE WorkerInv'
  <2>1. TypeOK' /\ GoalShape' /\ StartedOnce'
    BY <1>4 DEF End, Continue, Say, usb, TypeOK, GoalShape, StartedOnce
  <2>2. HandleAccounted' /\ LockMeaning' /\ DevIsOpen'
    BY <1>4 DEF End, Continue, usb, TypeOK, HandleAccounted, LockMeaning, DevIsOpen
  <2> QED BY <2>1, <2>2
<1>5. CASE Stop \/ Join \/ Finish
  <2>1. /\ stop' \in BOOLEAN /\ routed' \in BOOLEAN
        /\ \E where \in {"join", "joined", "done"} : pc' = [pc EXCEPT !["bridge"] = where]
        /\ UNCHANGED <<answers, hid, dead, dev, wlock, goal, hold, flag, telling, status>>
    BY <1>5 DEF Stop, Join, Finish, Goto, usb, avail, TypeOK
  <2>3. TypeOK' /\ GoalShape' /\ StartedOnce'
    BY <2>1 DEF TypeOK, GoalShape, StartedOnce
  <2>2. HandleAccounted' /\ LockMeaning' /\ DevIsOpen'
    BY <2>1 DEF TypeOK, HandleAccounted, LockMeaning, DevIsOpen
  <2> QED BY <2>2, <2>3
<1> QED BY <1>1, <1>2, <1>3, <1>4, <1>5

LEMMA CableStep == ASSUME WorkerInv, Vanish \/ Return PROVE WorkerInv'
<1>1. /\ answers' \in BOOLEAN /\ dead' \in SUBSET Handles
      /\ UNCHANGED <<hid, dev, wlock, pc, goal, hold, stop, flag, telling, status, routed>>
  BY DEF Vanish, Return, avail, WorkerInv, TypeOK
<1> QED
  BY <1>1 DEF WorkerInv, TypeOK, HandleAccounted, LockMeaning, DevIsOpen, GoalShape, StartedOnce

\* Every step of every thread and of the device keeps the invariant.
LEMMA Inductive == WorkerInv /\ [Next]_vars => WorkerInv'
<1> SUFFICES ASSUME WorkerInv, [Next]_vars PROVE WorkerInv'
  OBVIOUS
<1>1. ASSUME NEW t \in Users, Step(t) PROVE WorkerInv'
  BY <1>1, HandleStep, ExchangeStep DEF Step
<1>2. CASE WorkerStep
  BY <1>1, <1>2, TellStep, LoopStep DEF WorkerStep, Users
<1>3. CASE BridgeStep
  BY <1>3, TellStep, LoopStep DEF BridgeStep
<1>4. CASE UNCHANGED vars
  BY <1>4 DEF vars, WorkerInv, TypeOK, HandleAccounted, LockMeaning, DevIsOpen, GoalShape,
              StartedOnce
<1> QED
  BY <1>1, <1>2, <1>3, <1>4, LoopStep, CableStep DEF Next, Users

-----------------------------------------------------------------------------
(* Theorems *)

\* The fields of the worker and the locals of its threads stay in their
\* domains (__init__, run, handle_command).
THEOREM TypeCorrect == Spec => []TypeOK
<1>1. WorkerInv => TypeOK
  BY DEF WorkerInv
<1> QED
  BY InitInv, Inductive, <1>1, PTL DEF Spec

\* _ensure_device and _close_device: whatever the two threads do and whatever
\* fails, an open HID handle is the worker's, connected, or the one a thread is
\* connecting under the lock.
THEOREM NoHandleIsLost == Spec => []HandleAccounted
<1>1. WorkerInv => HandleAccounted
  BY DEF WorkerInv
<1> QED
  BY InitInv, Inductive, <1>1, PTL DEF Spec

\* _ensure_device: there are never two open HID handles at a time.
THEOREM OneHandle == Spec => [](\A g, h \in Handles : hid[g] # "closed" /\ hid[h] # "closed" => g = h)
<1>1. WorkerInv => \A g, h \in Handles : hid[g] # "closed" /\ hid[h] # "closed" => g = h
  BY WorkerAssumption DEF WorkerInv, HandleAccounted, WorkerAssumption
<1> QED
  BY InitInv, Inductive, <1>1, PTL DEF Spec

-----------------------------------------------------------------------------
(* The status topic *)

\* An exchange, a handle opened or closed: nothing is published.
LEMMA StatusUntouched ==
  ASSUME WorkerInv, StatusFollowsFlag, BridgeShape, NEW t \in Users, Step(t)
  PROVE  StatusFollowsFlag' /\ BridgeShape'
<1> USE DEF WorkerInv, Threads, Users
<1>1. flag' = flag /\ status' = status
  BY DEF Step, EnsureHave, OpenFails, OpenOK, ConnectOK, ConnectFails, CheckClosed, CheckOpen,
         IoOnNone, IoFails, IoOK, CloseDevice, avail
<1>2. /\ pc[t] \in {"ensure", "connect", "check", "io", "close"}
      /\ \A u \in Threads \ {t} : pc'[u] = pc[u] /\ goal'[u] = goal[u] /\ telling'[u] = telling[u]
      /\ pc'[t] # "send"
  <2>1. CASE \/ OpenFails(t) \/ ConnectFails(t) \/ CheckClosed(t)
             \/ IoOnNone(t) \/ IoFails(t) \/ IoOK(t)
    <3>1. pc[t] \in {"ensure", "connect", "check", "io"} /\ (GoOn(t) \/ Fail(t) \/ Crash(t))
      BY <2>1 DEF OpenFails, ConnectFails, CheckClosed, IoOnNone, IoFails, IoOK
    <3>2. \A u \in Threads \ {t} : telling'[u] = telling[u]
      <4>1. goal[t] \in Working
        BY <3>1 DEF GoalShape, Working
      <4>2. GoOn(t) => Mute(t) \/ Say(t, TRUE)
        BY <4>1 DEF GoOn, Working
      <4>3. Mute(t) \/ Say(t, TRUE)
        BY <3>1, <4>2 DEF Fail, Crash
      <4> QED BY <4>3 DEF Mute, Say, TypeOK
    <3> QED BY <3>1, <3>2, AfterExchange
  <2>2. CASE EnsureHave(t) \/ OpenOK(t) \/ ConnectOK(t) \/ CheckOpen(t)
    BY <2>2 DEF EnsureHave, OpenOK, ConnectOK, CheckOpen, Goto, avail, TypeOK
  <2>3. CASE CloseDevice(t)
    <3>1. goal[t] \in {"final", "poll", "command"}
      BY <2>3 DEF CloseDevice, GoalShape
    <3> QED BY <2>3, <3>1 DEF CloseDevice, AfterClose, Goto, Mute, Say, TypeOK
  <2> QED BY <2>1, <2>2, <2>3 DEF Step
<1>3. Ending' = Ending /\ BridgeShape'
  BY <1>2 DEF Ending, BridgeShape
<1>4. CASE t = "worker"
  BY <1>1, <1>2, <1>3, <1>4 DEF StatusFollowsFlag
<1>5. CASE t = "paho"
  BY <1>1, <1>2, <1>3, <1>5 DEF StatusFollowsFlag
<1> QED BY <1>3, <1>4, <1>5

\* Every other step keeps it too.
LEMMA StatusStep ==
  ASSUME WorkerInv, StatusFollowsFlag, BridgeShape, Next
  PROVE  StatusFollowsFlag' /\ BridgeShape'
<1> USE DEF WorkerInv, Threads, Users, StatusFollowsFlag, BridgeShape, Ending
<1>1. ASSUME NEW t \in Users, Step(t) PROVE StatusFollowsFlag' /\ BridgeShape'
  BY <1>1, StatusUntouched
<1>2. CASE TellSame("worker")
  BY <1>2 DEF TellSame, AfterTell, Goto, avail, TypeOK
<1>3. CASE TellChange("worker")
  BY <1>3 DEF TellChange, Goto, TypeOK
<1>4. CASE Publish("worker")
  BY <1>4 DEF Publish, AfterTell, Goto, TypeOK
<1>5. CASE TellSame("bridge") \/ TellChange("bridge") \/ Publish("bridge") \/ Stop \/ Join \/ Finish
  BY <1>5 DEF TellSame, TellChange, Publish, AfterTell, Stop, Join, Finish, Goto, avail, TypeOK
<1>6. CASE Loop
  BY <1>6 DEF Loop, Continue, Mute, Say, TypeOK
<1>7. CASE Wake \/ \E c \in Commands : Command(c)
  BY <1>7 DEF Wake, Command, Goto, Continue, avail, TypeOK
<1>8. CASE Start
  BY <1>8 DEF Start, StartedOnce, avail, TypeOK
<1>9. ASSUME NEW e \in Endings, End(e) PROVE StatusFollowsFlag' /\ BridgeShape'
  BY <1>9, WorkerAssumption DEF End, Continue, WorkerAssumption, TypeOK
<1>10. CASE Vanish \/ Return
  BY <1>10 DEF Vanish, Return, avail
<1> QED
  BY <1>1, <1>2, <1>3, <1>4, <1>5, <1>6, <1>7, <1>8, <1>9, <1>10 DEF Next, WorkerStep, BridgeStep

\* publish_availability: as long as the bridge leaves it alone, and unless an
\* earlier process left `online' behind, the status topic is what _online_flag
\* says whenever the worker's thread is not just publishing it, whatever the
\* commands and the device do.
THEOREM StatusIsFlag ==
  ASSUME "online" \notin Retained
  PROVE  Spec => []StatusFollowsFlag
<1>1. Init => WorkerInv /\ StatusFollowsFlag /\ BridgeShape
  BY InitInv DEF Init, StatusFollowsFlag, BridgeShape, Threads
<1>2. WorkerInv /\ StatusFollowsFlag /\ BridgeShape /\ [Next]_vars
        => (WorkerInv /\ StatusFollowsFlag /\ BridgeShape)'
  <2>1. ASSUME StatusFollowsFlag, BridgeShape, UNCHANGED vars PROVE StatusFollowsFlag' /\ BridgeShape'
    BY <2>1 DEF vars, StatusFollowsFlag, BridgeShape, Ending
  <2> QED BY <2>1, Inductive, StatusStep
<1> QED BY <1>1, <1>2, PTL DEF Spec
=============================================================================
