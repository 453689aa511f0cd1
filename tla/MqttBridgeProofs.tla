-------------------------- MODULE MqttBridgeProofs --------------------------
(***************************************************************************)
(* Proofs about MqttBridge, for any number of paths, units and plugs, any  *)
(* of the bridge's faults and anybody who ends it.                         *)
(***************************************************************************)
EXTENDS MqttBridge, FiniteSetTheorems, TLAPS

-----------------------------------------------------------------------------
(* The names *)

LEMMA PortsFinite == \A S \in SUBSET Ports : IsFiniteSet(S) /\ Cardinality(S) \in 0..Cardinality(Ports)
<1> SUFFICES ASSUME NEW S \in SUBSET Ports
             PROVE  IsFiniteSet(S) /\ Cardinality(S) \in 0..Cardinality(Ports)
  OBVIOUS
<1>1. IsFiniteSet(Ports)
  BY DiscoveryAssumption DEF DiscoveryAssumption
<1>2. IsFiniteSet(S) /\ Cardinality(S) <= Cardinality(Ports)
  BY <1>1, FS_Subset
<1>3. Cardinality(S) \in Nat /\ Cardinality(Ports) \in Nat
  BY <1>1, <1>2, FS_CardinalityType
<1> QED BY <1>2, <1>3

\* _build_display_id makes one of the ids.
LEMMA IdIsDisplayId ==
  ASSUME NEW b \in [Ports -> Units \cup {NoUnit}], NEW p \in Plugged(b)
  PROVE  DisplayId(b, p) \in DisplayIds
<1>1. p \in Ports /\ Serial[b[p]] \in Serials \cup {NoSerial}
  BY DEF Plugged, Serials
<1>2. Index(b, p) \in 0..Cardinality(Ports)
  BY PortsFinite DEF Index, Plugged
<1> QED BY <1>1, <1>2 DEF DisplayId, DisplayIds

\* The devices the bridge selects have a slug and a path.
LEMMA SelectedTypes ==
  ASSUME NEW b \in [Ports -> Units \cup {NoUnit}]
  PROVE  Selected(b) \subseteq [slug : Slugs, path : Ports]
<1>1. Plugged(b) \subseteq Ports
  BY DEF Plugged
<1>2. Resolved(b, Selector) \subseteq Plugged(b)
  BY DEF Resolved, First, At
<1>3. \A p \in Plugged(b) : Sanitized[DisplayId(b, p)] \in Slugs
  BY IdIsDisplayId DEF Slugs
<1> QED BY <1>1, <1>2, <1>3 DEF Selected

-----------------------------------------------------------------------------
(* The bridge *)

LEMMA InitBridge == Init => BridgeInv
<1> SUFFICES ASSUME Init PROVE BridgeInv
  OBVIOUS
<1> USE BridgeAssumption DEF Init, BridgeAssumption
<1>1. bus \in [Ports -> Units \cup {NoUnit}]
  BY DEF Buses
<1>2. TypeOK
  <2>1. plugs \in 0..MaxPlugs /\ made \in Nat
    OBVIOUS
  <2>2. \A v, w \in table : v.slug = w.slug => v = w
    OBVIOUS
  <2> HIDE DEF BridgeAssumption
  <2> QED BY <1>1, <2>1, <2>2 DEF TypeOK
<1>3. ThreadShape /\ OneForASlug /\ ActiveAreKnown /\ SubscribedOrDue
  BY DEF ThreadShape, OneForASlug, ActiveAreKnown, Active, SubscribedOrDue
<1> QED BY <1>2, <1>3 DEF BridgeInv

\* Main thread: start.
LEMMA StartSteps ==
  ASSUME BridgeInv, Connect \/ StartNext \/ AllStarted \/ Check \/ ConnectRefused \/ Exit
  PROVE  BridgeInv'
<1> USE DEF usb, workers, diff, broker, paho, ending, MainAt
<1>1. CASE Connect
  <2>1. TypeOK'
    <3>1. SlugsOf(table) \subseteq Slugs
      BY DEF BridgeInv, TypeOK, SlugsOf, Workers
    <3> QED BY <1>1, <3>1 DEF Connect, BridgeInv, TypeOK
  <2>2. ThreadShape'
    BY <1>1 DEF Connect, BridgeInv, TypeOK, ThreadShape
  <2>3. OneForASlug' /\ ActiveAreKnown'
    BY <1>1 DEF Connect, BridgeInv, TypeOK, ThreadShape, OneForASlug, ActiveAreKnown, Active
  <2>4. SubscribedOrDue'
    BY <1>1 DEF Connect, BridgeInv, TypeOK, ThreadShape, SubscribedOrDue, ToSubscribe, SlugsOf
  <2> QED BY <2>1, <2>2, <2>3, <2>4 DEF BridgeInv
<1>2. CASE StartNext
  <2>1. TypeOK'
    BY <1>2 DEF StartNext, BridgeInv, TypeOK, ThreadShape
  <2>2. ThreadShape'
    BY <1>2 DEF StartNext, BridgeInv, TypeOK, ThreadShape
  <2>3. OneForASlug' /\ ActiveAreKnown'
    BY <1>2 DEF StartNext, BridgeInv, TypeOK, ThreadShape, OneForASlug, ActiveAreKnown, Active
  <2>4. SubscribedOrDue'
    BY <1>2 DEF StartNext, BridgeInv, TypeOK, ThreadShape, SubscribedOrDue, ToSubscribe, SlugsOf
  <2> QED BY <2>1, <2>2, <2>3, <2>4 DEF BridgeInv
<1>3. CASE AllStarted
  <2>1. TypeOK'
    BY <1>3 DEF AllStarted, BridgeInv, TypeOK, ThreadShape
  <2>2. ThreadShape'
    BY <1>3 DEF AllStarted, BridgeInv, TypeOK, ThreadShape
  <2>3. OneForASlug' /\ ActiveAreKnown'
    BY <1>3 DEF AllStarted, BridgeInv, TypeOK, ThreadShape, OneForASlug, ActiveAreKnown, Active
  <2>4. SubscribedOrDue'
    BY <1>3 DEF AllStarted, BridgeInv, TypeOK, ThreadShape, SubscribedOrDue, ToSubscribe, SlugsOf
  <2> QED BY <2>1, <2>2, <2>3, <2>4 DEF BridgeInv
<1>4. CASE Check
  <2>1. TypeOK'
    BY <1>4 DEF Check, BridgeInv, TypeOK, ThreadShape
  <2>2. ThreadShape'
    BY <1>4 DEF Check, BridgeInv, TypeOK, ThreadShape
  <2>3. OneForASlug' /\ ActiveAreKnown'
    BY <1>4 DEF Check, BridgeInv, TypeOK, ThreadShape, OneForASlug, ActiveAreKnown, Active
  <2>4. SubscribedOrDue'
    BY <1>4 DEF Check, BridgeInv, TypeOK, ThreadShape, SubscribedOrDue, ToSubscribe, SlugsOf
  <2> QED BY <2>1, <2>2, <2>3, <2>4 DEF BridgeInv
<1>5. CASE ConnectRefused
  <2>1. TypeOK'
    BY <1>5 DEF ConnectRefused, BridgeInv, TypeOK, ThreadShape
  <2>2. ThreadShape'
    BY <1>5 DEF ConnectRefused, BridgeInv, TypeOK, ThreadShape
  <2>3. OneForASlug' /\ ActiveAreKnown'
    BY <1>5 DEF ConnectRefused, BridgeInv, TypeOK, ThreadShape, OneForASlug, ActiveAreKnown, Active
  <2>4. SubscribedOrDue'
    BY <1>5 DEF ConnectRefused, BridgeInv, TypeOK, ThreadShape, SubscribedOrDue, ToSubscribe, SlugsOf
  <2> QED BY <2>1, <2>2, <2>3, <2>4 DEF BridgeInv
<1>6. CASE Exit
  <2>1. TypeOK'
    BY <1>6 DEF Exit, BridgeInv, TypeOK, ThreadShape
  <2>2. ThreadShape'
    BY <1>6 DEF Exit, BridgeInv, TypeOK, ThreadShape
  <2>3. OneForASlug' /\ ActiveAreKnown'
    BY <1>6 DEF Exit, BridgeInv, TypeOK, ThreadShape, OneForASlug, ActiveAreKnown, Active
  <2>4. SubscribedOrDue'
    BY <1>6 DEF Exit, BridgeInv, TypeOK, ThreadShape, SubscribedOrDue, ToSubscribe, SlugsOf
  <2> QED BY <2>1, <2>2, <2>3, <2>4 DEF BridgeInv
<1> QED BY <1>1, <1>2, <1>3, <1>4, <1>5, <1>6

\* The hot-plug loop.
LEMMA SyncSteps ==
  ASSUME BridgeInv, Select \/ EnterDiff \/ Reap \/ ReapJoin \/ AllReaped \/ Add \/ StartAdded \/ AllAdded
  PROVE  BridgeInv'
<1> USE DEF usb, workers, diff, broker, paho, ending, MainAt
<1>1. CASE Select
  <2>1. TypeOK'
    <3>1. Selected(bus) \subseteq [slug : Slugs, path : Ports]
      BY SelectedTypes DEF BridgeInv, TypeOK
    <3> QED BY <1>1, <3>1 DEF Select, BridgeInv, TypeOK
  <2>2. ThreadShape'
    BY <1>1 DEF Select, BridgeInv, TypeOK, ThreadShape
  <2>3. OneForASlug' /\ ActiveAreKnown'
    BY <1>1 DEF Select, BridgeInv, TypeOK, ThreadShape, OneForASlug, ActiveAreKnown, Active
  <2>4. SubscribedOrDue'
    BY <1>1 DEF Select, BridgeInv, TypeOK, ThreadShape, SubscribedOrDue, ToSubscribe, SlugsOf
  <2> QED BY <2>1, <2>2, <2>3, <2>4 DEF BridgeInv
<1>2. CASE EnterDiff
  <2>1. TypeOK'
    BY <1>2 DEF EnterDiff, BridgeInv, TypeOK, ThreadShape
  <2>2. ThreadShape'
    BY <1>2 DEF EnterDiff, BridgeInv, TypeOK, ThreadShape
  <2>3. OneForASlug' /\ ActiveAreKnown'
    BY <1>2 DEF EnterDiff, BridgeInv, TypeOK, ThreadShape, OneForASlug, ActiveAreKnown, Active
  <2>4. SubscribedOrDue'
    BY <1>2 DEF EnterDiff, BridgeInv, TypeOK, ThreadShape, SubscribedOrDue, ToSubscribe, SlugsOf
  <2> QED BY <2>1, <2>2, <2>3, <2>4 DEF BridgeInv
<1>3. CASE Reap
  <2>1. TypeOK'
    BY <1>3 DEF Reap, BridgeInv, TypeOK, ThreadShape
  <2>2. ThreadShape'
    BY <1>3 DEF Reap, BridgeInv, TypeOK, ThreadShape
  <2>3. OneForASlug' /\ ActiveAreKnown'
    BY <1>3 DEF Reap, BridgeInv, TypeOK, ThreadShape, OneForASlug, ActiveAreKnown, Active
  <2>4. SubscribedOrDue'
    BY <1>3 DEF Reap, BridgeInv, TypeOK, ThreadShape, SubscribedOrDue, ToSubscribe, SlugsOf
  <2> QED BY <2>1, <2>2, <2>3, <2>4 DEF BridgeInv
<1>4. CASE ReapJoin
  <2>1. TypeOK'
    BY <1>4 DEF ReapJoin, BridgeInv, TypeOK, ThreadShape
  <2>2. ThreadShape'
    BY <1>4 DEF ReapJoin, BridgeInv, TypeOK, ThreadShape
  <2>3. OneForASlug' /\ ActiveAreKnown'
    BY <1>4 DEF ReapJoin, BridgeInv, TypeOK, ThreadShape, OneForASlug, ActiveAreKnown, Active
  <2>4. SubscribedOrDue'
    BY <1>4 DEF ReapJoin, BridgeInv, TypeOK, ThreadShape, SubscribedOrDue, ToSubscribe, SlugsOf
  <2> QED BY <2>1, <2>2, <2>3, <2>4 DEF BridgeInv
<1>5. CASE AllReaped
  <2>1. TypeOK'
    BY <1>5 DEF AllReaped, BridgeInv, TypeOK, ThreadShape
  <2>2. ThreadShape'
    BY <1>5 DEF AllReaped, BridgeInv, TypeOK, ThreadShape
  <2>3. OneForASlug' /\ ActiveAreKnown'
    BY <1>5 DEF AllReaped, BridgeInv, TypeOK, ThreadShape, OneForASlug, ActiveAreKnown, Active
  <2>4. SubscribedOrDue'
    BY <1>5 DEF AllReaped, BridgeInv, TypeOK, ThreadShape, SubscribedOrDue, ToSubscribe, SlugsOf
  <2> QED BY <2>1, <2>2, <2>3, <2>4 DEF BridgeInv
<1>6. CASE Add
  <2>1. TypeOK'
    BY <1>6 DEF Add, Subscribe, BridgeInv, TypeOK, ThreadShape
  <2>2. ThreadShape'
    BY <1>6 DEF Add, BridgeInv, TypeOK, ThreadShape
  <2>3. OneForASlug' /\ ActiveAreKnown'
    BY <1>6 DEF Add, BridgeInv, TypeOK, ThreadShape, OneForASlug, ActiveAreKnown, Active
  <2>4. SubscribedOrDue'
    BY <1>6 DEF Add, Subscribe, BridgeInv, TypeOK, ThreadShape, SubscribedOrDue, ToSubscribe, SlugsOf
  <2> QED BY <2>1, <2>2, <2>3, <2>4 DEF BridgeInv
<1>7. CASE StartAdded
  <2>1. TypeOK'
    BY <1>7 DEF StartAdded, BridgeInv, TypeOK, ThreadShape
  <2>2. ThreadShape'
    BY <1>7 DEF StartAdded, BridgeInv, TypeOK, ThreadShape
  <2>3. OneForASlug' /\ ActiveAreKnown'
    BY <1>7 DEF StartAdded, BridgeInv, TypeOK, ThreadShape, OneForASlug, ActiveAreKnown, Active
  <2>4. SubscribedOrDue'
    BY <1>7 DEF StartAdded, BridgeInv, TypeOK, ThreadShape, SubscribedOrDue, ToSubscribe, SlugsOf
  <2> QED BY <2>1, <2>2, <2>3, <2>4 DEF BridgeInv
<1>8. CASE AllAdded
  <2>1. TypeOK'
    BY <1>8 DEF AllAdded, BridgeInv, TypeOK, ThreadShape
  <2>2. ThreadShape'
    BY <1>8 DEF AllAdded, BridgeInv, TypeOK, ThreadShape
  <2>3. OneForASlug' /\ ActiveAreKnown'
    BY <1>8 DEF AllAdded, BridgeInv, TypeOK, ThreadShape, OneForASlug, ActiveAreKnown, Active
  <2>4. SubscribedOrDue'
    BY <1>8 DEF AllAdded, BridgeInv, TypeOK, ThreadShape, SubscribedOrDue, ToSubscribe, SlugsOf
  <2> QED BY <2>1, <2>2, <2>3, <2>4 DEF BridgeInv
<1> QED BY <1>1, <1>2, <1>3, <1>4, <1>5, <1>6, <1>7, <1>8

\* paho.
LEMMA PahoSteps ==
  ASSUME BridgeInv, Accepted \/ Announce \/ Snapshot \/ Resubscribe \/ Connected \/ Drop \/ Reconnect
  PROVE  BridgeInv'
<1> USE DEF usb, workers, diff, broker, paho, ending, MainAt
<1>1. CASE Accepted
  <2>1. TypeOK'
    BY <1>1 DEF Accepted, BridgeInv, TypeOK, ThreadShape
  <2>2. ThreadShape'
    BY <1>1 DEF Accepted, BridgeInv, TypeOK, ThreadShape
  <2>3. OneForASlug' /\ ActiveAreKnown'
    BY <1>1 DEF Accepted, BridgeInv, TypeOK, ThreadShape, OneForASlug, ActiveAreKnown, Active
  <2>4. SubscribedOrDue'
    BY <1>1 DEF Accepted, BridgeInv, TypeOK, ThreadShape, SubscribedOrDue, ToSubscribe, SlugsOf
  <2> QED BY <2>1, <2>2, <2>3, <2>4 DEF BridgeInv
<1>2. CASE Announce
  <2>1. TypeOK'
    BY <1>2 DEF Announce, BridgeInv, TypeOK, ThreadShape
  <2>2. ThreadShape'
    BY <1>2 DEF Announce, BridgeInv, TypeOK, ThreadShape
  <2>3. OneForASlug' /\ ActiveAreKnown'
    BY <1>2 DEF Announce, BridgeInv, TypeOK, ThreadShape, OneForASlug, ActiveAreKnown, Active
  <2>4. SubscribedOrDue'
    BY <1>2 DEF Announce, BridgeInv, TypeOK, ThreadShape, SubscribedOrDue, ToSubscribe, SlugsOf
  <2> QED BY <2>1, <2>2, <2>3, <2>4 DEF BridgeInv
<1>3. CASE Snapshot
  <2>1. TypeOK'
    BY <1>3 DEF Snapshot, BridgeInv, TypeOK, ThreadShape
  <2>2. ThreadShape'
    BY <1>3 DEF Snapshot, BridgeInv, TypeOK, ThreadShape
  <2>3. OneForASlug' /\ ActiveAreKnown'
    BY <1>3 DEF Snapshot, BridgeInv, TypeOK, ThreadShape, OneForASlug, ActiveAreKnown, Active
  <2>4. SubscribedOrDue'
    BY <1>3 DEF Snapshot, BridgeInv, TypeOK, ThreadShape, SubscribedOrDue, ToSubscribe, SlugsOf
  <2> QED BY <2>1, <2>2, <2>3, <2>4 DEF BridgeInv
<1>4. CASE Resubscribe
  <2>1. TypeOK'
    <3>1. PICK w \in resub : resub' = resub \ {w} /\ Subscribe(w.slug)
      BY <1>4 DEF Resubscribe
    <3>2. w.slug \in Slugs
      BY <3>1 DEF BridgeInv, TypeOK, Workers
    <3>3. subs' \subseteq Slugs
      BY <3>1, <3>2 DEF Subscribe, BridgeInv, TypeOK
    <3> QED BY <1>4, <3>1, <3>3 DEF Resubscribe, BridgeInv, TypeOK
  <2>2. ThreadShape'
    BY <1>4 DEF Resubscribe, BridgeInv, TypeOK, ThreadShape
  <2>3. OneForASlug' /\ ActiveAreKnown'
    BY <1>4 DEF Resubscribe, BridgeInv, TypeOK, ThreadShape, OneForASlug, ActiveAreKnown, Active
  <2>4. SubscribedOrDue'
    BY <1>4 DEF Resubscribe, Subscribe, BridgeInv, TypeOK, ThreadShape, SubscribedOrDue, ToSubscribe, SlugsOf
  <2> QED BY <2>1, <2>2, <2>3, <2>4 DEF BridgeInv
<1>5. CASE Connected
  <2>1. TypeOK'
    BY <1>5 DEF Connected, BridgeInv, TypeOK, ThreadShape
  <2>2. ThreadShape'
    BY <1>5 DEF Connected, BridgeInv, TypeOK, ThreadShape
  <2>3. OneForASlug' /\ ActiveAreKnown'
    BY <1>5 DEF Connected, BridgeInv, TypeOK, ThreadShape, OneForASlug, ActiveAreKnown, Active
  <2>4. SubscribedOrDue'
    BY <1>5 DEF Connected, BridgeInv, TypeOK, ThreadShape, SubscribedOrDue, ToSubscribe, SlugsOf
  <2> QED BY <2>1, <2>2, <2>3, <2>4 DEF BridgeInv
<1>6. CASE Drop
  <2>1. TypeOK'
    BY <1>6 DEF Drop, BridgeInv, TypeOK, ThreadShape
  <2>2. ThreadShape'
    BY <1>6 DEF Drop, BridgeInv, TypeOK, ThreadShape
  <2>3. OneForASlug' /\ ActiveAreKnown'
    BY <1>6 DEF Drop, BridgeInv, TypeOK, ThreadShape, OneForASlug, ActiveAreKnown, Active
  <2>4. SubscribedOrDue'
    BY <1>6 DEF Drop, BridgeInv, TypeOK, ThreadShape, SubscribedOrDue, ToSubscribe, SlugsOf
  <2> QED BY <2>1, <2>2, <2>3, <2>4 DEF BridgeInv
<1>7. CASE Reconnect
  <2>1. TypeOK'
    BY <1>7 DEF Reconnect, BridgeInv, TypeOK, ThreadShape
  <2>2. ThreadShape'
    BY <1>7 DEF Reconnect, BridgeInv, TypeOK, ThreadShape
  <2>3. OneForASlug' /\ ActiveAreKnown'
    BY <1>7 DEF Reconnect, BridgeInv, TypeOK, ThreadShape, OneForASlug, ActiveAreKnown, Active
  <2>4. SubscribedOrDue'
    BY <1>7 DEF Reconnect, BridgeInv, TypeOK, ThreadShape, SubscribedOrDue, ToSubscribe, SlugsOf
  <2> QED BY <2>1, <2>2, <2>3, <2>4 DEF BridgeInv
<1> QED BY <1>1, <1>2, <1>3, <1>4, <1>5, <1>6, <1>7

\* stop().
LEMMA StopSteps ==
  ASSUME BridgeInv, StopOffline \/ StopSnapshot \/ StopWorker \/ StopJoin
           \/ LoopStop \/ LoopStopped \/ Disconnect
  PROVE  BridgeInv'
<1> USE DEF usb, workers, diff, broker, paho, ending, MainAt
<1>1. CASE StopOffline
  <2>1. TypeOK'
    BY <1>1 DEF StopOffline, BridgeInv, TypeOK, ThreadShape
  <2>2. ThreadShape'
    BY <1>1 DEF StopOffline, BridgeInv, TypeOK, ThreadShape
  <2>3. OneForASlug' /\ ActiveAreKnown'
    BY <1>1 DEF StopOffline, BridgeInv, TypeOK, ThreadShape, OneForASlug, ActiveAreKnown, Active
  <2>4. SubscribedOrDue'
    BY <1>1 DEF StopOffline, BridgeInv, TypeOK, ThreadShape, SubscribedOrDue, ToSubscribe, SlugsOf
  <2> QED BY <2>1, <2>2, <2>3, <2>4 DEF BridgeInv
<1>2. CASE StopSnapshot
  <2>1. TypeOK'
    BY <1>2 DEF StopSnapshot, BridgeInv, TypeOK, ThreadShape
  <2>2. ThreadShape'
    BY <1>2 DEF StopSnapshot, BridgeInv, TypeOK, ThreadShape
  <2>3. OneForASlug' /\ ActiveAreKnown'
    BY <1>2 DEF StopSnapshot, BridgeInv, TypeOK, ThreadShape, OneForASlug, ActiveAreKnown, Active
  <2>4. SubscribedOrDue'
    BY <1>2 DEF StopSnapshot, BridgeInv, TypeOK, ThreadShape, SubscribedOrDue, ToSubscribe, SlugsOf
  <2> QED BY <2>1, <2>2, <2>3, <2>4 DEF BridgeInv
<1>3. CASE StopWorker
  <2>1. TypeOK'
    BY <1>3 DEF StopWorker, BridgeInv, TypeOK, ThreadShape
  <2>2. ThreadShape'
    BY <1>3 DEF StopWorker, BridgeInv, TypeOK, ThreadShape
  <2>3. OneForASlug' /\ ActiveAreKnown'
    BY <1>3 DEF StopWorker, BridgeInv, TypeOK, ThreadShape, OneForASlug, ActiveAreKnown, Active
  <2>4. SubscribedOrDue'
    BY <1>3 DEF StopWorker, BridgeInv, TypeOK, ThreadShape, SubscribedOrDue, ToSubscribe, SlugsOf
  <2> QED BY <2>1, <2>2, <2>3, <2>4 DEF BridgeInv
<1>4. CASE StopJoin
  <2>1. TypeOK'
    BY <1>4 DEF StopJoin, BridgeInv, TypeOK, ThreadShape
  <2>2. ThreadShape'
    BY <1>4 DEF StopJoin, BridgeInv, TypeOK, ThreadShape
  <2>3. OneForASlug' /\ ActiveAreKnown'
    BY <1>4 DEF StopJoin, BridgeInv, TypeOK, ThreadShape, OneForASlug, ActiveAreKnown, Active
  <2>4. SubscribedOrDue'
    BY <1>4 DEF StopJoin, BridgeInv, TypeOK, ThreadShape, SubscribedOrDue, ToSubscribe, SlugsOf
  <2> QED BY <2>1, <2>2, <2>3, <2>4 DEF BridgeInv
<1>5. CASE LoopStop
  <2>1. TypeOK'
    BY <1>5 DEF LoopStop, BridgeInv, TypeOK, ThreadShape
  <2>2. ThreadShape'
    BY <1>5 DEF LoopStop, BridgeInv, TypeOK, ThreadShape
  <2>3. OneForASlug' /\ ActiveAreKnown'
    BY <1>5 DEF LoopStop, BridgeInv, TypeOK, ThreadShape, OneForASlug, ActiveAreKnown, Active
  <2>4. SubscribedOrDue'
    BY <1>5 DEF LoopStop, BridgeInv, TypeOK, ThreadShape, SubscribedOrDue, ToSubscribe, SlugsOf
  <2> QED BY <2>1, <2>2, <2>3, <2>4 DEF BridgeInv
<1>6. CASE Disconnect
  <2>1. TypeOK'
    BY <1>6 DEF Disconnect, BridgeInv, TypeOK, ThreadShape
  <2>2. ThreadShape'
    BY <1>6 DEF Disconnect, BridgeInv, TypeOK, ThreadShape
  <2>3. OneForASlug' /\ ActiveAreKnown'
    BY <1>6 DEF Disconnect, BridgeInv, TypeOK, ThreadShape, OneForASlug, ActiveAreKnown, Active
  <2>4. SubscribedOrDue'
    BY <1>6 DEF Disconnect, BridgeInv, TypeOK, ThreadShape, SubscribedOrDue, ToSubscribe, SlugsOf
  <2> QED BY <2>1, <2>2, <2>3, <2>4 DEF BridgeInv
<1>7. CASE LoopStopped
  <2>1. TypeOK'
    BY <1>7 DEF LoopStopped, BridgeInv, TypeOK, ThreadShape
  <2>2. ThreadShape'
    BY <1>7 DEF LoopStopped, BridgeInv, TypeOK, ThreadShape
  <2>3. OneForASlug' /\ ActiveAreKnown'
    BY <1>7 DEF LoopStopped, BridgeInv, TypeOK, ThreadShape, OneForASlug, ActiveAreKnown, Active
  <2>4. SubscribedOrDue'
    BY <1>7 DEF LoopStopped, BridgeInv, TypeOK, ThreadShape, SubscribedOrDue, ToSubscribe, SlugsOf
  <2> QED BY <2>1, <2>2, <2>3, <2>4 DEF BridgeInv
<1> QED BY <1>1, <1>2, <1>3, <1>4, <1>5, <1>6, <1>7

\* The table changes: what Make makes has a slug and a path, and of several
\* devices with the same slug only one is taken.
LEMMA MakeTypes ==
  ASSUME made \in Nat, NEW D, D \subseteq [slug : Slugs, path : Ports]
  PROVE  /\ Make(D) \subseteq Workers
         /\ SlugsOf(Make(D)) = SlugsOf(D)
         /\ (\A d, e \in D : d.slug = e.slug => d = e) =>
               \A v, w \in Make(D) : v.slug = w.slug => v = w
<1>1. Make(D) \subseteq Workers
  BY DEF Make, Workers
<1>2. SlugsOf(Make(D)) = SlugsOf(D)
  <2>1. ASSUME NEW d \in D PROVE \E w \in Make(D) : w.slug = d.slug
    <3>1. [slug |-> d.slug, path |-> d.path, gen |-> made + 1] \in Make(D)
      BY DEF Make
    <3> QED BY <3>1
  <2>2. \A w \in Make(D) : \E d \in D : w.slug = d.slug
    BY DEF Make
  <2> QED BY <2>1, <2>2 DEF SlugsOf
<1>3. (\A d, e \in D : d.slug = e.slug => d = e) =>
         \A v, w \in Make(D) : v.slug = w.slug => v = w
  BY DEF Make
<1> QED BY <1>1, <1>2, <1>3

LEMMA OneForemost ==
  ASSUME NEW D, D \subseteq [slug : Slugs, path : Ports]
  PROVE  /\ \A d, e \in Foremost(D) : d.slug = e.slug => d = e
         /\ \A d, e \in Hindmost(D) : d.slug = e.slug => d = e
         /\ Foremost(D) \subseteq D /\ Hindmost(D) \subseteq D
<1>1. ASSUME NEW d \in D, NEW e \in D
      PROVE  /\ d.path \in Nat /\ e.path \in Nat
             /\ d.slug = e.slug /\ d.path = e.path => d = e
  <2>1. d \in [slug : Slugs, path : Ports] /\ e \in [slug : Slugs, path : Ports]
    OBVIOUS
  <2>2. d.path \in Ports /\ e.path \in Ports
    BY <2>1
  <2>3. d.path \in Nat /\ e.path \in Nat
    BY <2>2, DiscoveryAssumption DEF DiscoveryAssumption
  <2>4. d.slug = e.slug /\ d.path = e.path => d = e
    BY <2>1
  <2> QED BY <2>3, <2>4
<1>2. \A d, e \in D : d.path <= e.path /\ e.path <= d.path => d.path = e.path
  BY <1>1
<1>3. Foremost(D) \subseteq D /\ Hindmost(D) \subseteq D
  BY DEF Foremost, Hindmost
<1>4. \A d, e \in Foremost(D) : d.slug = e.slug => d = e
  BY <1>1, <1>2 DEF Foremost
<1>5. \A d, e \in Hindmost(D) : d.slug = e.slug => d = e
  BY <1>1, <1>2 DEF Hindmost
<1> QED BY <1>3, <1>4, <1>5

\* _initial_spawn.
LEMMA SpawnStep == BridgeInv /\ InitialSpawn => BridgeInv'
<1> SUFFICES ASSUME BridgeInv, InitialSpawn PROVE BridgeInv'
  OBVIOUS
<1> USE DEF usb, diff, broker, paho, ending, MainAt
<1> DEFINE F == Foremost(Selected(bus))
<1>1. F \subseteq [slug : Slugs, path : Ports] /\ \A d, e \in F : d.slug = e.slug => d = e
  BY SelectedTypes, OneForemost DEF BridgeInv, TypeOK
<1> HIDE DEF F
<1>2. Make(F) \subseteq Workers /\ \A v, w \in Make(F) : v.slug = w.slug => v = w
  BY <1>1, MakeTypes DEF BridgeInv, TypeOK
<1>3. /\ table' = Make(F) /\ made' = made + 1 /\ pc = "spawn" /\ pc' = "connect"
      /\ UNCHANGED <<bus, plugs, alive, told, locked, seen, reap, add, at, link, subs, bstatus,
                     ppc, resub, stopping, spc, caller, pend, joined, known>>
  BY DEF InitialSpawn, F
<1>4. TypeOK'
  BY <1>2, <1>3 DEF BridgeInv, TypeOK
<1>5. ThreadShape' /\ OneForASlug' /\ ActiveAreKnown' /\ SubscribedOrDue'
  BY <1>2, <1>3 DEF BridgeInv, ThreadShape, OneForASlug, ActiveAreKnown, Active, SubscribedOrDue
<1> QED BY <1>4, <1>5 DEF BridgeInv

\* The diff of _hotplug_sync: what stays, what goes and what comes have
\* different slugs.
LEMMA UpdateStep == BridgeInv /\ Update => BridgeInv'
<1> SUFFICES ASSUME BridgeInv, Update PROVE BridgeInv'
  OBVIOUS
<1> USE DEF usb, broker, paho, ending, MainAt
<1> DEFINE H == Hindmost(Appeared)
           Kept == table \ Gone
<1>1. Appeared \subseteq [slug : Slugs, path : Ports]
  BY DEF Appeared, BridgeInv, TypeOK
<1>2. /\ H \subseteq Appeared /\ \A d, e \in H : d.slug = e.slug => d = e
  BY <1>1, OneForemost
<1>3. /\ Make(H) \subseteq Workers /\ \A v, w \in Make(H) : v.slug = w.slug => v = w
      /\ SlugsOf(Make(H)) = SlugsOf(H) /\ SlugsOf(H) \subseteq SlugsOf(Appeared)
  <2>1. H \subseteq [slug : Slugs, path : Ports] /\ SlugsOf(H) \subseteq SlugsOf(Appeared)
    BY <1>1, <1>2 DEF SlugsOf
  <2> HIDE DEF H
  <2> QED BY <1>2, <2>1, MakeTypes DEF BridgeInv, TypeOK
<1>4. SlugsOf(Appeared) \subseteq Slugs
  BY <1>1 DEF SlugsOf
<1>5. /\ pc = "update" /\ pc' = "reap" /\ reap' = Gone /\ add' = SlugsOf(Appeared)
      /\ table' = Kept \cup Make(H) /\ made' \in {made, made + 1}
      /\ seen' = {} /\ locked' = FALSE
      /\ UNCHANGED <<bus, plugs, alive, told, at, link, subs, bstatus,
                     ppc, resub, stopping, spc, caller, pend, joined, known>>
  BY DEF Update
<1>6. /\ \A w \in Make(H) : w.slug \in SlugsOf(seen) /\ w.slug \notin SlugsOf(table)
      /\ \A w \in Gone : w \in table /\ w.slug \notin SlugsOf(seen)
      /\ \A w \in table : w.slug \in SlugsOf(table)
      /\ Gone \cup Kept = table
  <2>1. \A w \in Make(H) : w.slug \in SlugsOf(Appeared)
    BY <1>3 DEF SlugsOf
  <2> QED BY <2>1 DEF Gone, Appeared, SlugsOf
<1>7. \A v, w \in table : v.slug = w.slug => v = w
  BY DEF BridgeInv, TypeOK
<1> HIDE DEF H, Kept
<1>8. OneForASlug'
  BY <1>3, <1>5, <1>6, <1>7 DEF OneForASlug
<1>9. TypeOK'
  <2>1. \A v, w \in table' : v.slug = w.slug => v = w
    BY <1>8 DEF OneForASlug
  <2>2. table' \subseteq Workers /\ reap' \subseteq Workers
    BY <1>3, <1>5, <1>6 DEF BridgeInv, TypeOK
  <2>3. add' \subseteq Slugs /\ made' \in Nat /\ seen' = {} /\ locked' = FALSE /\ known' \in Nat
    BY <1>4, <1>5 DEF BridgeInv, TypeOK
  <2>4. /\ bus' \in [Ports -> Units \cup {NoUnit}] /\ plugs' \in 0..MaxPlugs
        /\ alive' \subseteq Workers /\ told' \subseteq Workers
        /\ at' \in Workers \cup {NoWorker} /\ joined' \in Workers \cup {NoWorker}
        /\ resub' \subseteq Workers /\ pend' \subseteq Workers /\ subs' \subseteq Slugs
    BY <1>5 DEF BridgeInv, TypeOK
  <2>5. UNCHANGED <<link, bstatus, ppc, stopping, spc, caller>> /\ pc' = "reap"
    BY <1>5
  <2> QED BY <2>1, <2>2, <2>3, <2>4, <2>5 DEF BridgeInv, TypeOK
<1>10. ActiveAreKnown'
  BY <1>5, <1>6 DEF BridgeInv, ActiveAreKnown, ThreadShape, Active
<1>11. SubscribedOrDue'
  <2>1. ToSubscribe = {} /\ ToSubscribe' = add'
    BY <1>5 DEF ToSubscribe
  <2>2. SlugsOf(table') \subseteq SlugsOf(table) \cup add'
    BY <1>3, <1>5, <1>6 DEF SlugsOf
  <2>3. SlugsOf(resub)' = SlugsOf(resub) /\ SlugsOf(table)' = SlugsOf(table')
    BY <1>5 DEF SlugsOf
  <2> QED BY <1>5, <2>1, <2>2, <2>3 DEF BridgeInv, SubscribedOrDue
<1>12. ThreadShape'
  BY <1>5 DEF BridgeInv, ThreadShape
<1> QED BY <1>8, <1>9, <1>10, <1>11, <1>12 DEF BridgeInv

\* A handler or another thread calls stop().
LEMMA CallStep ==
  ASSUME BridgeInv, NEW how \in Stops \ {"interrupt"}, StopCall(how)
  PROVE  BridgeInv'
<1> USE DEF usb, workers, diff, broker, paho
<1>1. TypeOK'
  BY DEF StopCall, BridgeInv, TypeOK
<1>2. ThreadShape'
  BY DEF StopCall, BridgeInv, ThreadShape
<1>3. OneForASlug' /\ ActiveAreKnown'
  BY DEF StopCall, BridgeInv, OneForASlug, ActiveAreKnown, Active
<1>4. SubscribedOrDue'
  BY DEF StopCall, BridgeInv, ThreadShape, SubscribedOrDue, ToSubscribe, SlugsOf
<1> QED BY <1>1, <1>2, <1>3, <1>4 DEF BridgeInv

\* Ctrl-C takes main out of whatever it does.
LEMMA InterruptStep == ASSUME BridgeInv, "interrupt" \in Stops, Interrupt PROVE BridgeInv'
<1> USE DEF usb, broker, paho
<1>1. /\ table' \subseteq table /\ table' \cup reap' = table \cup reap
      /\ seen' = {} /\ add' = {} /\ at' = NoWorker /\ locked' = FALSE
      /\ pc' = "finally" /\ caller' = "interrupt" /\ stopping' = TRUE /\ spc' = "offline"
      /\ UNCHANGED <<bus, plugs, made, alive, told, link, subs, bstatus, ppc, resub, pend, joined,
                     known>>
  BY DEF Interrupt, Unwind, Gone
<1>2. pc \notin {"spawn", "connect"} \/ (ppc = "off" /\ link = "down")
  BY DEF BridgeInv, ThreadShape
<1>3. TypeOK'
  BY <1>1 DEF BridgeInv, TypeOK
<1>4. ThreadShape'
  BY <1>1 DEF BridgeInv, ThreadShape
<1>5. OneForASlug' /\ ActiveAreKnown'
  BY <1>1 DEF BridgeInv, OneForASlug, ActiveAreKnown, Active
<1>6. SubscribedOrDue'
  BY <1>1 DEF SubscribedOrDue
<1> QED BY <1>3, <1>4, <1>5, <1>6 DEF BridgeInv

\* A worker that was told ends.
LEMMA EndStep == ASSUME BridgeInv, NEW w \in alive, ThreadEnds(w) PROVE BridgeInv'
<1> USE DEF usb, diff, broker, paho, ending
<1>1. TypeOK' /\ ThreadShape'
  BY DEF ThreadEnds, BridgeInv, TypeOK, ThreadShape
<1>2. OneForASlug' /\ ActiveAreKnown'
  BY DEF ThreadEnds, BridgeInv, OneForASlug, ActiveAreKnown, Active
<1>3. SubscribedOrDue'
  BY DEF ThreadEnds, BridgeInv, SubscribedOrDue, ToSubscribe, SlugsOf
<1> QED BY <1>1, <1>2, <1>3 DEF BridgeInv

\* Nothing else changes but the bus.
LEMMA BusStep ==
  ASSUME BridgeInv, NEW p \in Ports, Unplug(p) \/ \E u \in Units : Plug(u, p)
  PROVE  BridgeInv'
<1> USE BridgeAssumption DEF BridgeAssumption, workers, diff, broker, paho, ending, Rewire
<1>1. /\ \E x \in Units \cup {NoUnit} : bus' = [bus EXCEPT ![p] = x]
      /\ plugs' = plugs \/ (plugs < MaxPlugs /\ plugs' = plugs + 1)
      /\ UNCHANGED <<table, made, alive, told, pc, locked, seen, reap, add, at, link, subs, bstatus,
                     ppc, resub, stopping, spc, caller, pend, joined, known>>
  BY DEF Unplug, Plug
<1>2. bus' \in [Ports -> Units \cup {NoUnit}] /\ plugs' \in 0..MaxPlugs
  BY <1>1 DEF BridgeInv, TypeOK
<1>3. TypeOK'
  BY <1>1, <1>2 DEF BridgeInv, TypeOK
<1>4. ThreadShape' /\ OneForASlug' /\ ActiveAreKnown'
  BY <1>1 DEF BridgeInv, ThreadShape, OneForASlug, ActiveAreKnown, Active
<1>5. SubscribedOrDue'
  BY <1>1 DEF BridgeInv, SubscribedOrDue, ToSubscribe, SlugsOf
<1> QED BY <1>3, <1>4, <1>5 DEF BridgeInv

LEMMA BridgeStep == BridgeInv /\ [Next]_vars => BridgeInv'
<1> SUFFICES ASSUME BridgeInv, [Next]_vars PROVE BridgeInv'
  OBVIOUS
<1>1. ASSUME UNCHANGED vars PROVE BridgeInv'
  BY <1>1 DEF vars, BridgeInv, TypeOK, ThreadShape, OneForASlug, ActiveAreKnown, Active,
              SubscribedOrDue, ToSubscribe, SlugsOf
<1>2. Main => BridgeInv'
  BY StartSteps, SyncSteps, SpawnStep, UpdateStep DEF Main
<1>3. Paho \/ Drop => BridgeInv'
  BY PahoSteps DEF Paho
<1>4. Stop => BridgeInv'
  BY StopSteps DEF Stop
<1> QED BY <1>1, <1>2, <1>3, <1>4, StartSteps, CallStep, InterruptStep, EndStep,
       BusStep DEF Next

LEMMA BridgeAlways == Spec => []BridgeInv
  BY InitBridge, BridgeStep, PTL DEF Spec

-----------------------------------------------------------------------------
(* The theorems *)

\* Every variable stays in its domain, and _workers stays a dictionary.
THEOREM TypeCorrect == Spec => []TypeOK
  BY BridgeAlways, PTL DEF BridgeInv

\* One running worker for a slug, and none that main has forgotten.
THEOREM WorkersAreKnown == Spec => []OneActiveWorker
<1>1. BridgeInv => OneActiveWorker
  BY DEF BridgeInv, OneForASlug, ActiveAreKnown, OneActiveWorker
<1> QED BY <1>1, BridgeAlways, PTL

\* Between connections and hot-plug rounds every worker's topics are subscribed.
THEOREM SubscribedAtRest == Spec => []TableIsSubscribed
<1>1. BridgeInv => TableIsSubscribed
  BY DEF BridgeInv, ThreadShape, SubscribedOrDue, ToSubscribe, SlugsOf, TableIsSubscribed
<1> QED BY <1>1, BridgeAlways, PTL

\* Main: a worker that is not started has no thread, so nobody takes it off the
\* list of those that were told.
LEMMA EndMain ==
  ASSUME BridgeInv, EndInv, Main \/ ConnectRefused
  PROVE  EndInv'
<1> USE DEF usb, workers, diff, broker, paho, ending, MainAt
<1>0. /\ \A v, w \in table : v.slug = w.slug => v = w
      /\ made \in Nat /\ known \in Nat
      /\ \A w \in table \cup alive \cup reap \cup pend : w.gen \in Nat
  <2>1. \A w \in Workers : w.gen \in Nat
    BY DEF Workers
  <2> QED BY <2>1 DEF BridgeInv, TypeOK
<1>1. CASE InitialSpawn
  <2>1. /\ \A w \in table' : w.gen = made + 1
        /\ made' = made + 1 /\ pc' = "connect" /\ pc = "spawn" /\ alive = {}
        /\ UNCHANGED <<alive, told, reap, add, at, spc, pend, joined, known>>
    BY <1>1 DEF InitialSpawn, Make, BridgeInv, ThreadShape
  <2>2. add = {} /\ caller # "interrupt" /\ known <= made
    BY <2>1 DEF EndInv, NotYetStarted, Counted, BridgeInv, ThreadShape
  <2>3. caller' = caller
    BY <1>1 DEF InitialSpawn
  <2>4. NotYetStarted' /\ Counted'
    BY <1>0, <2>1, <2>2 DEF EndInv, NotYetStarted, Counted, ToStart
  <2>5. StopOwes'
    BY <1>0, <2>1, <2>2, <2>3 DEF EndInv, Counted, StopOwes, Active, ToStart
  <2> QED BY <2>4, <2>5 DEF EndInv
<1>2. CASE Connect
  <2>1. /\ pc = "connect" /\ pc' = "startall" /\ alive = {}
        /\ UNCHANGED <<table, made, alive, told, reap, at, spc, caller, pend, joined, known>>
    BY <1>2 DEF Connect, BridgeInv, ThreadShape
  <2> QED BY <2>1 DEF EndInv, NotYetStarted, Counted, StopOwes, Active, ToStart
<1>3. CASE StartNext
  <2>1. PICK w \in table : w.slug \in add /\ alive' = alive \cup {w} /\ add' = add \ {w.slug}
    BY <1>3 DEF StartNext
  <2>2. /\ pc = "startall" /\ UNCHANGED <<table, made, told, pc, reap, at, spc, caller, pend, joined, known>>
    BY <1>3 DEF StartNext
  <2>3. NotYetStarted' /\ Counted'
    BY <1>0, <2>1, <2>2 DEF EndInv, NotYetStarted, Counted, ToStart
  <2>4. StopOwes'
    BY <1>0, <2>1, <2>2 DEF EndInv, StopOwes, Active, ToStart
  <2> QED BY <2>3, <2>4 DEF EndInv
<1>4. CASE Update
  <2>1. /\ pc = "update" /\ pc' = "reap" /\ reap = {} /\ caller # "interrupt" /\ reap' = Gone
        /\ UNCHANGED <<alive, told, at, spc, caller, pend, joined, known>>
    BY <1>4 DEF Update, BridgeInv, ThreadShape
  <2>2. /\ Gone \subseteq table /\ table \ Gone \subseteq table'
        /\ \A w \in table' : w \in table \/ w.gen = made + 1
        /\ \A w \in table : w.slug \notin add'
        /\ made' \in {made, made + 1} /\ (table' \subseteq table \/ made' = made + 1)
    <3>1. table' = (table \ Gone) \cup Make(Hindmost(Appeared)) /\ add' = SlugsOf(Appeared)
          /\ made' = (IF Appeared = {} THEN made ELSE made + 1)
      BY <1>4 DEF Update
    <3>2. \A w \in Make(Hindmost(Appeared)) : w.gen = made + 1
      BY DEF Make
    <3>3. Appeared = {} => Make(Hindmost(Appeared)) = {}
      BY DEF Make, Hindmost
    <3>4. \A w \in table : w.slug \notin SlugsOf(Appeared)
      BY DEF Appeared, SlugsOf
    <3>5. Gone \subseteq table
      BY DEF Gone
    <3> QED BY <3>1, <3>2, <3>3, <3>4, <3>5
  <2>3. add = {}
    BY <2>1 DEF EndInv, NotYetStarted, ToStart
  <2>4. Counted'
    BY <1>0, <2>1, <2>2 DEF EndInv, Counted
  <2>5. NotYetStarted'
    <3>1. \A w \in table' : w.slug \in add' => w \notin alive
      BY <1>0, <2>2 DEF EndInv, Counted
    <3> QED BY <2>1, <3>1 DEF NotYetStarted, ToStart
  <2>6. \A w \in table' : w.slug \in add' => w.gen > known
    BY <1>0, <2>2 DEF EndInv, Counted
  <2>7. StopOwes'
    BY <1>0, <2>1, <2>2, <2>6 DEF Counted, EndInv, StopOwes, Active, ToStart
  <2> QED BY <2>4, <2>5, <2>7 DEF EndInv
<1>5. CASE Reap
  <2>1. PICK w \in reap : told' = told \cup {w} /\ at' = w
    BY <1>5 DEF Reap
  <2>2. /\ pc = "reap" /\ pc' = "join"
        /\ UNCHANGED <<table, made, alive, reap, add, spc, caller, pend, joined, known>>
    BY <1>5 DEF Reap
  <2> QED BY <2>1, <2>2 DEF EndInv, NotYetStarted, Counted, StopOwes, Active, ToStart
<1>6. CASE ReapJoin
  <2>1. /\ pc = "join" /\ pc' = "reap" /\ reap' = reap \ {at} /\ at \notin Active
        /\ UNCHANGED <<table, made, alive, told, add, spc, caller, pend, joined, known>>
    BY <1>6 DEF ReapJoin, BridgeInv, ActiveAreKnown
  <2> QED BY <2>1 DEF EndInv, NotYetStarted, Counted, StopOwes, Active, ToStart
<1>7. CASE Add
  <2>1. PICK w \in table : w.slug \in add /\ at' = w
    BY <1>7 DEF Add
  <2>2. /\ pc = "add" /\ pc' = "start"
        /\ UNCHANGED <<table, made, alive, told, reap, add, spc, caller, pend, joined, known>>
    BY <1>7 DEF Add
  <2> QED BY <2>1, <2>2 DEF EndInv, NotYetStarted, Counted, StopOwes, Active, ToStart
<1>8. CASE StartAdded
  <2>1. /\ pc = "start" /\ pc' = "add" /\ at \in table /\ at.slug \in add
        /\ alive' = alive \cup {at} /\ add' = add \ {at.slug}
        /\ UNCHANGED <<table, made, told, reap, spc, caller, pend, joined, known>>
    BY <1>8 DEF StartAdded, BridgeInv, ThreadShape, EndInv, NotYetStarted, ToStart
  <2>2. NotYetStarted' /\ Counted'
    BY <1>0, <2>1 DEF EndInv, NotYetStarted, Counted, ToStart
  <2>3. StopOwes'
    BY <1>0, <2>1 DEF EndInv, StopOwes, Active, ToStart
  <2> QED BY <2>2, <2>3 DEF EndInv
<1>9. CASE AllStarted \/ Check \/ Select \/ EnterDiff \/ AllReaped \/ AllAdded \/ Exit \/ ConnectRefused
  <2>1. UNCHANGED <<table, made, alive, told, reap, add, at, spc, caller, pend, joined, known>>
    BY <1>9 DEF AllStarted, Check, Select, EnterDiff, AllReaped, AllAdded, Exit, ConnectRefused
  <2>2. /\ pc' \notin {"start", "connect"}
        /\ add = {} \/ pc' \in {"startall", "reap", "join", "add"}
    BY <1>9 DEF AllStarted, Check, Select, EnterDiff, AllReaped, AllAdded, Exit, ConnectRefused,
                EndInv, NotYetStarted, ToStart
  <2> QED BY <2>1, <2>2 DEF EndInv, NotYetStarted, Counted, StopOwes, Active, ToStart
<1> QED
  BY <1>1, <1>2, <1>3, <1>4, <1>5, <1>6, <1>7, <1>8, <1>9 DEF Main

\* stop().
LEMMA EndStop ==
  ASSUME BridgeInv, EndInv, Stop
  PROVE  EndInv'
<1> USE DEF usb, workers, diff, broker, paho, ending
<1>1. CASE StopOffline
  <2>1. /\ spc' = "snapshot"
        /\ UNCHANGED <<table, made, alive, told, pc, reap, add, at, caller, pend, joined, known>>
    BY <1>1 DEF StopOffline
  <2> QED BY <2>1 DEF EndInv, NotYetStarted, Counted, StopOwes, Active, ToStart
<1>2. CASE StopSnapshot
  <2>1. /\ spc' = "workers" /\ pend' = table /\ known' = made /\ made \in Nat
        /\ UNCHANGED <<table, made, alive, told, pc, reap, add, at, caller, joined>>
    BY <1>2 DEF StopSnapshot, BridgeInv, TypeOK
  <2>2. Active \subseteq table \cup reap
    BY DEF BridgeInv, ActiveAreKnown
  <2>3. StopOwes'
    BY <2>1, <2>2 DEF StopOwes, Active, ToStart
  <2>4. NotYetStarted' /\ Counted'
    BY <2>1 DEF EndInv, NotYetStarted, Counted, ToStart
  <2> QED BY <2>3, <2>4 DEF EndInv
<1>3. CASE StopWorker
  <2>1. PICK w \in pend : told' = told \cup {w} /\ joined' = w
    BY <1>3 DEF StopWorker
  <2>2. /\ spc = "workers" /\ spc' = "join"
        /\ UNCHANGED <<table, made, alive, pc, reap, add, at, caller, pend, known>>
    BY <1>3 DEF StopWorker
  <2> QED BY <2>1, <2>2 DEF EndInv, NotYetStarted, Counted, StopOwes, Active, ToStart
<1>4. CASE StopJoin
  <2>1. /\ spc = "join" /\ spc' = "workers" /\ pend' = pend \ {joined}
        /\ UNCHANGED <<table, made, alive, told, pc, reap, add, at, caller, known>>
    BY <1>4 DEF StopJoin
  <2> QED BY <2>1 DEF EndInv, NotYetStarted, Counted, StopOwes, Active, ToStart
<1>5. CASE LoopStop \/ LoopStopped \/ Disconnect
  <2>1. /\ \/ spc = "workers" /\ spc' = "loop" /\ pend = {}
           \/ spc = "loop" /\ spc' = "disconnect"
           \/ spc = "disconnect" /\ spc' = "done"
        /\ UNCHANGED <<table, made, alive, told, pc, reap, add, at, caller, pend, joined, known>>
    BY <1>5 DEF LoopStop, LoopStopped, Disconnect
  <2> QED BY <2>1 DEF EndInv, NotYetStarted, Counted, StopOwes, Active, ToStart
<1> QED BY <1>1, <1>2, <1>3, <1>4, <1>5 DEF Stop

LEMMA EndStepInv == BridgeInv /\ EndInv /\ [Next]_vars => EndInv'
<1> SUFFICES ASSUME BridgeInv, EndInv, [Next]_vars PROVE EndInv'
  OBVIOUS
<1> USE DEF usb, workers, diff, broker, paho, ending
<1>1. CASE UNCHANGED vars
  BY <1>1 DEF vars, EndInv, NotYetStarted, Counted, StopOwes, Active, ToStart
<1>2. CASE Paho \/ Drop
  <2>1. UNCHANGED <<table, made, alive, told, pc, reap, add, at, spc, caller, pend, joined, known>>
    BY <1>2 DEF Paho, Drop, Accepted, Announce, Snapshot, Resubscribe, Connected, Reconnect
  <2> QED BY <2>1 DEF EndInv, NotYetStarted, Counted, StopOwes, Active, ToStart
<1>3. ASSUME Interrupt PROVE EndInv'
  <2>1. /\ table' \subseteq table /\ spc' = "offline" /\ add' = {} /\ pc' = "finally"
        /\ UNCHANGED <<made, alive, pend, known>>
    BY <1>3 DEF Interrupt, Unwind
  <2> QED BY <2>1 DEF EndInv, NotYetStarted, Counted, StopOwes, ToStart
<1>4. ASSUME NEW how \in Stops, StopCall(how) PROVE EndInv'
  <2>1. spc' = "offline" /\ UNCHANGED <<table, made, alive, pc, add, at, pend, known>>
    BY <1>4 DEF StopCall
  <2> QED BY <2>1 DEF EndInv, NotYetStarted, Counted, StopOwes, ToStart
<1>5. ASSUME NEW w \in alive, ThreadEnds(w) PROVE EndInv'
  <2>1. /\ w \in told /\ alive' = alive \ {w} /\ told' = told \ {w}
        /\ UNCHANGED <<table, made, pc, reap, add, at, spc, caller, pend, joined, known>>
    BY <1>5 DEF ThreadEnds
  <2>2. NotYetStarted' /\ Counted'
    BY <2>1 DEF EndInv, NotYetStarted, Counted, ToStart
  <2>3. StopOwes'
    BY <2>1, <1>5 DEF EndInv, NotYetStarted, StopOwes, Active, ToStart
  <2> QED BY <2>2, <2>3 DEF EndInv
<1>6. ASSUME NEW p \in Ports, Unplug(p) \/ \E u \in Units : Plug(u, p) PROVE EndInv'
  <2>1. UNCHANGED <<table, made, alive, told, pc, reap, add, at, spc, caller, pend, joined, known>>
    BY <1>6 DEF Unplug, Plug, Rewire
  <2> QED BY <2>1 DEF EndInv, NotYetStarted, Counted, StopOwes, Active, ToStart
<1> QED BY <1>1, <1>2, <1>3, <1>4, <1>5, <1>6, EndMain, EndStop DEF Next

\* stop(), whoever calls it and wherever main is then: when run() has returned,
\* only what a round popped that Ctrl-C cut, and what was made after the
\* snapshot over main's head, runs on without having been told.
THEOREM NobodyRunsOn == Spec => []NoWorkerOutlivesStop
<1>1. Init => EndInv
  BY DEF Init, EndInv, NotYetStarted, Counted, StopOwes, ToStart
<1>2. BridgeInv /\ EndInv => NoWorkerOutlivesStop
  <2> SUFFICES ASSUME BridgeInv, EndInv, pc = "exited", spc = "done", NEW w \in Active
               PROVE  IF caller = "interrupt" THEN w \in reap ELSE w.gen > known
    BY DEF NoWorkerOutlivesStop
  <2>1. w \in reap \/ w.gen > known
    BY DEF EndInv, StopOwes
  <2>2. CASE caller = "interrupt"
    <3>1. w.gen <= made /\ known = made /\ made \in Nat /\ w.gen \in Nat
      BY <2>2 DEF EndInv, Counted, StopOwes, BridgeInv, TypeOK, Active, Workers
    <3> QED BY <2>1, <2>2, <3>1
  <2>3. CASE caller # "interrupt"
    BY <2>1, <2>3 DEF BridgeInv, ThreadShape
  <2> QED BY <2>2, <2>3
<1> QED BY <1>1, <1>2, BridgeAlways, EndStepInv, PTL DEF Spec
=============================================================================
