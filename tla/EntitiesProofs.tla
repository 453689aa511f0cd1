---------------------------- MODULE EntitiesProofs ----------------------------
(****************************************************************************)
(* For any commands, faults and followed topics: the types of Entities, and *)
(* that the broker ends up with the sliders a command has set.              *)
(****************************************************************************)
EXTENDS Entities, SequenceTheorems, TLAPS

Threads == {"worker", "paho"}
Amounts == 0..(MaxValue + 1)
Caches == [level : Amounts, delay : Amounts, primed : BOOLEAN]
Records == [volume : Amounts, mute : Amounts, level : Amounts, delay : Amounts]

\* The values users and the device know, as the provers need them.
LEMMA Ranges ==
  /\ MaxValue \in Nat \ {0}
  /\ Values \subseteq Amounts /\ 0 \in Values /\ 1 \in Values
  /\ \A v \in Amounts : Clamp(v) \in Values /\ (~(v > MaxValue) => Clamp(v) = v)
  /\ NoCall.val \in Amounts /\ NoCall.topic = "none"
  /\ \A c \in Asked : c.val \in Amounts /\ c.topic \in CommandTopics
  /\ None \notin Amounts
<1>1. MaxValue \in Nat \ {0} /\ None \notin Amounts /\ Asked \subseteq [topic : CommandTopics, val : Amounts]
  BY EntitiesAssumption DEF EntitiesAssumption, Amounts
<1>2. \A v \in Amounts : Clamp(v) \in Values /\ (~(v > MaxValue) => Clamp(v) = v)
  BY <1>1 DEF Clamp, Values, Amounts
<1>3. \A c \in Asked : c.val \in Amounts /\ c.topic \in CommandTopics
  BY <1>1
<1> QED BY <1>1, <1>2, <1>3 DEF Values, NoCall, Amounts

\* The types of the records.
LEMMA Shapes ==
  ASSUME TypeOK
  PROVE  /\ dev \in [Fields -> Values] /\ \A f \in Fields : dev[f] \in Amounts
         /\ cached \in Caches /\ Stored \in Caches /\ Unprimed \in Caches
         /\ held \in Records /\ NoRecord \in Records
         /\ call.val \in Amounts /\ Requested(call) \in Amounts
<1>1. dev \in [Fields -> Values] /\ \A f \in Fields : dev[f] \in Amounts
  BY Ranges DEF TypeOK
<1>2. cached \in Caches /\ Unprimed \in Caches /\ held \in Records /\ NoRecord \in Records
  BY Ranges DEF TypeOK, Caches, Records, Unprimed, NoRecord, Amounts
<1>3. Stored \in Caches
  BY <1>1 DEF Stored, Caches, Fields
<1>4. call.val \in Amounts
  BY Ranges DEF TypeOK
<1>5. Requested(call) \in Amounts
  BY <1>4, Ranges DEF Requested
<1> QED BY <1>1, <1>2, <1>3, <1>4, <1>5

\* A publication is kept or left out.
LEMMA PubIs ==
  ASSUME NEW S, NEW tp, NEW v, NEW q,
         tp \in Followed => [topic |-> tp, val |-> v, qos |-> q] \in S
  PROVE  /\ Pub(tp, v, q) \in Seq(S)
         /\ tp \in Followed => Len(Pub(tp, v, q)) = 1 /\ Pub(tp, v, q)[1].topic = tp
<1>1. CASE tp \in Followed
  <2>1. Pub(tp, v, q) = <<[topic |-> tp, val |-> v, qos |-> q]>>
    BY <1>1 DEF Pub
  <2> QED BY <1>1, <2>1
<1>2. CASE tp \notin Followed
  <2>1. Pub(tp, v, q) = <<>>
    BY <1>2 DEF Pub
  <2> QED BY <1>2, <2>1, EmptySeq
<1> QED BY <1>1, <1>2

\* Publications one behind the other, of a kind.
LEMMA Joined ==
  ASSUME NEW S, NEW s \in Seq(S), NEW r \in Seq(S)
  PROVE  /\ s \o r \in Seq(S)
         /\ Len(s \o r) = Len(s) + Len(r)
         /\ \A i \in 1..Len(s) : i \in 1..Len(s \o r) /\ (s \o r)[i] = s[i]
         /\ \A i \in 1..Len(r) : Len(s) + i \in 1..Len(s \o r) /\ (s \o r)[Len(s) + i] = r[i]
BY ConcatProperties, LenProperties

\* A write stays within the wire's range.
LEMMA WrittenType == TypeOK => Written(call) \in [Fields -> Values]
<1> SUFFICES ASSUME TypeOK, NEW f \in Fields
             PROVE  (IF f = call.topic THEN Clamp(call.val)
                     ELSE IF f \in Record(call.topic) THEN Clamp(held[f]) ELSE dev[f]) \in Values
  BY DEF Written
<1>1. Clamp(call.val) \in Values /\ dev[f] \in Values
  BY Shapes, Ranges
<1>2. f \in Record(call.topic) /\ f # call.topic => f \in {"volume", "mute", "level", "delay"}
  BY DEF Record, Sliders
<1>3. f \in {"volume", "mute", "level", "delay"} => held[f] \in Amounts
  BY Shapes DEF Records
<1> QED BY <1>1, <1>2, <1>3, Ranges

\* What a raised command leaves behind.
LEMMA HalfDoneType ==
  TypeOK => /\ HalfDone \subseteq [Fields -> Values]
            /\ Named \in [Fields -> Values] /\ Wiped \in [Fields -> Values]
<1> SUFFICES ASSUME TypeOK
             PROVE  /\ HalfDone \subseteq [Fields -> Values]
                    /\ Named \in [Fields -> Values] /\ Wiped \in [Fields -> Values]
  OBVIOUS
<1>1. Named \in [Fields -> Values] /\ Wiped \in [Fields -> Values]
  BY Ranges DEF Named, Wiped, TypeOK
<1> QED BY <1>1, WrittenType DEF HalfDone
-----------------------------------------------------------------------------
(* Types *)

LEMMA InitType == Init => TypeOK
<1> SUFFICES ASSUME Init PROVE TypeOK OBVIOUS
<1>1. out \in [{"worker", "paho"} -> Seq(Publications)]
  <2>1. <<>> \in Seq(Publications)
    OBVIOUS
  <2> QED BY <2>1 DEF Init
<1>2. 0 \in 0..MaxEvents
  BY EntitiesAssumption DEF EntitiesAssumption
<1> QED BY <1>1, <1>2, Ranges DEF Init, TypeOK, NoRecord, Unprimed, Amounts

\* A thread's queue is its own.
LEMMA SendType ==
  ASSUME TypeOK, NEW t \in Threads, NEW s \in Seq(Publications), Send(t, s)
  PROVE  /\ out' \in [{"worker", "paho"} -> Seq(Publications)]
         /\ out'[t] = s /\ \A o \in Threads \ {t} : out'[o] = out[o]
BY DEF Send, TypeOK, Threads

\* The worker's initial publications: the sliders with QoS 1.
LEMMA InitialPubs ==
  ASSUME NEW l \in Amounts, NEW d \in Amounts, NEW c \in Amounts,
         NEW S, S = {p \in Publications : /\ p.qos = 1
                                          /\ p.topic = "level" => p.val = l
                                          /\ p.topic = "delay" => p.val = d}
  PROVE  /\ Pub("level", l, 1) \o Pub("delay", d, 1) \in Seq(S)
         /\ (Pub("level", l, 1) \o Pub("delay", d, 1)) \o Pub("doc", c, 1) \in Seq(S)
         /\ \A f \in Sliders \cap Followed :
              \E i \in 1..Len((Pub("level", l, 1) \o Pub("delay", d, 1)) \o Pub("doc", c, 1)) :
                ((Pub("level", l, 1) \o Pub("delay", d, 1)) \o Pub("doc", c, 1))[i].topic = f
<1> DEFINE p1 == Pub("level", l, 1)
           p2 == Pub("delay", d, 1)
           p3 == Pub("doc", c, 1)
<1>1. /\ p1 \in Seq(S) /\ ("level" \in Followed => Len(p1) = 1 /\ p1[1].topic = "level")
      /\ p2 \in Seq(S) /\ ("delay" \in Followed => Len(p2) = 1 /\ p2[1].topic = "delay")
      /\ p3 \in Seq(S)
  <2>1. \A tp \in {"level", "delay", "doc"}, v \in Amounts :
          /\ tp = "level" => v = l
          /\ tp = "delay" => v = d
          /\ tp \in Followed
          => [topic |-> tp, val |-> v, qos |-> 1] \in S
    BY DEF Publications, Amounts
  <2>2. /\ "level" \in Followed => [topic |-> "level", val |-> l, qos |-> 1] \in S
        /\ "delay" \in Followed => [topic |-> "delay", val |-> d, qos |-> 1] \in S
        /\ "doc" \in Followed => [topic |-> "doc", val |-> c, qos |-> 1] \in S
    BY <2>1
  <2> QED BY <2>2, PubIs
<1> HIDE DEF p1, p2, p3
<1>2. p1 \o p2 \in Seq(S) /\ (p1 \o p2) \o p3 \in Seq(S)
  BY <1>1, Joined
<1>3. ASSUME NEW f \in Sliders \cap Followed
      PROVE  \E i \in 1..Len((p1 \o p2) \o p3) : ((p1 \o p2) \o p3)[i].topic = f
  <2>1. PICK i \in 1..Len(p1 \o p2) : (p1 \o p2)[i].topic = f
    <3>1. CASE f = "level"
      <4>1. Len(p1) = 1 /\ p1[1].topic = "level"
        BY <1>1, <3>1
      <4>2. 1 \in 1..Len(p1)
        BY <4>1
      <4>3. 1 \in 1..Len(p1 \o p2) /\ (p1 \o p2)[1] = p1[1]
        BY <1>1, <4>2, Joined
      <4> QED BY <3>1, <4>1, <4>3
    <3>2. CASE f = "delay"
      <4>1. Len(p2) = 1 /\ p2[1].topic = "delay"
        BY <1>1, <3>2
      <4>2. 1 \in 1..Len(p2)
        BY <4>1
      <4>3. Len(p1) + 1 \in 1..Len(p1 \o p2) /\ (p1 \o p2)[Len(p1) + 1] = p2[1]
        BY <1>1, <4>2, Joined
      <4> QED BY <3>2, <4>1, <4>3
    <3> QED BY <3>1, <3>2 DEF Sliders
  <2>2. i \in 1..Len((p1 \o p2) \o p3) /\ ((p1 \o p2) \o p3)[i] = (p1 \o p2)[i]
    BY <1>1, <1>2, Joined
  <2> QED BY <2>1, <2>2
<1> QED BY <1>2, <1>3 DEF p1, p2, p3

\* What the poll publishes is about other topics.
LEMMA PollPubs ==
  ASSUME TypeOK,
         NEW S, S = {p \in Publications : p.topic \notin Sliders}
  PROVE  /\ (Pub("preset", took, 0) \o Pub("volume", dev.volume, 0)) \o Pub("mute", dev.mute, 0) \in Seq(S)
         /\ Pub("doc", dev.level, 1) \o Pub("name", dev.name, 1) \in Seq(S)
<1>1. \A tp \in {"preset", "volume", "mute", "doc", "name"}, v \in Amounts, q \in {0, 1} :
        tp \in Followed => [topic |-> tp, val |-> v, qos |-> q] \in S
  BY DEF Publications, Amounts, Sliders
<1>2. \A tp \in {"preset", "volume", "mute", "doc", "name"}, v \in Amounts, q \in {0, 1} :
        Pub(tp, v, q) \in Seq(S)
  BY <1>1, PubIs
<1>3. /\ dev.level \in Amounts /\ dev.volume \in Amounts /\ dev.mute \in Amounts /\ dev.name \in Amounts
      /\ took \in Amounts
  BY Shapes, Ranges DEF TypeOK, Fields
<1>4. /\ Pub("preset", took, 0) \in Seq(S) /\ Pub("volume", dev.volume, 0) \in Seq(S)
      /\ Pub("mute", dev.mute, 0) \in Seq(S) /\ Pub("doc", dev.level, 1) \in Seq(S)
      /\ Pub("name", dev.name, 1) \in Seq(S)
  BY <1>2, <1>3
<1> QED BY <1>4, Joined

\* What each sending step queues: publications, the sliders' with QoS 1.
Proper == {p \in Publications : p.topic \in Sliders => p.qos = 1}

LEMMA Queues ==
  ASSUME TypeOK,
         NEW t \in Threads, NEW s,
         \/ InitialRead /\ t = "worker" /\ s = (Pub("level", dev.level, 1) \o Pub("delay", dev.delay, 1))
                                                 \o Pub("doc", dev.level, 1)
         \/ InitialCached /\ t = "worker"
            /\ s = Pub("level", cached.level, 1) \o Pub("delay", cached.delay, 1)
         \/ ReadMaster /\ t = "worker" /\ s = (Pub("preset", took, 0) \o Pub("volume", dev.volume, 0))
                                                 \o Pub("mute", dev.mute, 0)
         \/ ReadChannel /\ t = "worker" /\ s = Pub("doc", dev.level, 1) \o Pub("name", dev.name, 1)
         \/ Write /\ t = "paho" /\ s = Echo(call)
  PROVE  /\ s \in Seq(Proper) /\ s \in Seq(Publications)
         /\ out' \in [{"worker", "paho"} -> Seq(Publications)]
         /\ out'[t] = s /\ \A o \in Threads \ {t} : out'[o] = out[o]
<1>1. s \in Seq(Proper)
  <2>1. CASE InitialRead \/ InitialCached
    <3>1. /\ dev.level \in Amounts /\ dev.delay \in Amounts
          /\ cached.level \in Amounts /\ cached.delay \in Amounts
      BY Shapes DEF Fields, Caches
    <3>2. ASSUME NEW l \in Amounts, NEW d \in Amounts, NEW c \in Amounts
          PROVE  /\ Pub("level", l, 1) \o Pub("delay", d, 1) \in Seq(Proper)
                 /\ (Pub("level", l, 1) \o Pub("delay", d, 1)) \o Pub("doc", c, 1) \in Seq(Proper)
      <4>1. \A tp \in {"level", "delay", "doc"}, v \in Amounts :
              tp \in Followed => [topic |-> tp, val |-> v, qos |-> 1] \in Proper
        BY DEF Proper, Publications, Amounts
      <4>2. /\ Pub("level", l, 1) \in Seq(Proper) /\ Pub("delay", d, 1) \in Seq(Proper)
            /\ Pub("doc", c, 1) \in Seq(Proper)
        BY <4>1, PubIs
      <4> QED BY <4>2, Joined
    <3>3. CASE s = (Pub("level", dev.level, 1) \o Pub("delay", dev.delay, 1)) \o Pub("doc", dev.level, 1)
      BY <3>1, <3>2, <3>3
    <3>4. CASE s = Pub("level", cached.level, 1) \o Pub("delay", cached.delay, 1)
      BY <3>1, <3>2, <3>4
    <3> QED BY <2>1, <3>3, <3>4 DEF InitialRead, InitialCached, ReadMaster, ReadChannel, Write, WorkerAt,
                                  WorkerGoes, worker
  <2>2. CASE ReadMaster \/ ReadChannel
    <3>1. /\ (Pub("preset", took, 0) \o Pub("volume", dev.volume, 0)) \o Pub("mute", dev.mute, 0)
               \in Seq({p \in Publications : p.topic \notin Sliders})
          /\ Pub("doc", dev.level, 1) \o Pub("name", dev.name, 1)
               \in Seq({p \in Publications : p.topic \notin Sliders})
      BY PollPubs
    <3>2. s \in Seq({p \in Publications : p.topic \notin Sliders})
      BY <2>2, <3>1 DEF InitialRead, InitialCached, ReadMaster, ReadChannel, Write, WorkerAt,
                        WorkerGoes, worker
    <3>3. {p \in Publications : p.topic \notin Sliders} \subseteq Proper
      BY DEF Proper
    <3> QED BY <3>2, <3>3
  <2>3. CASE Write /\ s = Echo(call)
    <3>1. call.topic \in Followed =>
            [topic |-> call.topic, val |-> Requested(call), qos |-> 1] \in Proper
      BY Shapes DEF Proper, Publications, Amounts
    <3> QED BY <2>3, <3>1, PubIs DEF Echo
  <2> QED BY <2>1, <2>2, <2>3
<1>2. s \in Seq(Publications)
  BY <1>1 DEF Proper
<1>3. Send(t, s)
  BY DEF InitialRead, InitialCached, ReadMaster, ReadChannel, Write
<1> QED BY <1>1, <1>2, <1>3, SendType

LEMMA TypeStep == TypeOK /\ [Next]_vars => TypeOK'
<1> SUFFICES ASSUME TypeOK, [Next]_vars PROVE TypeOK' OBVIOUS
<1>a. /\ MaxValue \in Nat \ {0} /\ Values \subseteq Amounts /\ 0 \in Values /\ 0 \in Amounts
      /\ MaxEvents \in Nat
  BY Ranges, EntitiesAssumption DEF EntitiesAssumption
<1>1. CASE UNCHANGED vars
  BY <1>1 DEF vars, TypeOK
<1>2. ASSUME NEW t \in Threads, Publish(t) PROVE TypeOK'
  <2> DEFINE p == Head(out[t])
  <2>1. /\ out[t] # <<>> /\ out' = [out EXCEPT ![t] = Tail(@)]
        /\ retained' = (IF link THEN [retained EXCEPT ![p.topic] = p.val] ELSE retained)
        /\ unacked' = (IF p.qos = 1 THEN [unacked EXCEPT ![p.topic] = p.val] ELSE unacked)
        /\ UNCHANGED <<device, link, worker, paho, asked, history>>
    BY <1>2 DEF Publish
  <2>2. out[t] \in Seq(Publications)
    BY DEF TypeOK, Threads
  <2>3. p \in Publications /\ Tail(out[t]) \in Seq(Publications)
    BY <2>1, <2>2, HeadTailProperties
  <2>4. p.topic \in Followed /\ p.val \in 0..(MaxValue + 1)
    BY <2>3 DEF Publications
  <2>5. out' \in [{"worker", "paho"} -> Seq(Publications)]
    BY <2>1, <2>3 DEF TypeOK, Threads
  <2>6. /\ retained' \in [Followed -> 0..(MaxValue + 1) \cup {None}]
        /\ unacked' \in [Followed -> 0..(MaxValue + 1) \cup {None}]
    BY <2>1, <2>4 DEF TypeOK
  <2> QED BY <2>1, <2>5, <2>6 DEF TypeOK, device, worker, paho, history
<1>3. CASE Ack \/ Drop \/ Reconnect
  <2>1. /\ UNCHANGED <<device, worker, paho, out, asked, history>> /\ link' \in BOOLEAN
        /\ retained' = retained \/ retained' = [t \in Followed |-> IF unacked[t] = None THEN retained[t]
                                                                   ELSE unacked[t]]
        /\ unacked' = unacked \/ unacked' = [t \in Followed |-> None]
    BY <1>3 DEF Ack, Drop, Reconnect, TypeOK
  <2>2. /\ retained' \in [Followed -> 0..(MaxValue + 1) \cup {None}]
        /\ unacked' \in [Followed -> 0..(MaxValue + 1) \cup {None}]
    BY <2>1 DEF TypeOK
  <2> QED BY <2>1, <2>2 DEF TypeOK, device, worker, paho, history
<1>4. CASE InitialRead \/ InitialCached \/ InitialSkipped
  <2>1. /\ UNCHANGED <<dev, answers, broker, took, paho, asked, events>>
        /\ cached' \in {cached, Stored} /\ shut' \subseteq shut /\ wpc' = "head"
    BY <1>4 DEF InitialRead, InitialCached, InitialSkipped, WorkerGoes, device, history, worker, LetGo
  <2>2. suspect' \in [Sliders -> BOOLEAN]
    <3>1. CASE InitialRead
      BY <3>1 DEF InitialRead, TypeOK, Pending
    <3>2. CASE InitialCached \/ InitialSkipped
      BY <3>2 DEF InitialCached, InitialSkipped, history, TypeOK
    <3> QED BY <1>4, <3>1, <3>2
  <2>3. out' \in [{"worker", "paho"} -> Seq(Publications)]
    <3>1. CASE InitialRead \/ InitialCached
      BY <3>1, Queues DEF Threads
    <3>2. CASE InitialSkipped
      BY <3>2 DEF InitialSkipped, TypeOK
    <3> QED BY <1>4, <3>1, <3>2
  <2>4. cached' \in Caches
    BY <2>1, Shapes
  <2> QED BY <2>1, <2>2, <2>3, <2>4 DEF TypeOK, broker, paho, Caches, Amounts
<1>5. CASE ReadPreset \/ ReadMaster \/ PollFails \/ WorkerDies \/ ReadChannel \/ SkipChannel \/ Wake
  <2>1. /\ UNCHANGED <<dev, answers, broker, paho, asked, history>>
        /\ cached' \in {cached, Stored, Unprimed} /\ took' \in {took, dev.preset, 0}
        /\ wpc' \in {"head", "master", "channel", "sleep", "dead"}
    BY <1>5 DEF ReadPreset, ReadMaster, PollFails, WorkerDies, ReadChannel, SkipChannel, Wake, WorkerGoes,
                device, CloseDevice
  <2>2. out' \in [{"worker", "paho"} -> Seq(Publications)]
    <3>1. CASE ReadMaster \/ ReadChannel
      BY <3>1, Queues DEF Threads
    <3>2. CASE ReadPreset \/ PollFails \/ WorkerDies \/ SkipChannel \/ Wake
      BY <3>2 DEF ReadPreset, PollFails, WorkerDies, SkipChannel, Wake, TypeOK
    <3> QED BY <1>5, <3>1, <3>2
  <2>3. cached' \in Caches /\ took' \in Values
    BY <2>1, <1>a, Shapes DEF TypeOK, Fields
  <2>4. shut' \subseteq {"worker", "paho"}
    BY <1>5 DEF ReadPreset, ReadMaster, PollFails, WorkerDies, ReadChannel, SkipChannel, Wake, TypeOK,
                device, CloseDevice, LetGo
  <2> QED BY <2>1, <2>2, <2>3, <2>4 DEF TypeOK, broker, paho, history, Caches, Amounts
<1>6. CASE Discard \/ Receive \/ \E c \in Asked : Ask(c)
  <2>1. /\ UNCHANGED <<device, broker, worker, held, out, suspect>>
        /\ asked' \in Asked \cup {NoCall} /\ call' \in Asked \cup {NoCall}
        /\ events' = events \/ (events < MaxEvents /\ events' = events + 1)
    BY <1>6 DEF Discard, Receive, Ask, paho, history, TypeOK
  <2>2. ppc' \in {"idle", "prime", "take", "master", "write", "reset", "malformed", "raise", "dead"}
    BY <1>6 DEF Discard, Receive, Ask, paho, TypeOK, FirstStep
  <2>3. events' \in 0..MaxEvents
    BY <2>1, <1>a DEF TypeOK
  <2> QED BY <2>1, <2>2, <2>3 DEF TypeOK, device, broker, worker
<1>7. CASE ReadRecord \/ Prime \/ Take
  <2>1. /\ UNCHANGED <<dev, answers, shut, broker, worker, call, out, asked, history>>
        /\ ppc' = "write" /\ cached' \in {cached, Stored}
        /\ \/ held' = [NoRecord EXCEPT !.volume = dev.volume, !.mute = dev.mute]
           \/ held' = [NoRecord EXCEPT !.level = cached'.level, !.delay = cached'.delay]
    BY <1>7 DEF ReadRecord, Prime, Take, device
  <2>2. cached' \in Caches
    BY <2>1, Shapes
  <2>3. /\ dev.volume \in Amounts /\ dev.mute \in Amounts
        /\ cached'.level \in Amounts /\ cached'.delay \in Amounts
    BY <2>2, Shapes DEF Caches, Fields
  <2>4. held' \in Records
    BY <2>1, <2>3, <1>a DEF NoRecord, Records
  <2> QED BY <2>1, <2>2, <2>4 DEF TypeOK, broker, worker, history, Caches, Records, Amounts
<1>8. CASE Write
  <2>1. /\ dev' = Written(call) \/ dev' = dev
        /\ ppc' = "idle" /\ call' = NoCall /\ held' = NoRecord
        /\ UNCHANGED <<answers, shut, broker, worker, asked, events>>
    BY <1>8 DEF Write
  <2>2. dev' \in [Fields -> Values]
    BY <2>1, WrittenType DEF TypeOK
  <2>3. out' \in [{"worker", "paho"} -> Seq(Publications)]
    BY <1>8, Queues DEF Threads
  <2>4. suspect' \in [Sliders -> BOOLEAN]
    BY <1>8 DEF Write, TypeOK, Excusable
  <2>5. cached' \in Caches
    <3> DEFINE r == [level |-> held.level, delay |-> held.delay, primed |-> TRUE]
    <3>1. held.level \in Amounts /\ held.delay \in Amounts /\ Requested(call) \in Amounts
      BY Shapes DEF Records
    <3>2. CASE call.topic \in Sliders
      <4>1. cached' = [r EXCEPT ![call.topic] = Requested(call)]
        BY <1>8, <3>2 DEF Write
      <4>2. CASE call.topic = "level"
        <5>1. cached' = [r EXCEPT !.level = Requested(call)]
          BY <4>1, <4>2
        <5> QED BY <3>1, <5>1 DEF Caches
      <4>3. CASE call.topic = "delay"
        <5>1. cached' = [r EXCEPT !.delay = Requested(call)]
          BY <4>1, <4>3
        <5> QED BY <3>1, <5>1 DEF Caches
      <4> QED BY <3>2, <4>2, <4>3 DEF Sliders
    <3>3. CASE call.topic \notin Sliders
      BY <1>8, <3>3, Shapes DEF Write
    <3> QED BY <3>2, <3>3
  <2> QED BY <2>1, <2>2, <2>3, <2>4, <2>5, Shapes DEF TypeOK, broker, worker, Caches, Records, Amounts
<1>9. CASE CommandFails \/ Reset
  <2>1. /\ dev' \in {dev, Named, Wiped} \cup HalfDone /\ cached' = Unprimed
        /\ suspect' = Unseen
        /\ ppc' = "idle" /\ call' = NoCall /\ held' \in {held, NoRecord}
        /\ UNCHANGED <<answers, broker, worker, out, asked, events>>
    BY <1>9 DEF CommandFails, Reset, CloseDevice
  <2>2. dev' \in [Fields -> Values]
    BY <2>1, HalfDoneType DEF TypeOK
  <2>3. suspect' \in [Sliders -> BOOLEAN]
    BY <2>1 DEF TypeOK, Unseen
  <2>4. shut' \subseteq {"worker", "paho"}
    BY <1>9 DEF CommandFails, Reset, CloseDevice, TypeOK
  <2>5. cached' \in Caches /\ held' \in Records
    BY <2>1, Shapes
  <2> QED BY <2>1, <2>2, <2>3, <2>4, <2>5 DEF TypeOK, broker, worker, Caches, Records, Amounts
<1>10. CASE Raise
  <2>1. /\ UNCHANGED <<dev, answers, cached, retained, unacked, worker, out, asked, history>>
        /\ ppc' = "dead" /\ call' = NoCall /\ held' = NoRecord /\ link' = FALSE /\ shut' \subseteq shut
    BY <1>10 DEF Raise, LetGo
  <2> QED BY <2>1, Shapes DEF TypeOK, worker, history, Records, Amounts
<1>11. CASE Silent \/ \E f \in Fields \cap Followed : Panel(f)
  <2>1. /\ UNCHANGED <<cached, shut, broker, worker, paho, out, asked>> /\ answers' \in BOOLEAN
        /\ dev' = dev \/ \E f \in Fields : \E v \in Values : dev' = [dev EXCEPT ![f] = v]
        /\ suspect' = suspect \/ suspect' = Unseen
        /\ events' = events \/ (events < MaxEvents /\ events' = events + 1)
    BY <1>11 DEF Silent, Panel, TypeOK, history
  <2>2. dev' \in [Fields -> Values]
    BY <2>1 DEF TypeOK
  <2>3. events' \in 0..MaxEvents
    BY <2>1, <1>a DEF TypeOK
  <2>4. suspect' \in [Sliders -> BOOLEAN]
    BY <2>1 DEF TypeOK, Unseen
  <2> QED BY <2>1, <2>2, <2>3, <2>4 DEF TypeOK, broker, worker, paho
<1> QED BY <1>1, <1>2, <1>3, <1>4, <1>5, <1>6, <1>7, <1>8, <1>9, <1>10, <1>11 DEF Next, Worker, Handler,
                                                                             Threads

\* The variables of the worker, of paho's thread, of the broker and of the
\* device keep their types, whatever is asked and whatever fails.
THEOREM TypeCorrect == Spec => []TypeOK
BY InitType, TypeStep, PTL DEF Spec
-----------------------------------------------------------------------------
(* The sliders *)

\* Queues of properly made publications are of the shape the invariant wants.
LEMMA ProperShape ==
  ASSUME NEW s \in Seq(Proper)
  PROVE  \A i \in 1..Len(s) : s[i].topic \in Sliders => s[i].qos = 1
<1>1. \A i \in 1..Len(s) : s[i] \in Proper
  OBVIOUS
<1> QED BY <1>1 DEF Proper

\* A step either sends, or publishes, or leaves the queues alone; paho's
\* thread takes a command when its queue is empty only.
LEMMA ShapeStep ==
  ASSUME TypeOK, PubShape, Next
  PROVE  PubShape'
<1>1. ASSUME NEW t \in Threads, NEW s \in Seq(Proper), out'[t] = s,
             \A o \in Threads \ {t} : out'[o] = out[o],
             ppc' # "idle" => t = "worker" /\ ppc # "idle"
      PROVE  PubShape'
  <2>1. \A o \in Threads : \A i \in 1..Len(out'[o]) : out'[o][i].topic \in Sliders => out'[o][i].qos = 1
    BY <1>1, ProperShape DEF PubShape, Threads
  <2>2. ppc' # "idle" => out'["paho"] = <<>>
    BY <1>1 DEF PubShape, Threads
  <2> QED BY <2>1, <2>2 DEF PubShape, Threads
<1>2. CASE InitialRead \/ InitialCached \/ ReadMaster \/ ReadChannel
  <2>1. ppc' = ppc
    BY <1>2 DEF InitialRead, InitialCached, ReadMaster, ReadChannel, paho
  <2>2. \E s \in Seq(Proper) : out'["worker"] = s /\ \A o \in Threads \ {"worker"} : out'[o] = out[o]
    BY <1>2, Queues DEF Threads
  <2> QED BY <1>1, <2>1, <2>2 DEF Threads
<1>3. CASE Write
  <2>1. ppc' = "idle"
    BY <1>3 DEF Write
  <2>2. \E s \in Seq(Proper) : out'["paho"] = s /\ \A o \in Threads \ {"paho"} : out'[o] = out[o]
    BY <1>3, Queues DEF Threads
  <2> QED BY <1>1, <2>1, <2>2 DEF Threads
<1>4. ASSUME NEW t \in Threads, Publish(t) PROVE PubShape'
  <2>1. /\ out[t] # <<>> /\ out' = [out EXCEPT ![t] = Tail(@)] /\ ppc' = ppc
    BY <1>4 DEF Publish, paho
  <2>2. out[t] \in Seq(Publications) /\ out \in [{"worker", "paho"} -> Seq(Publications)]
    BY DEF TypeOK, Threads
  <2>3. \A i \in 1..Len(Tail(out[t])) : i + 1 \in 1..Len(out[t]) /\ Tail(out[t])[i] = out[t][i + 1]
    BY <2>1, <2>2, HeadTailProperties, EmptySeq, LenProperties
  <2>4. out'[t] = Tail(out[t]) /\ \A o \in Threads \ {t} : out'[o] = out[o]
    BY <2>1, <2>2 DEF Threads
  <2>5. \A o \in Threads : \A i \in 1..Len(out'[o]) : out'[o][i].topic \in Sliders => out'[o][i].qos = 1
    <3>1. \A o \in Threads : \A i \in 1..Len(out'[o]) : \E k \in 1..Len(out[o]) : out'[o][i] = out[o][k]
      BY <2>3, <2>4
    <3> QED BY <3>1 DEF PubShape, Threads
  <2>6. ppc' # "idle" => out'["paho"] = <<>>
    BY <2>1, <2>4 DEF PubShape, Threads
  <2> QED BY <2>5, <2>6 DEF PubShape, Threads
<1>5. ASSUME out' = out, ppc' # "idle" => out["paho"] = <<>> PROVE PubShape'
  BY <1>5 DEF PubShape
<1>6. CASE \/ InitialSkipped \/ ReadPreset \/ PollFails \/ WorkerDies \/ SkipChannel \/ Wake
           \/ Ack \/ Drop \/ Reconnect \/ Silent \/ Discard
           \/ \E c \in Asked : Ask(c)
           \/ \E f \in Fields \cap Followed : Panel(f)
  <2>1. out' = out /\ ppc' = ppc
    BY <1>6 DEF InitialSkipped, ReadPreset, PollFails, WorkerDies, SkipChannel, Wake, Ack, Drop, Reconnect,
                Silent, Discard, Ask, Panel, paho
  <2> QED BY <1>5, <2>1 DEF PubShape
<1>7. CASE ReadRecord \/ Prime \/ Take \/ CommandFails \/ Reset \/ Raise \/ Receive
  <2>1. out' = out /\ (ppc # "idle" \/ out["paho"] = <<>>)
    BY <1>7 DEF ReadRecord, Prime, Take, CommandFails, Reset, Raise, Receive
  <2> QED BY <1>5, <2>1 DEF PubShape
<1> QED BY <1>2, <1>3, <1>4, <1>6, <1>7 DEF Next, Worker, Handler, Threads

\* A step that publishes nothing keeps the slider on its way, or makes it
\* suspect.
LEMMA Quiet ==
  ASSUME NEW f \in Sliders \cap Followed, Tracked(f), UNCHANGED <<out, retained, unacked>>,
         link' => link, wpc' = "initial" => wpc = "initial",
         suspect'[f] \/ (suspect'[f] = suspect[f] /\ dev'[f] = dev[f]),
         wpc' = "initial" => suspect'[f] \/ suspect'[f] = suspect[f]
  PROVE  Tracked(f)'
BY DEF Tracked, OnItsWay, In

\* A thread with nothing queued sends publications of other topics.
LEMMA SendOther ==
  ASSUME TypeOK, NEW f \in Sliders \cap Followed, Tracked(f), NEW t \in Threads, NEW s,
         out[t] = <<>>, out'[t] = s, \A o \in Threads \ {t} : out'[o] = out[o],
         \A i \in 1..Len(s) : s[i].topic # f,
         UNCHANGED <<retained, unacked, link, wpc>>, suspect'[f] \/ UNCHANGED <<suspect[f], dev[f]>>
  PROVE  Tracked(f)'
<1>1. \A o \in Threads : \A i \in 1..Len(out'[o]) :
        out'[o][i].topic = f => i \in 1..Len(out[o]) /\ out'[o][i] = out[o][i]
  OBVIOUS
<1>2. \A o \in Threads : In(f, o) => \E i \in 1..Len(out'[o]) : out'[o][i].topic = f
  <2> SUFFICES ASSUME NEW o \in Threads, In(f, o) PROVE \E i \in 1..Len(out'[o]) : out'[o][i].topic = f
    OBVIOUS
  <2>1. o # t
    BY EmptySeq DEF In
  <2> QED BY <2>1 DEF In
<1>3. ASSUME ~suspect'[f] PROVE OnItsWay(f)'
  <2>1. OnItsWay(f) /\ dev'[f] = dev[f]
    BY <1>3 DEF Tracked
  <2>2. \A o \in Threads : \A i \in 1..Len(out'[o]) : out'[o][i].topic = f => out'[o][i].val = dev'[f]
    BY <1>1, <2>1 DEF OnItsWay, Threads
  <2> QED BY <1>2, <2>1, <2>2 DEF OnItsWay, In, Threads
<1> QED BY <1>3 DEF Tracked

\* The worker's first read publishes every slider anew.
LEMMA InitialStep ==
  ASSUME TypeOK, NEW f \in Sliders \cap Followed, Tracked(f), InitialRead
  PROVE  Tracked(f)'
<1> DEFINE s == (Pub("level", dev.level, 1) \o Pub("delay", dev.delay, 1)) \o Pub("doc", dev.level, 1)
           S == {p \in Publications : /\ p.qos = 1
                                      /\ p.topic = "level" => p.val = dev.level
                                      /\ p.topic = "delay" => p.val = dev.delay}
<1>1. /\ wpc' = "head" /\ UNCHANGED <<dev, retained, unacked, link>>
      /\ suspect'[f] = (suspect[f] /\ f \in Followed /\ Pending(f))
      /\ suspect[f]
  BY DEF InitialRead, WorkerAt, WorkerGoes, broker, Tracked, Sliders
<1>2. dev.level \in Amounts /\ dev.delay \in Amounts
  BY Shapes DEF Fields
<1>3. s \in Seq(S) /\ \E i \in 1..Len(s) : s[i].topic = f
  BY <1>2, InitialPubs
<1>4. out'["worker"] = s /\ out'["paho"] = out["paho"]
  BY Queues DEF Threads
<1>5. \A i \in 1..Len(s) : s[i] \in S
  BY <1>3
<1> HIDE DEF s
<1>6. ASSUME ~suspect'[f] PROVE OnItsWay(f)'
  <2>1. \A i \in 1..Len(out["paho"]) : out["paho"][i].topic # f
    BY <1>1, <1>6 DEF Pending, TypeOK
  <2>2. \A i \in 1..Len(s) : s[i].topic = f => s[i].val = dev[f]
    BY <1>5 DEF Sliders
  <2> QED BY <1>1, <1>3, <1>4, <2>1, <2>2 DEF OnItsWay, In
<1> QED BY <1>1, <1>6 DEF Tracked

\* A command's write: its echo is the value the device holds, or the slider is
\* excused; the record's other slider is excused when it changes.
LEMMA WriteStep ==
  ASSUME TypeOK, PubShape, NEW f \in Sliders \cap Followed, Tracked(f),
         {"range", "early", "dropped", "clobber"} \subseteq Excused, Write
  PROVE  Tracked(f)'
<1> DEFINE s == Echo(call)
<1>1. /\ out["paho"] = <<>> /\ UNCHANGED <<retained, unacked, link, wpc>>
      /\ suspect'[f] = (IF call.topic = f THEN Excusable(f)
                        ELSE suspect[f] \/ ("clobber" \in Excused /\ dev'[f] # dev[f]))
  BY DEF Write, PubShape, broker, worker
<1>2. out'["paho"] = s /\ out'["worker"] = out["worker"]
  BY Queues DEF Threads
<1>3. call.val \in Amounts /\ Requested(call) \in Amounts
  BY Shapes
<1>4. /\ s \in Seq({[topic |-> call.topic, val |-> Requested(call), qos |-> 1]})
      /\ call.topic \in Followed => Len(s) = 1 /\ s[1].topic = call.topic
  <2> DEFINE only == {[topic |-> call.topic, val |-> Requested(call), qos |-> 1]}
             p == Pub(call.topic, Requested(call), 1)
  <2>1. call.topic \in Followed => [topic |-> call.topic, val |-> Requested(call), qos |-> 1] \in only
    OBVIOUS
  <2>2. s = p
    BY DEF Echo
  <2> HIDE DEF s, only
  <2>3. p \in Seq(only) /\ (call.topic \in Followed => Len(p) = 1 /\ p[1].topic = call.topic)
    BY <2>1, PubIs
  <2> HIDE DEF p
  <2> QED BY <2>2, <2>3 DEF only
<1> HIDE DEF s
<1>5. \A i \in 1..Len(s) : s[i] = [topic |-> call.topic, val |-> Requested(call), qos |-> 1]
  BY <1>4
<1>6. CASE call.topic # f
  <2>1. \A i \in 1..Len(s) : s[i].topic # f
    BY <1>5, <1>6
  <2>2. suspect'[f] \/ UNCHANGED <<suspect[f], dev[f]>>
    <3>1. suspect' \in [Sliders -> BOOLEAN] /\ suspect \in [Sliders -> BOOLEAN]
      BY TypeStep DEF TypeOK, Next, Handler
    <3> QED BY <1>1, <1>6, <3>1
  <2> QED BY <1>1, <1>2, <2>1, <2>2, SendOther DEF Threads
<1>7. CASE call.topic = f
  <2>1. wpc' = "initial" => suspect'[f]
    BY <1>1, <1>7 DEF Excusable
  <2>2. ASSUME ~suspect'[f] PROVE OnItsWay(f)'
    <3>1. /\ ~(Requested(call) > MaxValue) /\ dev'[f] = Clamp(call.val)
          /\ \A i \in 1..Len(out["worker"]) : out["worker"][i].topic # f
      BY <1>1, <1>7, <2>2 DEF Excusable, TypeOK
    <3>2. dev'[f] = Requested(call)
      BY <1>3, <3>1, Ranges DEF Requested
    <3>3. \E i \in 1..Len(s) : s[i].topic = f
      <4>1. Len(s) = 1 /\ s[1].topic = f
        BY <1>4, <1>7
      <4> QED BY <4>1
    <3> QED BY <1>2, <1>5, <3>1, <3>2, <3>3 DEF OnItsWay, In
  <2> QED BY <1>1, <2>1, <2>2 DEF Tracked
<1> QED BY <1>6, <1>7

\* A publication leaves its queue.
LEMMA PublishStep ==
  ASSUME TypeOK, PubShape, NEW f \in Sliders \cap Followed, Tracked(f), NEW t \in Threads, Publish(t)
  PROVE  Tracked(f)'
<1> DEFINE p == Head(out[t])
<1>1. /\ out[t] # <<>> /\ out' = [out EXCEPT ![t] = Tail(@)]
      /\ retained' = (IF link THEN [retained EXCEPT ![p.topic] = p.val] ELSE retained)
      /\ unacked' = (IF p.qos = 1 THEN [unacked EXCEPT ![p.topic] = p.val] ELSE unacked)
      /\ UNCHANGED <<dev, link, wpc, ppc, suspect>>
  BY DEF Publish, device, worker, paho, history
<1>2. /\ out[t] \in Seq(Publications) /\ out \in [{"worker", "paho"} -> Seq(Publications)]
      /\ retained \in [Followed -> 0..(MaxValue + 1) \cup {None}]
      /\ unacked \in [Followed -> 0..(MaxValue + 1) \cup {None}]
  BY DEF TypeOK, Threads
<1>3. /\ p \in Publications /\ p = out[t][1] /\ 1 \in 1..Len(out[t])
      /\ Len(Tail(out[t])) = Len(out[t]) - 1 /\ Len(out[t]) \in Nat
      /\ \A i \in 1..Len(Tail(out[t])) : i + 1 \in 1..Len(out[t]) /\ Tail(out[t])[i] = out[t][i + 1]
  BY <1>1, <1>2, HeadTailProperties, EmptySeq, LenProperties
<1>4. p.topic \in Followed /\ p.val \in Amounts /\ p.val # None
  BY <1>3, Ranges DEF Publications, Amounts
<1>5. out'[t] = Tail(out[t]) /\ \A o \in Threads \ {t} : out'[o] = out[o]
  BY <1>1, <1>2 DEF Threads
<1> HIDE DEF p
<1>6. \A o \in Threads : \A i \in 1..Len(out'[o]) : \E k \in 1..Len(out[o]) : out'[o][i] = out[o][k]
  BY <1>3, <1>5
<1>7. p.topic = f => p.qos = 1 /\ unacked'[f] = p.val /\ (link => retained'[f] = p.val)
  <2> SUFFICES ASSUME p.topic = f
               PROVE  p.qos = 1 /\ unacked'[f] = p.val /\ (link => retained'[f] = p.val)
    OBVIOUS
  <2>1. p.qos = 1
    BY <1>3 DEF PubShape, Threads
  <2> QED BY <1>1, <1>2, <2>1
<1>8. p.topic # f => unacked'[f] = unacked[f] /\ retained'[f] = retained[f]
  BY <1>1, <1>2
<1>9. link' /\ unacked'[f] # None => retained'[f] = unacked'[f]
  BY <1>1, <1>7, <1>8 DEF Tracked
<1>10. ASSUME OnItsWay(f) PROVE OnItsWay(f)'
  <2>1. \A o \in Threads : \A i \in 1..Len(out'[o]) : out'[o][i].topic = f => out'[o][i].val = dev'[f]
    BY <1>1, <1>6, <1>10 DEF OnItsWay, Threads
  <2>2. p.topic = f => p.val = dev[f]
    BY <1>3, <1>10 DEF OnItsWay, Threads
  <2>3. p.topic # f => \A o \in Threads : In(f, o) => In(f, o)'
    <3> SUFFICES ASSUME p.topic # f, NEW o \in Threads, In(f, o) PROVE In(f, o)'
      OBVIOUS
    <3>1. PICK k \in 1..Len(out[o]) : out[o][k].topic = f
      BY DEF In
    <3>2. CASE o # t
      BY <1>5, <3>1, <3>2 DEF In
    <3>3. CASE o = t
      <4>1. k # 1
        BY <1>3, <3>1, <3>3
      <4>2. k - 1 \in 1..Len(out'[t]) /\ out'[t][k - 1] = out[t][(k - 1) + 1]
        BY <1>3, <1>5, <3>1, <3>3, <4>1
      <4>3. (k - 1) + 1 = k
        OBVIOUS
      <4> QED BY <3>1, <3>3, <4>2, <4>3 DEF In
    <3> QED BY <3>2, <3>3
  <2>4. ~In(f, "worker")' /\ ~In(f, "paho")' =>
          IF unacked'[f] = None THEN retained'[f] = dev'[f] ELSE unacked'[f] = dev'[f]
    <3>1. CASE p.topic = f
      BY <1>1, <1>4, <1>7, <2>2, <3>1
    <3>2. CASE p.topic # f
      <4>1. ~In(f, "worker")' /\ ~In(f, "paho")' => ~In(f, "worker") /\ ~In(f, "paho")
        BY <2>3, <3>2 DEF Threads
      <4> QED BY <1>1, <1>8, <1>10, <3>2, <4>1 DEF OnItsWay
    <3> QED BY <3>1, <3>2
  <2> QED BY <2>1, <2>4 DEF OnItsWay, Threads
<1> QED BY <1>1, <1>9, <1>10 DEF Tracked

\* The broker acknowledges, or hears again what it did not acknowledge.
LEMMA BrokerStep ==
  ASSUME NEW f \in Sliders \cap Followed, Tracked(f), Ack \/ Reconnect
  PROVE  Tracked(f)'
<1>1. UNCHANGED <<dev, wpc, out, suspect>>
  BY DEF Ack, Reconnect, device, worker, history
<1>2. \/ link /\ link' /\ retained'[f] = retained[f] /\ unacked'[f] = None
      \/ /\ unacked'[f] = unacked[f]
         /\ retained'[f] = IF unacked[f] = None THEN retained[f] ELSE unacked[f]
  BY DEF Ack, Reconnect
<1>3. OnItsWay(f) => OnItsWay(f)'
  BY <1>1, <1>2 DEF Tracked, OnItsWay, In
<1> QED BY <1>1, <1>2, <1>3 DEF Tracked

\* What each step does to a slider.
LEMMA SliderStep ==
  ASSUME TypeOK, PubShape, NEW f \in Sliders \cap Followed, Tracked(f),
         {"range", "early", "dropped", "clobber"} \subseteq Excused, Next
  PROVE  Tracked(f)'
<1>1. ASSUME NEW t \in Threads, Publish(t) PROVE Tracked(f)'
  BY <1>1, PublishStep
<1>2. CASE InitialRead
  BY <1>2, InitialStep
<1>3. CASE InitialCached
  <2>1. wpc = "initial" /\ wpc' = "head" /\ UNCHANGED <<retained, unacked, link, suspect>>
    BY <1>3 DEF InitialCached, WorkerAt, WorkerGoes, broker, history
  <2> QED BY <2>1 DEF Tracked
<1>4. CASE ReadMaster \/ ReadChannel
  <2>1. /\ out["worker"] = <<>> /\ wpc # "initial" /\ wpc' # "initial"
        /\ UNCHANGED <<retained, unacked, link, suspect, dev>>
    BY <1>4 DEF ReadMaster, ReadChannel, WorkerAt, WorkerGoes, broker, history, device
  <2>2. /\ \A i \in 1..Len(out'["worker"]) : out'["worker"][i].topic # f
        /\ \A o \in Threads \ {"worker"} : out'[o] = out[o]
    <3>1. /\ (Pub("preset", took, 0) \o Pub("volume", dev.volume, 0)) \o Pub("mute", dev.mute, 0)
               \in Seq({p \in Publications : p.topic \notin Sliders})
          /\ Pub("doc", dev.level, 1) \o Pub("name", dev.name, 1)
               \in Seq({p \in Publications : p.topic \notin Sliders})
      BY PollPubs
    <3>2. /\ out'["worker"] \in Seq({p \in Publications : p.topic \notin Sliders})
          /\ \A o \in Threads \ {"worker"} : out'[o] = out[o]
      BY <1>4, <3>1, Queues DEF Threads
    <3>3. \A i \in 1..Len(out'["worker"]) : out'["worker"][i] \in {p \in Publications : p.topic \notin Sliders}
      BY <3>2
    <3> QED BY <3>2, <3>3
  <2>3. ASSUME ~suspect'[f] PROVE OnItsWay(f)'
    <3>1. OnItsWay(f) /\ ~In(f, "worker") /\ ~In(f, "worker")' /\ out'["paho"] = out["paho"]
      BY <2>1, <2>2, <2>3, EmptySeq DEF Tracked, In, Threads
    <3> QED BY <2>1, <2>2, <3>1 DEF OnItsWay, In
  <2> QED BY <2>1, <2>3 DEF Tracked
<1>5. CASE Write
  BY <1>5, WriteStep
<1>6. CASE Ack \/ Reconnect
  BY <1>6, BrokerStep
<1>7. CASE \/ InitialSkipped \/ ReadPreset \/ PollFails \/ WorkerDies \/ SkipChannel \/ Wake
           \/ ReadRecord \/ Prime \/ Take \/ Raise \/ Receive \/ Discard \/ Drop \/ Silent
           \/ \E c \in Asked : Ask(c)
  <2>1. /\ UNCHANGED <<out, retained, unacked, suspect, dev>> /\ (link' => link)
        /\ wpc' = "initial" => wpc = "initial"
    BY <1>7 DEF InitialSkipped, ReadPreset, PollFails, WorkerDies, SkipChannel, Wake, WorkerGoes,
                ReadRecord, Prime, Take, Raise, Receive, Discard, Drop, Silent, Ask,
                device, broker, worker, history
  <2> QED BY <2>1, Quiet
<1>8. CASE CommandFails \/ Reset \/ \E g \in Fields \cap Followed : Panel(g)
  <2>1. UNCHANGED <<out, retained, unacked, link, wpc>> /\ suspect' = Unseen
    BY <1>8 DEF CommandFails, Reset, Panel, broker, worker
  <2>2. suspect'[f] = (suspect[f] \/ dev'[f] # dev[f]) /\ suspect[f] \in BOOLEAN
    BY <2>1 DEF Unseen, TypeOK
  <2>3. wpc' = "initial" => suspect'[f]
    BY <2>1, <2>2 DEF Tracked
  <2> QED BY <2>1, <2>2, <2>3, Quiet
<1> QED BY <1>1, <1>2, <1>3, <1>4, <1>5, <1>6, <1>7, <1>8 DEF Next, Worker, Handler, Threads

\* Once the worker has started, QoS 1, the clamping and the order of the steps
\* bring every slider that a command set to the broker, through dropped
\* connections, lost acknowledgements, a silent device and Devices closed under
\* a thread; what the causes name is excused, and only that.
THEOREM SlidersArrive ==
  ASSUME Excused = {"range", "early", "dropped", "clobber"}
  PROVE  Spec => []SlidersAreShown
<1>1. Init => EntitiesInv
  <2> SUFFICES ASSUME Init PROVE EntitiesInv OBVIOUS
  <2>1. /\ \A f \in Sliders : suspect[f]
        /\ \A f \in Followed : unacked[f] = None
        /\ \A t \in {"worker", "paho"} : out[t] = <<>>
        /\ ppc = "idle"
    BY DEF Init
  <2>2. PubShape /\ \A f \in Sliders \cap Followed : Tracked(f)
    BY <2>1 DEF PubShape, Tracked
  <2> QED BY <2>2, InitType DEF EntitiesInv
<1>2. EntitiesInv /\ [Next]_vars => EntitiesInv'
  <2> SUFFICES ASSUME EntitiesInv, [Next]_vars PROVE EntitiesInv' OBVIOUS
  <2>1. TypeOK'
    BY TypeStep DEF EntitiesInv
  <2>2. CASE UNCHANGED vars
    BY <2>1, <2>2 DEF vars, EntitiesInv, PubShape, Tracked, OnItsWay, In
  <2>3. CASE Next
    BY <2>1, <2>3, ShapeStep, SliderStep DEF EntitiesInv
  <2> QED BY <2>2, <2>3
<1>3. EntitiesInv => SlidersAreShown
  <2> SUFFICES ASSUME EntitiesInv, NEW f \in Sliders \cap Followed, ~suspect[f], ~Pending(f)
               PROVE  retained[f] = dev[f]
    BY DEF SlidersAreShown
  <2>1. ~In(f, "worker") /\ ~In(f, "paho") /\ unacked[f] = None /\ Tracked(f)
    BY DEF Pending, In, EntitiesInv, TypeOK
  <2> QED BY <2>1 DEF Tracked, OnItsWay
<1> QED BY <1>1, <1>2, <1>3, PTL DEF Spec
===============================================================================
