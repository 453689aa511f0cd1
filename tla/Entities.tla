------------------------------ MODULE Entities ------------------------------
(***************************************************************************)
(* What Home Assistant sees of one DSP: the retained topics a DeviceWorker *)
(* of dsp408.mqtt publishes, the commands it is sent, and the device they  *)
(* are about.  Two threads meet: the worker's (publish_initial_cached_     *)
(* state, then _poll_once for ever) and paho's (handle_command).  A read   *)
(* of the device, a write to it and a publication are one step each: what  *)
(* a thread read may be old when it publishes it.                          *)
(*                                                                         *)
(* A field of the device stands for those that are treated alike: "level"  *)
(* for volume, mute and phase of an output, which share a record on the    *)
(* wire with its "delay"; "name" for the name of an output and the phase   *)
(* of an input.  RoutingMirror has the mixer, ChannelCache what two        *)
(* threads do to the channel cache; here a read stores what it read.       *)
(***************************************************************************)
EXTENDS Naturals, Sequences, FiniteSets

CONSTANTS
  Asked,      \* commands users give: records [topic, val]
  MaxValue,   \* largest value the device stores; users may ask for one more
  MaxEvents,  \* bound: commands and changes at the panel together
  Excused,    \* causes for which SlidersAreShown makes no promise: a level out
              \* of "range", a command "early" in the worker's life, a write that
              \* is "dropped", a "clobber" of the record's other field
  Faults,     \* "usb" exchanges may fail, "acklost" only their answer is lost,
              \* "dropped" channel writes are acknowledged and dropped, "drop" the
              \* broker's connection breaks, "panel" somebody else changes the
              \* device (its remote control, a preset it loads)
  Followed,   \* state topics this instance follows
  None        \* no value

Values == 0..MaxValue
Fields == {"preset", "volume", "mute", "level", "delay", "name"}
Sliders == {"level", "delay"}

\* What the topics are about.
StateTopics == Fields \cup {"doc", "doc/state"}
CommandTopics == Fields \cup {"reset", "load", "malformed"}

ASSUME EntitiesAssumption ==
  /\ MaxValue \in Nat \ {0} /\ MaxEvents \in Nat
  /\ Asked \subseteq [topic : CommandTopics, val : 0..(MaxValue + 1)]
  /\ Excused \subseteq {"range", "early", "dropped", "clobber"}
  /\ Faults \subseteq {"usb", "acklost", "dropped", "drop", "panel"}
  /\ Followed \subseteq StateTopics
  /\ None \notin 0..(MaxValue + 1)

VARIABLES
  dev,       \* the device's fields
  answers,   \* exchanges with the device are answered
  cached,    \* the Device's channel cache, and whether it is primed
  shut,      \* threads whose Device the other thread has closed
  retained,  \* the broker's retained value of each topic
  link,      \* the connection to the broker is up
  unacked,   \* per topic, the last QoS 1 publication the broker did not ack
  wpc,       \* where the worker's thread is
  took,      \* the preset's name its poll has read and not published yet
  ppc,       \* where paho's thread is
  call,      \* the command it handles
  held,      \* the other field of the record it is going to write
  out,       \* publications each thread still has to make, in order
  asked,     \* the command a user gave and nobody received yet
  suspect,   \* history: a slider changed, or failed, without a publication
  events     \* commands and changes so far

vars == <<dev, answers, cached, shut, retained, link, unacked, wpc, took, ppc, call, held, out,
          asked, suspect, events>>
device == <<dev, answers, cached, shut>>
broker == <<retained, link, unacked>>
worker == <<wpc, took>>
paho == <<ppc, call, held>>
history == <<suspect, events>>

Publications == [topic : Followed, val : 0..(MaxValue + 1), qos : {0, 1}]

\* A publication, of which only those on followed topics are kept.
Pub(topic, val, qos) ==
  IF topic \in Followed THEN <<[topic |-> topic, val |-> val, qos |-> qos]>> ELSE <<>>
NoCall == [topic |-> "none", val |-> 0]
NoRecord == [volume |-> 0, mute |-> 0, level |-> 0, delay |-> 0]

\* _channel_cache: the defaults of a new Device, and what get_channel stores.
Unprimed == [level |-> 0, delay |-> 0, primed |-> FALSE]
Stored == [level |-> dev.level, delay |-> dev.delay, primed |-> TRUE]

-----------------------------------------------------------------------------
(* The tables of topics *)

\* build_discovery_payload: the cmd_t of each component.
Announced == CommandTopics

\* subscribe_commands: the topics the broker is asked for.  A payload that
\* does not parse is a topic of its own here.
Subscribed == CommandTopics \ {"name"}

\* Topics whose state _poll_once publishes again and again; the field of each.
Polled == {"preset", "volume", "mute", "name"}

\* Faulty variant: one value too many.
ClampNothing(v) == v

\* The setters clamp to what the wire carries (set_master, _channel_payload).
Clamp(v) == IF v > MaxValue THEN MaxValue ELSE v

-----------------------------------------------------------------------------
Init ==
  /\ dev = [f \in Fields |-> 1]
  /\ answers = TRUE
  /\ cached = Unprimed
  /\ shut = {}
  /\ retained = [t \in Followed |-> None]
  /\ link = TRUE
  /\ unacked = [t \in Followed |-> None]
  /\ wpc = "initial" /\ took = 0
  /\ ppc = "idle" /\ call = NoCall /\ held = NoRecord
  /\ out = [t \in {"worker", "paho"} |-> <<>>]
  /\ asked = NoCall
  /\ suspect = [f \in Sliders |-> TRUE]
  /\ events = 0

\* An exchange of thread t fails: it may while the device does not answer, it
\* will if the thread's Device was closed under it.
Fails(t) == t \in shut \/ ("usb" \in Faults /\ ~answers)

\* Where each thread may have a Device in hand.
Using(t) ==
  IF t = "worker" THEN wpc \in {"initial", "head", "master", "channel"}
                  ELSE ppc \in {"prime", "take", "master", "write", "reset"}

\* A thread lets go of its Device.
LetGo(t) == shut' = shut \ {t}

\* _close_device: the next _ensure_device makes a Device with an empty channel
\* cache.  The other thread may have the closed one in hand.
CloseDevice(t) ==
  /\ cached' = Unprimed
  /\ \E others \in SUBSET {o \in {"worker", "paho"} \ {t} : Using(o)} :
       shut' = (shut \ {t}) \cup others

\* A publication of the slider is on its way.
Pending(f) ==
  \/ call.topic = f
  \/ unacked[f] # None
  \/ \E t \in DOMAIN out : \E i \in DOMAIN out[t] : out[t][i].topic = f

-----------------------------------------------------------------------------
(* Publications *)

\* A thread is about to make these publications.
Send(t, pubs) == out' = [out EXCEPT ![t] = pubs]

\* A publication reaches the broker if the connection is up; paho repeats a
\* QoS 1 publication after a reconnection until the broker acknowledged it.
Publish(t) ==
  LET p == Head(out[t])
  IN  /\ out[t] # <<>>
      /\ out' = [out EXCEPT ![t] = Tail(@)]
      /\ retained' = IF link THEN [retained EXCEPT ![p.topic] = p.val] ELSE retained
      /\ unacked' = IF p.qos = 1 THEN [unacked EXCEPT ![p.topic] = p.val] ELSE unacked
      /\ UNCHANGED <<device, link, worker, paho, asked, history>>

\* The broker acknowledges what it has got.
Ack ==
  /\ link
  /\ \E t \in Followed : unacked[t] # None
  /\ unacked' = [t \in Followed |-> None]
  /\ UNCHANGED <<device, retained, link, worker, paho, out, asked, history>>

Drop ==
  /\ "drop" \in Faults
  /\ link
  /\ link' = FALSE
  /\ UNCHANGED <<device, retained, unacked, worker, paho, out, asked, history>>

\* paho's thread reconnects and sends what was not acknowledged.
Reconnect ==
  /\ ~link /\ ppc # "dead"
  /\ link' = TRUE
  /\ retained' = [t \in Followed |-> IF unacked[t] = None THEN retained[t] ELSE unacked[t]]
  /\ UNCHANGED <<device, unacked, worker, paho, out, asked, history>>

-----------------------------------------------------------------------------
(* The worker's thread *)

WorkerAt(where) == wpc = where /\ out["worker"] = <<>>
WorkerGoes(where) == wpc' = where

\* publish_initial_cached_state reads a channel and publishes its sliders and
\* its document; from then on only commands publish the sliders.
InitialRead ==
  /\ WorkerAt("initial") /\ "worker" \notin shut
  /\ cached' = Stored
  /\ Send("worker", Pub("level", dev.level, 1) \o Pub("delay", dev.delay, 1)
                      \o Pub("doc", dev.level, 1))
  /\ suspect' = [f \in Sliders |-> suspect[f] /\ f \in Followed /\ Pending(f)]
  /\ WorkerGoes("head")
  /\ UNCHANGED <<dev, answers, shut, broker, took, paho, asked, events>>

\* The read fails: the cached sliders are published ...
InitialCached ==
  /\ WorkerAt("initial") /\ Fails("worker")
  /\ Send("worker", Pub("level", cached.level, 1) \o Pub("delay", cached.delay, 1))
  /\ WorkerGoes("head")
  /\ LetGo("worker")
  /\ UNCHANGED <<dev, answers, cached, broker, took, paho, asked, history>>

\* ... or there is no device, and nothing is.
InitialSkipped ==
  /\ WorkerAt("initial") /\ Fails("worker") /\ "worker" \notin shut
  /\ WorkerGoes("head")
  /\ UNCHANGED <<device, broker, took, paho, out, asked, history>>

\* _poll_once reads the preset's name ...
ReadPreset ==
  /\ WorkerAt("head") /\ "worker" \notin shut
  /\ took' = dev.preset
  /\ WorkerGoes("master")
  /\ UNCHANGED <<device, broker, paho, out, asked, history>>

\* Faulty variant: the preset's name is published when it is read only.
ReadMasterOnly ==
  /\ WorkerAt("master") /\ "worker" \notin shut
  /\ Send("worker", Pub("volume", dev.volume, 0) \o Pub("mute", dev.mute, 0))
  /\ WorkerGoes("channel")
  /\ UNCHANGED <<device, broker, took, paho, asked, history>>

\* ... and the master record, then publishes the three.
ReadMaster ==
  /\ WorkerAt("master") /\ "worker" \notin shut
  /\ Send("worker", Pub("preset", took, 0) \o Pub("volume", dev.volume, 0)
                      \o Pub("mute", dev.mute, 0))
  /\ WorkerGoes("channel")
  /\ UNCHANGED <<device, broker, took, paho, asked, history>>

\* An exchange of the first half fails: the poll ends, the Device is closed.
PollFails ==
  /\ wpc \in {"head", "master"} /\ WorkerAt(wpc) /\ Fails("worker")
  /\ CloseDevice("worker")
  /\ WorkerGoes("sleep")
  /\ UNCHANGED <<dev, answers, broker, took, paho, out, asked, history>>

\* It was closed by a failing command while the exchange waited for its lock:
\* run() does not catch AttributeError, and the thread ends.
WorkerDies ==
  /\ wpc \in {"head", "master"} /\ WorkerAt(wpc) /\ "worker" \in shut
  /\ WorkerGoes("dead")
  /\ LetGo("worker")
  /\ UNCHANGED <<dev, answers, cached, broker, took, paho, out, asked, history>>

\* get_channel, the document and the name; a failure skips the channel.
ReadChannel ==
  /\ WorkerAt("channel") /\ "worker" \notin shut
  /\ cached' = Stored
  /\ Send("worker", Pub("doc", dev.level, 1) \o Pub("name", dev.name, 1))
  /\ WorkerGoes("sleep")
  /\ UNCHANGED <<dev, answers, shut, broker, took, paho, asked, history>>

SkipChannel ==
  /\ WorkerAt("channel") /\ Fails("worker")
  /\ WorkerGoes("sleep")
  /\ LetGo("worker")
  /\ UNCHANGED <<dev, answers, cached, broker, took, paho, out, asked, history>>

\* The interval, or the backoff, passes.
Wake ==
  /\ WorkerAt("sleep")
  /\ took' = 0
  /\ WorkerGoes("head")
  /\ UNCHANGED <<device, broker, paho, out, asked, history>>

-----------------------------------------------------------------------------
(* The users, the broker and paho's thread *)

\* A user moves a slider: Home Assistant publishes on the announced topic.
Ask(c) ==
  /\ asked = NoCall /\ events < MaxEvents
  /\ c.topic \in Announced
  /\ asked' = c
  /\ events' = events + 1
  /\ UNCHANGED <<device, broker, worker, paho, out, suspect>>

\* The broker has no subscription for the topic, or no connection to deliver
\* on: a command is QoS 0 and not retained.
Discard ==
  /\ asked # NoCall
  /\ asked.topic \notin Subscribed \/ ~link
  /\ asked' = NoCall
  /\ UNCHANGED <<device, broker, worker, paho, out, history>>

\* The step each command begins with.
FirstStep(topic) ==
  CASE topic = "level"              -> "prime"
    [] topic = "delay"              -> "take"
    [] topic \in {"volume", "mute"} -> "master"
    [] topic = "load"               -> "raise"
    [] topic \in {"reset", "malformed"} -> topic
    [] OTHER                        -> "write"

\* paho calls _on_message: handle_command picks the handler by the topic.
Receive ==
  /\ asked # NoCall /\ asked.topic \in Subscribed /\ link
  /\ ppc = "idle" /\ out["paho"] = <<>>
  /\ call' = asked /\ asked' = NoCall
  /\ ppc' = FirstStep(asked.topic)
  /\ UNCHANGED <<device, broker, worker, held, out, history>>

\* set_master_volume and set_master_mute read the master record first.
ReadRecord ==
  /\ ppc = "master" /\ "paho" \notin shut
  /\ held' = [NoRecord EXCEPT !.volume = dev.volume, !.mute = dev.mute]
  /\ ppc' = "write"
  /\ UNCHANGED <<device, broker, worker, call, out, asked, history>>

\* set_channel_volume and its like take the rest of the record from the cache,
\* primed first if it is not; that the priming read fails is swallowed.
Prime ==
  /\ ppc = "prime"
  /\ \/ cached.primed /\ UNCHANGED cached
     \/ ~cached.primed /\ "paho" \notin shut /\ cached' = Stored
     \/ ~cached.primed /\ Fails("paho") /\ UNCHANGED cached
  /\ held' = [NoRecord EXCEPT !.level = cached'.level, !.delay = cached'.delay]
  /\ ppc' = "write"
  /\ UNCHANGED <<dev, answers, shut, broker, worker, call, out, asked, history>>

\* _handle_ch_delay takes it from the cache as it is.
Take ==
  /\ ppc = "take"
  /\ held' = [NoRecord EXCEPT !.level = cached.level, !.delay = cached.delay]
  /\ ppc' = "write"
  /\ UNCHANGED <<device, broker, worker, call, out, asked, history>>

\* The fields a command's write carries.
Record(topic) ==
  IF topic \in {"volume", "mute"} THEN {"volume", "mute"}
  ELSE IF topic \in Sliders THEN Sliders
  ELSE {topic}

\* The device's fields once the command's write has arrived.
Written(c) ==
  [f \in Fields |-> IF f = c.topic THEN Clamp(c.val)
                    ELSE IF f \in Record(c.topic) THEN Clamp(held[f])
                    ELSE dev[f]]

\* What the handler asks of the Device: a delay is clamped before, a level is
\* not.
Requested(c) == IF c.topic = "delay" THEN Clamp(c.val) ELSE c.val

\* Faulty variant: the state is published at the default QoS.
EchoOnce(c) == Pub(c.topic, Requested(c), 0)

\* The handler's publication: the value it asked for.
Echo(c) == Pub(c.topic, Requested(c), 1)

\* The slider's value a command leaves will not be what is shown: it was out of
\* range, it was not written, or the initial state was still to be published.
Excusable(f) ==
  \/ "range" \in Excused /\ Requested(call) > MaxValue
  \/ "dropped" \in Excused /\ dev'[f] # Clamp(call.val)
  \/ "early" \in Excused /\ (wpc = "initial" \/ \E i \in DOMAIN out["worker"] :
                                               out["worker"][i].topic = f)

\* The write is acknowledged, which does not mean that it was done, and the new
\* state is published; nobody publishes what becomes of the other field.
Write ==
  /\ ppc = "write" /\ "paho" \notin shut
  /\ \/ dev' = Written(call)
     \/ "dropped" \in Faults /\ call.topic \in Sliders /\ dev' = dev
  /\ cached' = IF call.topic \in Sliders
               THEN [[level |-> held.level, delay |-> held.delay, primed |-> TRUE]
                      EXCEPT ![call.topic] = Requested(call)]
               ELSE cached
  /\ suspect' = [f \in Sliders |->
                   IF call.topic = f THEN Excusable(f)
                   ELSE suspect[f] \/ ("clobber" \in Excused /\ dev'[f] # dev[f])]
  /\ Send("paho", Echo(call))
  /\ ppc' = "idle" /\ call' = NoCall /\ held' = NoRecord
  /\ UNCHANGED <<answers, shut, broker, worker, asked, events>>

\* factory_reset names the preset "Custom", here 0, and wipes the rest.
Named == [dev EXCEPT !.preset = 0]
Wiped == [f \in Fields |-> 0]

\* What the device may have done with a command that raised.
HalfDone ==
  IF ppc = "write" THEN {Written(call)}
  ELSE IF ppc = "reset" THEN {Named, Wiped} ELSE {}

\* Sliders that change without a publication.
Unseen == [f \in Sliders |-> suspect[f] \/ dev'[f] # dev[f]]

\* A step of the command raises, or its payload does not parse: handle_command
\* closes the Device.  The write may have reached the device all the same.
CommandFails ==
  /\ \/ ppc = "malformed"
     \/ ppc \in {"prime", "take", "master", "write", "reset"} /\ Fails("paho")
  /\ dev' \in {dev} \cup (IF "acklost" \in Faults /\ "paho" \notin shut THEN HalfDone ELSE {})
  /\ CloseDevice("paho")
  /\ suspect' = Unseen
  /\ ppc' = "idle" /\ call' = NoCall /\ held' = NoRecord
  /\ UNCHANGED <<answers, broker, worker, out, asked, events>>

\* _handle_factory_reset: no slider hears of it.  The magic word may be a no-op.
Reset ==
  /\ ppc = "reset" /\ "paho" \notin shut
  /\ dev' \in {Named, Wiped}
  /\ cached' = Unprimed
  /\ suspect' = Unseen
  /\ ppc' = "idle" /\ call' = NoCall
  /\ UNCHANGED <<answers, shut, broker, worker, held, out, asked, events>>

\* load_factory_preset raises NotImplementedError, or the Device was closed by a
\* failing poll while the exchange waited for its lock, which is AttributeError:
\* handle_command catches neither, paho's thread re-raises what a callback raises
\* and ends, and with it all that is sent and received.
Raise ==
  /\ \/ ppc = "raise"
     \/ ppc \in {"master", "write", "reset"} /\ "paho" \in shut
  /\ ppc' = "dead" /\ call' = NoCall /\ held' = NoRecord
  /\ LetGo("paho")
  /\ link' = FALSE
  /\ UNCHANGED <<dev, answers, cached, retained, unacked, worker, out, asked, history>>

-----------------------------------------------------------------------------
(* The device *)

\* Somebody else changes a field.
Panel(f) ==
  /\ "panel" \in Faults /\ events < MaxEvents
  /\ \E v \in Values \ {dev[f]} : dev' = [dev EXCEPT ![f] = v]
  /\ suspect' = Unseen
  /\ events' = events + 1
  /\ UNCHANGED <<answers, cached, shut, broker, worker, paho, out, asked>>

\* The device stops answering, or answers again.
Silent ==
  /\ "usb" \in Faults
  /\ answers' = ~answers
  /\ UNCHANGED <<dev, cached, shut, broker, worker, paho, out, asked, history>>

Worker ==
  \/ Publish("worker")
  \/ InitialRead \/ InitialCached \/ InitialSkipped
  \/ ReadPreset \/ ReadMaster \/ PollFails \/ WorkerDies
  \/ ReadChannel \/ SkipChannel \/ Wake
Handler ==
  \/ Publish("paho") \/ ReadRecord \/ Prime \/ Take
  \/ Write \/ CommandFails \/ Reset \/ Raise

Next ==
  \/ Worker \/ Handler
  \/ Receive \/ Discard \/ \E c \in Asked : Ask(c)
  \/ Ack \/ Drop \/ Reconnect
  \/ \E f \in Fields \cap Followed : Panel(f)
  \/ Silent

Spec == Init /\ [][Next]_vars

\* Both threads run, the broker delivers what it has a subscription for, and
\* paho tries to reconnect until it succeeds.
FairSpec ==
  Spec /\ WF_vars(Worker) /\ WF_vars(Handler) /\ WF_vars(Receive \/ Discard) /\ WF_vars(Reconnect)

-----------------------------------------------------------------------------
(* Properties *)

\* Every variable stays in its domain; the device never holds a value beyond
\* what the wire carries.
TypeOK ==
  /\ dev \in [Fields -> Values]
  /\ answers \in BOOLEAN /\ link \in BOOLEAN /\ suspect \in [Sliders -> BOOLEAN]
  /\ cached \in [level : 0..(MaxValue + 1), delay : 0..(MaxValue + 1), primed : BOOLEAN]
  /\ shut \subseteq {"worker", "paho"}
  /\ held \in [volume : 0..(MaxValue + 1), mute : 0..(MaxValue + 1),
               level : 0..(MaxValue + 1), delay : 0..(MaxValue + 1)]
  /\ retained \in [Followed -> 0..(MaxValue + 1) \cup {None}]
  /\ unacked \in [Followed -> 0..(MaxValue + 1) \cup {None}]
  /\ wpc \in {"initial", "head", "master", "channel", "sleep", "dead"}
  /\ took \in Values
  /\ ppc \in {"idle", "prime", "take", "master", "write", "reset", "malformed", "raise", "dead"}
  /\ call \in Asked \cup {NoCall} /\ asked \in Asked \cup {NoCall}
  /\ out \in [{"worker", "paho"} -> Seq(Publications)]
  /\ events \in 0..MaxEvents

\* The poll does its part: the device answers and the broker is connected.
Well == answers /\ link

\* _poll_once: "so the ch{n}_state JSON sensors stay live (not snapshot-only)"
\* (mqtt.py:961): once the device stays as it is, every topic the poll
\* publishes ends up with the device's value, whatever commands, late
\* publications, repetitions and failures came before, unless a failing command
\* ended the worker's thread (or a command or a failing poll paho's, and with
\* it the connection).
PollHeals ==
  (<>[]Well /\ <>[][FALSE]_dev /\ [](wpc # "dead")) =>
    <>[](\A t \in Polled \cap Followed : retained[t] = dev[t])

\* The same without the excuse: a command nobody can parse is enough.
PollAlwaysHeals ==
  (<>[]Well /\ <>[][FALSE]_dev) => <>[](\A t \in Polled \cap Followed : retained[t] = dev[t])

\* _handle_ch_delay: "so HA reflects what the device actually has" (mqtt.py:824).
\* Once the worker has started only commands publish the sliders: QoS 1, the
\* clamping and the order of the steps must see to it that the broker ends up
\* with what the device has, unless it was changed by other means or for one of
\* the causes in Excused.
SlidersAreShown ==
  \A f \in Sliders \cap Followed : ~suspect[f] /\ ~Pending(f) => retained[f] = dev[f]

\* "Per-channel name surfaces as its own text entity so users can rename from
\* HA" (mqtt.py:977): a command on an announced topic reaches its handler, as
\* long as the connection holds.  It does not: subscribe_commands omits topics.
CommandsAreServed == \A c \in Asked : asked = c ~> (call = c \/ ~link)

\* The announced state topics are the published ones: not so, the channel's
\* document is announced as ch{n}_state/state and published as ch{n}_state.
AnnouncedState == Fields \cup {"doc/state"}
StateIsPublished == \A t \in AnnouncedState \cap Followed : []<>Well => <>(retained[t] # None)

\* paho's thread gets the broker back after whatever command: not after a press
\* of a button whose handler raises what nobody catches.
LinkReturns == []<>link
-----------------------------------------------------------------------------
(* The inductive invariant of the proofs *)

\* A publication of slider f is in thread t's queue.
In(f, t) == \E i \in 1..Len(out[t]) : out[t][i].topic = f

\* A command is received when its thread has published what came before, and
\* the sliders are published with QoS 1.
PubShape ==
  /\ ppc # "idle" => out["paho"] = <<>>
  /\ \A t \in {"worker", "paho"} : \A i \in 1..Len(out[t]) :
       out[t][i].topic \in Sliders => out[t][i].qos = 1

\* The device's value is on its way to the broker: in a queue, with paho, or
\* arrived.
OnItsWay(f) ==
  /\ \A t \in {"worker", "paho"} : \A i \in 1..Len(out[t]) :
       out[t][i].topic = f => out[t][i].val = dev[f]
  /\ ~In(f, "worker") /\ ~In(f, "paho") =>
       IF unacked[f] = None THEN retained[f] = dev[f] ELSE unacked[f] = dev[f]

\* A value the broker has not acknowledged is the last it got; before the
\* initial state nothing is promised, and then only of what is not suspect.
Tracked(f) ==
  /\ link /\ unacked[f] # None => retained[f] = unacked[f]
  /\ wpc = "initial" => suspect[f]
  /\ suspect[f] \/ OnItsWay(f)

\* Inductive if every cause is excused.
EntitiesInv == TypeOK /\ PubShape /\ \A f \in Sliders \cap Followed : Tracked(f)
=============================================================================
