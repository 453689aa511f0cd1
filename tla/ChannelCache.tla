----------------------------- MODULE ChannelCache -----------------------------
(***************************************************************************)
(* The per-channel cache of dsp408.device.Device and the calls that go     *)
(* through it: get_channel, set_channel, the single-field wrappers         *)
(* set_channel_volume / _mute / _polar, apply_speaker_template,            *)
(* set_full_channel_state, load_preset_by_name and factory_reset, plus     *)
(* DeviceWorker._handle_ch_delay, which combines two of them.              *)
(*                                                                         *)
(* One exchange with the device is one action (DeviceExchange shows that   *)
(* exchanges of different threads do not overlap); everything between two  *)
(* exchanges that touches the cache is an action of its own, because other *)
(* threads run in between: neither the cache nor a call is under a lock.   *)
(***************************************************************************)
EXTENDS Integers

CONSTANTS
  Threads,        \* callers: the MQTT worker's poll, paho's callbacks, ...
  Channels,       \* output channels
  Dbs, Delays, MinDb, MaxDb, Subidxs, FactorySubidx,  \* as in ChannelRegister
  Keep,           \* set_channel's polar=None
  NoCall,         \* the thread is not inside a call
  Calls,          \* Calls[t]: the calls thread t may make, [op, ch, val]
  Presets,        \* channel maps a stored preset or a reset may install
  Faults,         \* what the link or the firmware may do to an exchange
  Excused,        \* what PrimedIsAuthoritative is not asked about: faults, calls
  MaxAttempts     \* read_channel_state's max_attempts (4 in the code)

ASSUME RegisterAssumption ==
  /\ Dbs \subseteq Int
  /\ Delays \subseteq Nat
  /\ MinDb \in Int /\ MaxDb \in Int /\ MinDb <= MaxDb
  /\ MinDb <= 0 /\ 0 <= MaxDb
  /\ Subidxs \subseteq Nat
  /\ FactorySubidx \in [Channels -> Subidxs \ {0}]

ASSUME CacheAssumption ==
  /\ Keep \notin BOOLEAN
  /\ Faults \subseteq {"read", "write", "acklost", "dropped"}
  /\ MaxAttempts \in Nat \ {0}

VARIABLES
  fw,        \* the firmware's record of each channel
  cache,     \* Device._channel_cache
  primed,    \* Device._channel_cache_primed
  pc,        \* where each thread is inside its call
  call,      \* the call each thread is making
  stage,     \* who asked for the read in progress
  args,      \* set_channel's arguments
  blob,      \* last record read_channel_state got
  attempts,  \* reads done by read_channel_state
  payload,   \* the record about to be written
  bypassed   \* history: channels whose entry an excused event left wrong

vars == <<fw, cache, primed, pc, call, stage, args, blob, attempts, payload, bypassed>>
shared == <<fw, cache, primed, bypassed>>
local == <<call, stage, args, blob, attempts, payload>>

-----------------------------------------------------------------------------
(* Helpers *)

\* The call a thread makes, until its write is through or it gave up.
Pending == [t \in Threads |-> IF pc[t] \in {"idle", "update", "return"} THEN NoCall ELSE call[t]]

R == INSTANCE ChannelRegister WITH reg <- fw, pending <- Pending

\* Factory defaults of a cache entry.
DefaultEntry(ch) ==
  [db |-> 0, muted |-> FALSE, polar |-> FALSE, delay |-> 0, subidx |-> FactorySubidx[ch]]

Wrappers == {"volume", "mute", "polar"}

\* The argument of each call.
WellFormed(c) ==
  /\ c.ch \in Channels
  /\ c.op \in Wrappers \cup {"get", "set", "ch_delay", "template", "full", "load", "reset"}
  /\ c.op = "volume" => c.val \in Dbs
  /\ c.op \in {"mute", "polar"} => c.val \in BOOLEAN
  /\ c.op = "ch_delay" => c.val \in Delays
  /\ c.op = "template" => c.val \in Subidxs
  /\ c.op = "set" => c.val \in [db : Dbs, muted : BOOLEAN, delay : Delays, polar : BOOLEAN \cup {Keep}]
  /\ c.op = "full" => c.val \in R!Records

ASSUME CallAssumption ==
  /\ \A t \in Threads : NoCall \notin Calls[t] /\ \A c \in Calls[t] : WellFormed(c)
  /\ Presets \subseteq [Channels -> R!Records]

\* Faulty variant: one flag for all the channels.
MustReadOnce(ch) == primed = {}

\* `if channel not in self._channel_cache_primed'.
MustRead(ch) == ch \notin primed

\* Faulty variant: the table's role is always written.
TableSubidx(ch) == FactorySubidx[ch]

\* set_channel: the speaker role comes from the cache, 0 means the table's.
EffectiveSubidx(ch) == R!Role(ch, cache[ch].subidx)

\* set_channel: polar=None keeps the cached phase.
EffectivePolar(ch, polar) == IF polar = Keep THEN cache[ch].polar ELSE polar

\* The arguments each caller of set_channel computes from the cache.
PickedArgs(c, e) ==
  CASE c.op = "volume"   -> [db |-> c.val, muted |-> e.muted, delay |-> e.delay, polar |-> Keep]
    [] c.op = "mute"     -> [db |-> e.db, muted |-> c.val, delay |-> e.delay, polar |-> Keep]
    [] c.op = "polar"    -> [db |-> e.db, muted |-> e.muted, delay |-> e.delay, polar |-> c.val]
    [] c.op = "ch_delay" -> [db |-> e.db, muted |-> e.muted, delay |-> c.val, polar |-> Keep]
    [] c.op = "template" -> [db |-> e.db, muted |-> e.muted, delay |-> e.delay, polar |-> e.polar]

\* Faulty variant: the gain goes to the wire as asked.
UnclampedRecord(a, subidx, polar) ==
  [db |-> a.db, muted |-> a.muted, polar |-> polar, delay |-> a.delay, subidx |-> subidx]

\* _channel_payload: the gain is clamped to what the wire can carry.
WireRecord(a, subidx, polar) ==
  [db |-> R!Clamped(a.db), muted |-> a.muted, polar |-> polar, delay |-> a.delay, subidx |-> subidx]

\* What the cache holds after a successful set_channel: the gain unclamped.
EntryAfterSet(t, ch) ==
  [db |-> args[t].db, muted |-> args[t].muted, polar |-> payload[t].polar,
   delay |-> args[t].delay, subidx |-> payload[t].subidx]

\* Where a call continues after its cache entry has been primed.
After(s) == CASE s = "wrapper" -> "pick" [] s = "setter" -> "compose" [] s = "get" -> "return"

\* The first step of each call.
FirstPc(op) ==
  CASE op \in Wrappers \cup {"set"}       -> "prime"
    [] op = "get"                         -> "read"
    [] op \in {"ch_delay", "template"}    -> "pick"
    [] op = "full"                        -> "write"
    [] op = "load"                        -> "load"
    [] op = "reset"                       -> "magic"

FirstStage(op) == IF op \in Wrappers THEN "wrapper" ELSE IF op = "get" THEN "get" ELSE "setter"

Goto(t, where) == pc' = [pc EXCEPT ![t] = where]

-----------------------------------------------------------------------------
(* The calls *)

Init ==
  /\ fw \in Presets
  /\ cache = [ch \in Channels |-> DefaultEntry(ch)]
  /\ primed = {}
  /\ pc = [t \in Threads |-> "idle"]
  /\ call = [t \in Threads |-> NoCall]
  /\ stage = [t \in Threads |-> "get"]
  /\ args = [t \in Threads |-> NoCall]
  /\ blob = [t \in Threads |-> NoCall]
  /\ attempts = [t \in Threads |-> 0]
  /\ payload = [t \in Threads |-> NoCall]
  /\ bypassed = {}

Call(t, c) ==
  /\ pc[t] = "idle"
  /\ Goto(t, FirstPc(c.op))
  /\ call' = [call EXCEPT ![t] = c]
  /\ stage' = [stage EXCEPT ![t] = FirstStage(c.op)]
  /\ args' = [args EXCEPT ![t] = IF c.op = "set" THEN c.val ELSE NoCall]
  /\ payload' = [payload EXCEPT ![t] = IF c.op = "full" THEN c.val ELSE NoCall]
  /\ blob' = [blob EXCEPT ![t] = NoCall]
  /\ attempts' = [attempts EXCEPT ![t] = 0]
  /\ UNCHANGED shared

\* _prime_channel_cache: read the device unless the entry is authoritative.
Prime(t) ==
  /\ pc[t] = "prime"
  /\ Goto(t, IF MustRead(call[t].ch) THEN "read" ELSE After(stage[t]))
  /\ attempts' = [attempts EXCEPT ![t] = 0]
  /\ blob' = [blob EXCEPT ![t] = NoCall]
  /\ UNCHANGED <<shared, call, stage, args, payload>>

\* One read of read_channel_state's loop.  It ends when two blobs agree or
\* the attempts are spent; the EQ region of a blob, which no record shows,
\* may differ and make it go on.
Read(t) ==
  LET ch == call[t].ch
      n  == attempts[t] + 1
  IN  /\ pc[t] = "read"
      /\ blob' = [blob EXCEPT ![t] = fw[ch]]
      /\ attempts' = [attempts EXCEPT ![t] = n]
      /\ \/ (n = MaxAttempts \/ blob[t] = fw[ch]) /\ Goto(t, "store")
         \/ n < MaxAttempts /\ Goto(t, "read")
      /\ UNCHANGED <<shared, call, stage, args, payload>>

\* The read raises, or get_channel cannot parse the blob: the cache keeps its
\* entry.  _prime_channel_cache goes on regardless; get_channel ends.
ReadUnusable(t) ==
  /\ "read" \in Faults
  /\ pc[t] = "read"
  /\ Goto(t, After(stage[t]))
  /\ UNCHANGED <<shared, local>>

\* get_channel seeds the cache with the record it read.
StoreEntry(t) ==
  /\ cache' = [cache EXCEPT ![call[t].ch] = blob[t]]
  /\ primed' = primed \cup {call[t].ch}
  /\ bypassed' = bypassed \ {call[t].ch}

Store(t) ==
  /\ pc[t] = "store"
  /\ StoreEntry(t)
  /\ Goto(t, After(stage[t]))
  /\ UNCHANGED <<fw, local>>

\* `c = self._channel_cache[channel]' and the call of set_channel.  The
\* speaker template is also planted in the cache here.
Pick(t) ==
  LET c == call[t]
  IN  /\ pc[t] = "pick"
      /\ args' = [args EXCEPT ![t] = PickedArgs(c, cache[c.ch])]
      /\ cache' = IF c.op = "template" THEN [cache EXCEPT ![c.ch].subidx = c.val] ELSE cache
      /\ stage' = [stage EXCEPT ![t] = "setter"]
      /\ Goto(t, "prime")
      /\ UNCHANGED <<fw, primed, bypassed, call, blob, attempts, payload>>

\* set_channel builds the payload from its arguments and the cache.
Compose(t) ==
  LET ch == call[t].ch
  IN  /\ pc[t] = "compose"
      /\ payload' = [payload EXCEPT ![t] =
            WireRecord(args[t], EffectiveSubidx(ch), EffectivePolar(ch, args[t].polar))]
      /\ Goto(t, "write")
      /\ UNCHANGED <<shared, call, stage, args, blob, attempts>>

AfterWrite(op) == IF op = "full" THEN "return" ELSE "update"

\* An event that leaves the cache entries of some channels wrong.
Behind(chs, event) == IF event \in Excused THEN bypassed \cup chs ELSE bypassed

\* The write reaches the firmware and is acknowledged.
Write(t) ==
  LET ch == call[t].ch
  IN  /\ pc[t] = "write"
      /\ fw' = [fw EXCEPT ![ch] = payload[t]]
      /\ bypassed' = IF call[t].op = "full" THEN Behind({ch}, "full") ELSE bypassed \ {ch}
      /\ Goto(t, AfterWrite(call[t].op))
      /\ UNCHANGED <<cache, primed, local>>

\* "The firmware silently drops the first ~5-6 cmd=0x1FNN writes ... even
\* though every write returns a clean ACK": set_channel's, not those of
\* set_full_channel_state, which has another command.
WriteDropped(t) ==
  /\ "dropped" \in Faults
  /\ pc[t] = "write" /\ call[t].op # "full"
  /\ bypassed' = Behind({call[t].ch}, "dropped")
  /\ Goto(t, AfterWrite(call[t].op))
  /\ UNCHANGED <<fw, cache, primed, local>>

\* The write raises: it never reached the device, or only its ack was lost.
\* A template's role stays planted in the cache.
WriteFails(t) ==
  LET c == call[t]
  IN  /\ pc[t] = "write"
      /\ \/ /\ "write" \in Faults /\ fw' = fw
            /\ bypassed' = IF c.op = "template" THEN Behind({c.ch}, "template") ELSE bypassed
         \/ /\ "acklost" \in Faults /\ fw' = [fw EXCEPT ![c.ch] = payload[t]]
            /\ bypassed' = Behind({c.ch}, IF c.op = "full" THEN "full" ELSE "acklost")
      /\ Goto(t, "return")
      /\ UNCHANGED <<cache, primed, local>>

\* set_channel: "Update cache ... and mark it authoritative".
Update(t) ==
  /\ pc[t] = "update"
  /\ cache' = [cache EXCEPT ![call[t].ch] = EntryAfterSet(t, call[t].ch)]
  /\ primed' = primed \cup {call[t].ch}
  /\ Goto(t, "return")
  /\ UNCHANGED <<fw, bypassed, local>>

\* load_preset_by_name: one write; the firmware may swap its whole state.
Load(t) ==
  /\ pc[t] = "load"
  /\ fw' \in Presets \cup {fw}
  /\ bypassed' = Behind(Channels, "load")
  /\ Goto(t, "return")
  /\ UNCHANGED <<cache, primed, local>>

\* factory_reset: the magic write may wipe the parameters, acknowledged ...
Magic(t) ==
  /\ pc[t] = "magic"
  /\ fw' \in {fw, [ch \in Channels |-> DefaultEntry(ch)]}
  /\ bypassed' = Behind(Channels, "reset")
  /\ \/ Goto(t, "forget")
     \/ "acklost" \in Faults /\ Goto(t, "return")
  /\ UNCHANGED <<cache, primed, local>>

\* ... one of the name writes around it may raise ...
ResetFails(t) ==
  /\ "write" \in Faults
  /\ pc[t] \in {"magic", "forget"}
  /\ Goto(t, "return")
  /\ UNCHANGED <<shared, local>>

\* Faulty variant: the entries are reset, the primed set is not.
ForgetEntriesOnly(t) ==
  /\ pc[t] = "forget"
  /\ cache' = [ch \in Channels |-> DefaultEntry(ch)]
  /\ primed' = primed
  /\ bypassed' = {}
  /\ Goto(t, "return")
  /\ UNCHANGED <<fw, local>>

\* ... and only after the last of them is the cache invalidated.
Forget(t) ==
  /\ pc[t] = "forget"
  /\ cache' = [ch \in Channels |-> DefaultEntry(ch)]
  /\ primed' = {}
  /\ bypassed' = {}
  /\ Goto(t, "return")
  /\ UNCHANGED <<fw, local>>

\* The call returns or raises.
Return(t) ==
  /\ pc[t] = "return"
  /\ Goto(t, "idle")
  /\ call' = [call EXCEPT ![t] = NoCall]
  /\ stage' = [stage EXCEPT ![t] = "get"]
  /\ args' = [args EXCEPT ![t] = NoCall]
  /\ blob' = [blob EXCEPT ![t] = NoCall]
  /\ attempts' = [attempts EXCEPT ![t] = 0]
  /\ payload' = [payload EXCEPT ![t] = NoCall]
  /\ UNCHANGED shared

Step(t) ==
  \/ Prime(t) \/ Read(t) \/ Store(t) \/ Pick(t) \/ Compose(t) \/ Write(t) \/ Update(t)
  \/ Load(t) \/ Magic(t) \/ Forget(t) \/ Return(t)

Fault(t) == ReadUnusable(t) \/ WriteDropped(t) \/ WriteFails(t) \/ ResetFails(t)

Next == \E t \in Threads : Step(t) \/ Fault(t) \/ \E c \in Calls[t] : Call(t, c)

Spec == Init /\ [][Next]_vars

-----------------------------------------------------------------------------
(* Properties *)

Args == [db : Int, muted : BOOLEAN, delay : Nat, polar : BOOLEAN \cup {Keep}]
Entries == [db : Int, muted : BOOLEAN, polar : BOOLEAN, delay : Nat, subidx : Subidxs]

\* Every variable stays in its domain (the Device's cache, the firmware's
\* records, the locals of the calls in progress).
TypeOK ==
  /\ fw \in [Channels -> R!Records]
  /\ cache \in [Channels -> Entries]
  /\ primed \in SUBSET Channels
  /\ pc \in [Threads -> {"idle", "prime", "read", "store", "pick", "compose", "write",
                         "update", "load", "magic", "forget", "return"}]
  /\ DOMAIN call = Threads /\ \A t \in Threads : call[t] \in Calls[t] \cup {NoCall}
  /\ stage \in [Threads -> {"wrapper", "setter", "get"}]
  /\ args \in [Threads -> Args \cup {NoCall}]
  /\ blob \in [Threads -> R!Records \cup {NoCall}]
  /\ attempts \in [Threads -> 0..MaxAttempts]
  /\ payload \in [Threads -> R!Records \cup {NoCall}]
  /\ bypassed \in SUBSET Channels

\* A cache entry stands for a record: writing it back would change nothing.
StandsFor(e, r) ==
  /\ R!Clamped(e.db) = r.db
  /\ e.muted = r.muted /\ e.polar = r.polar /\ e.delay = r.delay /\ e.subidx = r.subidx

\* "True iff the cache entry reflects AUTHORITATIVE state" (device.py:1187):
\* between calls, a primed entry stands for the device's record unless one of
\* the Excused events left it wrong.  Each of them does, when it is not excused:
\* a write that was acknowledged and dropped, one whose acknowledgement was
\* lost, set_full_channel_state, a preset load, a reset that fails half way,
\* and a template whose write fails.
PrimedIsAuthoritative ==
  (\A t \in Threads : pc[t] = "idle") =>
    \A ch \in primed \ bypassed : StandsFor(cache[ch], fw[ch])

\* The field a single-field call is about.
FieldOf(op) == CASE op = "volume" -> "db" [] op = "mute" -> "muted"
                 [] op = "polar" -> "polar" [] op = "ch_delay" -> "delay"

SingleField == Wrappers \cup {"ch_delay"}

\* The step is thread t's write, and the device's record changes with it.
Writes(t) ==
  pc[t] = "write" /\ pc'[t] # "write" /\ fw'[call[t].ch] # fw[call[t].ch]

\* set_channel_volume / _mute / _polar and _handle_ch_delay: "partial updates
\* preserve everything they don't touch" (device.py:1355-1356).  A write they
\* cause leaves every other field of the device's record as it was, except
\* for the default role of a channel that had none.
OnlyTheFieldChanges ==
  \A t \in Threads : Writes(t) /\ call[t].op \in SingleField =>
    LET ch == call[t].ch IN
    \A f \in DOMAIN fw[ch] \ {FieldOf(call[t].op)} :
      fw'[ch][f] = IF f = "subidx" THEN R!Role(ch, fw[ch][f]) ELSE fw[ch][f]

PartialUpdatesPreserve == [][OnlyTheFieldChanges]_vars

\* apply_speaker_template: "assigns the channel to a DSP slot" - the write it
\* causes carries the role the caller named.
TemplateIsApplied ==
  [][\A t \in Threads : pc[t] = "compose" /\ pc'[t] = "write" /\ call[t].op = "template"
       => payload'[t].subidx = call[t].val]_vars

\* The channel's entry was authoritative before the call, and is used unread.
Trusted(t) == attempts[t] = 0 /\ call[t].ch \in primed \ bypassed

\* "Update the cache so set_channel writes the new subidx, then re-write the
\* basic record" (device.py:2274): where the entry may be trusted, a template
\* that reaches the device gives the channel the role the caller named, or the
\* table's if that was "none" (SPK_TYPE_NAMES' index 0), and leaves the rest of
\* the device's record as it is.
OnlyTheRoleChanges ==
  \A t \in Threads : Writes(t) /\ call[t].op = "template" /\ Trusted(t) =>
    LET c == call[t] IN fw'[c.ch] = [fw[c.ch] EXCEPT !.subidx = R!Role(c.ch, c.val)]

TrustedTemplateApplies == [][OnlyTheRoleChanges]_vars

\* Seen from the device, a call of a setter is one change of the fields that
\* call is about, or none if it raised: ChannelRegister, in which a change needs
\* the pending call that asks for it and ends it.
ImplementsRegister == R!RegisterSpec

-----------------------------------------------------------------------------
(* Inductive invariants *)

\* Threads that have a channel each; a call that may change all of them is
\* made by a thread that is alone.
Separate ==
  \A s, t \in Threads : s # t =>
    \A c \in Calls[s], d \in Calls[t] : c.ch # d.ch /\ c.op \notin {"load", "reset"}

\* Every event that leaves an entry wrong is either excused or cannot happen.
EventsExcused ==
  /\ Faults \cap {"acklost", "dropped"} \subseteq Excused
  /\ \A t \in Threads : \A c \in Calls[t] :
       c.op \in {"full", "load", "reset", "template"} => c.op \in Excused

\* What a call's locals hold at each of its steps.
ShapeOf(t) ==
  /\ pc[t] # "idle" => call[t] # NoCall
  /\ pc[t] = "read" => attempts[t] < MaxAttempts
  /\ pc[t] = "store" => blob[t] \in R!Records
  /\ pc[t] \in {"prime", "read", "store"} /\ stage[t] = "setter" => args[t] \in Args
  /\ pc[t] \in {"compose", "update"} => args[t] \in Args
  /\ pc[t] = "prime" => stage[t] # "get"
  /\ pc[t] \in {"read", "store"} /\ stage[t] = "get" => call[t].op = "get"
  /\ pc[t] = "load" => call[t].op = "load"
  /\ pc[t] \in {"magic", "forget"} => call[t].op = "reset"
  /\ pc[t] = "pick" => call[t].op \in SingleField \cup {"template"}
  /\ pc[t] \in {"prime", "read", "store"} /\ stage[t] = "wrapper" => call[t].op \in Wrappers
  /\ pc[t] \in {"write", "update"} => payload[t] \in R!Records
  /\ pc[t] = "write" => args[t] \in Args \/ call[t].op = "full"
CallShape == \A t \in Threads : ShapeOf(t)

\* The channel is being changed and its cache entry was not updated yet.
Changing(t, ch) ==
  /\ pc[t] \notin {"idle", "pick", "return"} /\ call[t].ch = ch
  /\ pc[t] = "update" \/ call[t].op = "template"

\* The record that goes to the wire is what set_channel was asked for.
AsAsked(t) ==
  payload[t].db = R!Clamped(args[t].db) /\ payload[t].muted = args[t].muted /\ payload[t].delay = args[t].delay

SyncOf(t) ==
  /\ pc[t] = "store" => blob[t] = fw[call[t].ch]
  /\ pc[t] = "write" /\ call[t].op # "full" => AsAsked(t)
  /\ pc[t] = "update" =>
       AsAsked(t) /\ (payload[t] = fw[call[t].ch] \/ call[t].ch \in bypassed)

Current(ch) == StandsFor(cache[ch], fw[ch]) \/ \E t \in Threads : Changing(t, ch)

CacheInSync == (\A ch \in primed \ bypassed : Current(ch)) /\ \A t \in Threads : SyncOf(t)

CacheInv == TypeOK /\ CallShape /\ CacheInSync

\* Only the calls that preserve what they do not touch, on a link that may
\* lose a write.
Preserving ==
  /\ Faults \subseteq {"write"}
  /\ \A t \in Threads : \A c \in Calls[t] : c.op \in Wrappers \cup {"get", "set"}

\* set_channel's arguments are the caller's, or come from the cache entry,
\* which stands for the record at the device.
FollowsOf(t) ==
  LET c == call[t] IN
  /\ pc[t] \in {"pick", "compose", "write"} => c.ch \in primed
  /\ pc[t] \in {"prime", "read", "store"} /\ stage[t] = "setter" /\ c.op # "set" =>
       pc[t] = "prime" /\ c.ch \in primed
  /\ pc[t] \in {"prime", "compose", "write"} /\ stage[t] = "setter" /\ c.op # "set" =>
       args[t] = PickedArgs(c, cache[c.ch])
  /\ pc[t] \in {"prime", "read", "store", "compose", "write"} /\ c.op = "set" =>
       args[t] = c.val
  /\ pc[t] \in {"compose", "write"} => stage[t] = "setter"
  /\ stage[t] = "setter" => c.op # "get"
  /\ pc[t] = "write" =>
       payload[t] = WireRecord(args[t], EffectiveSubidx(c.ch), EffectivePolar(c.ch, args[t].polar))

ArgsFollow == bypassed = {} /\ \A t \in Threads : FollowsOf(t)

\* A template's arguments are the device's record as long as its entry is trusted,
\* and the planted role is still in the cache; a template that reads was not primed.
PlantedOf(t) ==
  LET ch == call[t].ch IN
  pc[t] # "idle" /\ call[t].op = "template" =>
    /\ pc[t] = "read" => ch \notin primed
    /\ pc[t] = "store" => attempts[t] > 0
    /\ pc[t] \in {"prime", "compose", "write"} /\ (pc[t] = "prime" \/ attempts[t] = 0)
         /\ ch \in primed \ bypassed =>
         /\ R!Clamped(args[t].db) = fw[ch].db
         /\ args[t].muted = fw[ch].muted /\ args[t].polar = fw[ch].polar /\ args[t].delay = fw[ch].delay
         /\ pc[t] # "write" => cache[ch].subidx = call[t].val
         /\ pc[t] = "write" => payload[t] = WireRecord(args[t], R!Role(ch, call[t].val), args[t].polar)

Planted == \A t \in Threads : PlantedOf(t)
=============================================================================
