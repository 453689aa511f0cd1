--------------------------- MODULE DeviceExchange ---------------------------
(***************************************************************************)
(* dsp408.device.Device._exchange / read_raw / write_raw / close, on top of *)
(* dsp408.transport.Transport.read_frame / read_response: several threads  *)
(* share one Device, one HID handle and one half-duplex link to the DSP.   *)
(*                                                                         *)
(* A request is a record [dir, cmd, cat, packets]; its reply is `packets'  *)
(* HID reports long, one framed report and packets - 1 raw continuations.  *)
(* Frames carry the auxiliary mark `live': TRUE from the moment a frame is *)
(* sent until the exchange that sent it returns, whatever its outcome.  No *)
(* action reads it; the properties use it to tell the reply a thread is    *)
(* waiting for from a late reply to an exchange that gave up.              *)
(***************************************************************************)
EXTENDS Integers, Sequences

CONSTANTS
  Threads,      \* the threads of the process that share the Device
  NoThread,     \* the lock is free
  Requests,     \* the exchanges the callers ask for
  NoRequest,    \* a thread is not inside read_raw / write_raw
  NoPacket,     \* a thread has not read a framed report
  SeqMod,       \* size of the sequence-number space (256 on the wire)
  Pacing,       \* _read_pacing_s, in clock ticks (0 on local USB)
  MaxInFlight   \* bound: no new frame is remembered while so many frames and
                \* reports are unread; it keeps the queues finite

ASSUME ExchangeAssumption ==
  /\ NoThread \notin Threads
  /\ NoRequest \notin Requests
  /\ \A r \in Requests : /\ r.dir \in {"read", "write"}
                         /\ r.packets \in Nat \ {0}
  /\ SeqMod \in Nat \ {0}
  /\ Pacing \in Nat
  /\ MaxInFlight \in Nat

VARIABLES
  opened,   \* Device._t is not None
  lock,     \* holder of Device._lock
  seq,      \* Device._seq
  elapsed,  \* ticks since Device._last_exchange_mono, saturating at Pacing
  raced,    \* history: threads whose sleep was computed before the last reply
  pc,       \* where each thread is inside read_raw / write_raw
  req,      \* the request of the exchange each thread runs
  nap,      \* ticks the thread still sleeps for pacing
  got,      \* the framed report read_response holds
  missing,  \* continuation reports read_response still waits for
  outcome,  \* what the finished call returns or raises
  devq,     \* frames the device has received and not yet answered
  inq       \* input reports queued in the host's HID layer

vars == <<opened, lock, seq, elapsed, raced, pc, req, nap, got, missing, outcome, devq, inq>>

\* What a call can end with.  The last four are exceptions of Python classes:
\* ProtocolError ("closed", "timeout", "wrongdir"), OSError, AttributeError.
Outcomes == {"none", "reply", "closed", "timeout", "wrongdir", "oserror", "attrerror"}

Frames  == [req : Requests, seq : 0..(SeqMod - 1), live : BOOLEAN]
Packets == [req : Requests, cont : BOOLEAN, live : BOOLEAN]

-----------------------------------------------------------------------------
(* Helpers *)

\* WRITES use seq 0; READS take the counter.
SeqFor(r) == IF r.dir = "write" THEN 0 ELSE seq

\* Faulty variant: the counter is not wrapped to a byte.
SeqUnwrapped(r) == IF r.dir = "write" THEN seq ELSE seq + 1

\* _next_seq: only reads advance the counter, modulo 256.
NextSeq(r) == IF r.dir = "write" THEN seq ELSE (seq + 1) % SeqMod

\* "Lenient seq match": the loop of _exchange compares the command alone.
ReplyMatches(reply, r) == reply.req.cmd = r.cmd

\* Faulty variant: write_raw checks for a READ reply too.
ReadReplyOnly(reply, r) == reply.req.dir = "read"

\* read_raw expects 0x53, write_raw expects 0x51: the direction the device
\* mirrors must be the one of the request.
DirectionOK(reply, r) == reply.req.dir = r.dir

\* Faulty variants: the first chunk is not counted; no continuation is read.
AnnouncedWithFirst(reply) == reply.req.packets
AnnouncedNone(reply) == 0

\* Continuations the first report announces (is_multi_frame / payload_len).
Announced(reply) == reply.req.packets - 1

\* An exchange ends: whatever it left on the wire is nobody's any more.
Stale(q) == [i \in 1..Len(q) |-> [q[i] EXCEPT !.live = FALSE]]

\* The reports that answer one frame, in the order the device emits them.
ReplyPackets(f) ==
  [i \in 1..f.req.packets |-> [req |-> f.req, cont |-> i > 1, live |-> f.live]]

\* Leave `with self._lock' and return or raise.
Leave(t, how) ==
  /\ lock' = NoThread
  /\ pc' = [pc EXCEPT ![t] = "done"]
  /\ outcome' = [outcome EXCEPT ![t] = how]
  /\ devq' = Stale(devq)
  /\ inq' = Stale(inq)

-----------------------------------------------------------------------------
(* The threads *)

Init ==
  /\ opened = TRUE
  /\ lock = NoThread
  /\ seq = 0
  /\ elapsed = Pacing
  /\ raced = {}
  /\ pc = [t \in Threads |-> "idle"]
  /\ req = [t \in Threads |-> NoRequest]
  /\ nap = [t \in Threads |-> 0]
  /\ got = [t \in Threads |-> NoPacket]
  /\ missing = [t \in Threads |-> 0]
  /\ outcome = [t \in Threads |-> "none"]
  /\ devq = <<>>
  /\ inq = <<>>

\* `if self._t is None: raise ProtocolError("device is closed")'.
BeginClosed(t, r) ==
  /\ pc[t] = "idle"
  /\ ~opened
  /\ pc' = [pc EXCEPT ![t] = "done"]
  /\ req' = [req EXCEPT ![t] = r]
  /\ outcome' = [outcome EXCEPT ![t] = "closed"]
  /\ UNCHANGED <<opened, lock, seq, elapsed, raced, nap, got, missing, devq, inq>>

\* Faulty variant: the sleep is one tick short.
ShortNap == IF elapsed < Pacing THEN Pacing - elapsed - 1 ELSE 0

\* The ticks _exchange sleeps for, computed before the lock is taken.
NapFor == Pacing - elapsed

\* The closed check passes and the thread goes to sleep for its pacing.
Begin(t, r) ==
  /\ pc[t] = "idle"
  /\ opened
  /\ pc' = [pc EXCEPT ![t] = "pace"]
  /\ req' = [req EXCEPT ![t] = r]
  /\ raced' = raced \ {t}
  /\ nap' = [nap EXCEPT ![t] = NapFor]
  /\ UNCHANGED <<opened, lock, seq, elapsed, got, missing, outcome, devq, inq>>

\* Faulty variant: no lock at all.
NoLock == TRUE

\* `with self._lock' succeeds only on a free lock.
LockFree == lock = NoThread

\* The pacing sleep is over and the lock is free.
Acquire(t) ==
  /\ pc[t] = "pace"
  /\ nap[t] = 0
  /\ LockFree
  /\ lock' = t
  /\ pc' = [pc EXCEPT ![t] = "send"]
  /\ UNCHANGED <<opened, seq, elapsed, raced, req, nap, got, missing, outcome, devq, inq>>

\* The transport is gone: `self._t.send_frame' raises AttributeError.
SendOnNone(t) ==
  /\ pc[t] = "send"
  /\ ~opened
  /\ raced' = raced \ {t}
  /\ seq' = NextSeq(req[t])
  /\ Leave(t, "attrerror")
  /\ UNCHANGED <<opened, elapsed, req, nap, got, missing>>

\* hid.write raises (the device was unplugged).
SendError(t) ==
  /\ pc[t] = "send"
  /\ opened
  /\ raced' = raced \ {t}
  /\ seq' = NextSeq(req[t])
  /\ Leave(t, "oserror")
  /\ UNCHANGED <<opened, elapsed, req, nap, got, missing>>

\* build_frames_multi and send_frame(s); the device takes the request, or
\* drops it (the firmware ignores some writes; nothing tells the host).
Send(t) ==
  /\ pc[t] = "send"
  /\ opened
  /\ raced' = raced \ {t}
  /\ seq' = NextSeq(req[t])
  /\ \/ /\ Len(devq) + Len(inq) < MaxInFlight
        /\ devq' = Append(devq, [req |-> req[t], seq |-> SeqFor(req[t]), live |-> TRUE])
     \/ devq' = devq
  /\ pc' = [pc EXCEPT ![t] = "await"]
  /\ UNCHANGED <<opened, lock, elapsed, req, nap, got, missing, outcome, inq>>

\* read_frame meets a report that does not parse: a continuation left behind
\* by an exchange that gave up.
SkipContinuation(t) ==
  /\ pc[t] = "await"
  /\ inq # <<>>
  /\ Head(inq).cont
  /\ inq' = Tail(inq)
  /\ UNCHANGED <<opened, lock, seq, elapsed, raced, pc, req, nap, got, missing, outcome, devq>>

\* read_response gets a framed report and learns how many follow it.
ReadFirst(t) ==
  /\ pc[t] = "await"
  /\ inq # <<>>
  /\ ~Head(inq).cont
  /\ inq' = Tail(inq)
  /\ got' = [got EXCEPT ![t] = Head(inq)]
  /\ missing' = [missing EXCEPT ![t] = Announced(Head(inq))]
  /\ pc' = [pc EXCEPT ![t] = IF Announced(Head(inq)) = 0 THEN "judge" ELSE "collect"]
  /\ UNCHANGED <<opened, lock, seq, elapsed, raced, req, nap, outcome, devq>>

\* `while len(collected) < want': any report is taken as a continuation.
Collect(t) ==
  /\ pc[t] = "collect"
  /\ inq # <<>>
  /\ inq' = Tail(inq)
  /\ missing' = [missing EXCEPT ![t] = @ - 1]
  /\ pc' = [pc EXCEPT ![t] = IF missing[t] = 1 THEN "judge" ELSE "collect"]
  /\ UNCHANGED <<opened, lock, seq, elapsed, raced, req, nap, got, outcome, devq>>

\* `if remaining_ms <= 0: break': the reply is handed up with what it has.
CollectDeadline(t) ==
  /\ pc[t] = "collect"
  /\ pc' = [pc EXCEPT ![t] = "judge"]
  /\ UNCHANGED <<opened, lock, seq, elapsed, raced, req, nap, got, missing, outcome, devq, inq>>

\* The command matches: the pacing clock is stamped, the lock released, and
\* read_raw / write_raw checks the direction of what it was given.
Accept(t) ==
  /\ pc[t] = "judge"
  /\ ReplyMatches(got[t], req[t])
  /\ elapsed' = 0
  /\ raced' = raced \cup {u \in Threads : pc[u] = "pace"}
  /\ Leave(t, IF DirectionOK(got[t], req[t]) THEN "reply" ELSE "wrongdir")
  /\ UNCHANGED <<opened, seq, req, nap, got, missing>>

\* Another command: a late reply, skipped while the deadline allows.
SkipStale(t) ==
  /\ pc[t] = "judge"
  /\ ~ReplyMatches(got[t], req[t])
  /\ missing[t] = 0
  /\ pc' = [pc EXCEPT ![t] = "await"]
  /\ got' = [got EXCEPT ![t] = NoPacket]
  /\ UNCHANGED <<opened, lock, seq, elapsed, raced, req, nap, missing, outcome, devq, inq>>

\* Faulty variant: the deadline is checked between replies only, and the read
\* itself blocks.
TimeoutBetweenReplies(t) ==
  /\ pc[t] = "judge" /\ ~ReplyMatches(got[t], req[t])
  /\ Leave(t, "timeout")
  /\ UNCHANGED <<opened, seq, elapsed, raced, req, nap, got, missing>>

\* The deadline passes with no matching reply.  The clock is not stamped.
Timeout(t) ==
  /\ \/ pc[t] = "await"
     \/ pc[t] = "judge" /\ ~ReplyMatches(got[t], req[t])
  /\ Leave(t, "timeout")
  /\ UNCHANGED <<opened, seq, elapsed, raced, req, nap, got, missing>>

\* hid.read raises in the middle of an exchange.
ReadError(t) ==
  /\ pc[t] \in {"await", "collect"}
  /\ Leave(t, "oserror")
  /\ UNCHANGED <<opened, seq, elapsed, raced, req, nap, got, missing>>

\* The caller has the result and may call again.
Return(t) ==
  /\ pc[t] = "done"
  /\ pc' = [pc EXCEPT ![t] = "idle"]
  /\ req' = [req EXCEPT ![t] = NoRequest]
  /\ got' = [got EXCEPT ![t] = NoPacket]
  /\ missing' = [missing EXCEPT ![t] = 0]
  /\ outcome' = [outcome EXCEPT ![t] = "none"]
  /\ UNCHANGED <<opened, lock, seq, elapsed, raced, nap, devq, inq>>

\* Faulty variant: close() drops the handle without waiting for _lock.
CloseUnlocked(t) ==
  /\ pc[t] = "idle"
  /\ opened
  /\ opened' = FALSE
  /\ inq' = <<>>
  /\ UNCHANGED <<lock, seq, elapsed, raced, pc, req, nap, got, missing, outcome, devq>>

\* Device.close() from any thread that is not inside an exchange: it waits
\* for _lock, closes the handle and forgets it.
Close(t) ==
  /\ pc[t] = "idle"
  /\ LockFree
  /\ opened
  /\ opened' = FALSE
  /\ inq' = <<>>
  /\ UNCHANGED <<lock, seq, elapsed, raced, pc, req, nap, got, missing, outcome, devq>>

-----------------------------------------------------------------------------
(* The device and the clock *)

\* The DSP answers the oldest frame it holds, mirroring its header.
DeviceAnswer ==
  /\ devq # <<>>
  /\ devq' = Tail(devq)
  /\ inq' = IF opened THEN inq \o ReplyPackets(Head(devq)) ELSE inq
  /\ UNCHANGED <<opened, lock, seq, elapsed, raced, pc, req, nap, got, missing, outcome>>

\* One tick of time.monotonic(): sleepers get closer to waking up.
Tick ==
  /\ \/ elapsed < Pacing
     \/ \E t \in Threads : nap[t] > 0
  /\ elapsed' = IF elapsed < Pacing THEN elapsed + 1 ELSE elapsed
  /\ nap' = [t \in Threads |-> IF nap[t] > 0 THEN nap[t] - 1 ELSE 0]
  /\ UNCHANGED <<opened, lock, seq, raced, pc, req, got, missing, outcome, devq, inq>>

\* The steps of a thread inside a call, and the errors hid may raise in it.
Steps(t) ==
  \/ Acquire(t) \/ SendOnNone(t) \/ Send(t)
  \/ SkipContinuation(t) \/ ReadFirst(t) \/ Collect(t) \/ CollectDeadline(t)
  \/ Accept(t) \/ SkipStale(t) \/ Timeout(t) \/ Return(t)
Errors(t) == SendError(t) \/ ReadError(t)

Next ==
  \/ \E t \in Threads :
       \/ \E r \in Requests : BeginClosed(t, r) \/ Begin(t, r)
       \/ Steps(t)
       \/ Errors(t)
       \/ Close(t)
  \/ DeviceAnswer
  \/ Tick

Spec == Init /\ [][Next]_vars

\* A thread that holds the lock keeps running, and its deadline passes.  The
\* device may stay silent for ever, hid errors may never come, and nothing is
\* assumed of the threads that wait for the lock: threading.Lock promises no
\* order among them.
Holding(t) == Steps(t) /\ lock = t
FairSpec == Spec /\ \A t \in Threads : WF_vars(Holding(t))

-----------------------------------------------------------------------------
(* Properties *)

\* Every variable stays in its domain (Device's fields and the call frames).
TypeOK ==
  /\ opened \in BOOLEAN
  /\ lock \in Threads \cup {NoThread}
  /\ seq \in 0..(SeqMod - 1)
  /\ elapsed \in 0..Pacing
  /\ raced \in SUBSET Threads
  /\ pc \in [Threads -> {"idle", "pace", "send", "await", "collect", "judge", "done"}]
  /\ req \in [Threads -> Requests \cup {NoRequest}]
  /\ nap \in [Threads -> 0..Pacing]
  /\ got \in [Threads -> Packets \cup {NoPacket}]
  /\ missing \in [Threads -> Nat]
  /\ outcome \in [Threads -> Outcomes]
  /\ devq \in Seq(Frames)
  /\ inq \in Seq(Packets)

\* Between taking and releasing the lock.
InExchange(t) == pc[t] \in {"send", "await", "collect", "judge"}

\* The thread has a frame on the wire or reads the handle.
OnWire(t) == pc[t] \in {"await", "collect", "judge"}

\* _exchange: two threads are never inside the send-and-wait section at once,
\* so no thread reads the reports that answer another thread's request.
OneExchangeAtATime ==
  \A t, u \in Threads : InExchange(t) /\ InExchange(u) => t = u

\* Device.close(): "waiting for it guarantees no in-flight I/O when we drop
\* _t" (device.py:524-526).  A thread on the wire still has the handle.
NoCloseUnderIO == \A t \in Threads : OnWire(t) => opened

\* read_response: while a reply is being reassembled, the reports it will
\* take are exactly the continuations of that reply, never the header of
\* another one, whatever earlier exchanges left in the queue.
ReassemblyIntact ==
  \A t \in Threads : pc[t] = "collect" =>
    /\ missing[t] >= 1
    /\ missing[t] <= Len(inq)
    /\ \A i \in 1..missing[t] : /\ inq[i].cont
                                /\ inq[i].req = got[t].req
                                /\ inq[i].live = got[t].live

\* _exchange heals itself: when it returns the complete answer to its own
\* request, every late reply before it has been consumed and the pipe is
\* empty, so the next exchange starts in step.
OwnReplyEmptiesPipe ==
  \A t \in Threads :
    pc[t] = "judge" /\ got[t].live /\ missing[t] = 0 => inq = <<>> /\ devq = <<>>

\* read_raw / write_raw: "expected READ reply / WRITE ack" is never raised
\* against the device's own answer, only for a late reply of another kind.
DirectionErrorIsLate ==
  \A t \in Threads : outcome[t] = "wrongdir" => ~got[t].live

\* The lock is given back on every path out of _exchange (reply, timeout,
\* exception), even if the device never answers.
LockIsReleased == \A t \in Threads : (lock = t) ~> (lock # t)

\* _exchange, the pacing before the lock (device.py:591-603): the delay is
\* computed before the lock is taken, so a frame may leave early, but only
\* from a thread that already slept or waited when the last reply came.
Paced == \A t \in Threads : pc[t] = "send" /\ t \notin raced => elapsed = Pacing

\* "ensure that every exchange is at least _read_pacing_s seconds after the
\* last one" (device.py:592-594), also one that waited for the lock.
PacedAlways == \A t \in Threads : pc[t] = "send" => elapsed = Pacing

\* protocol.py:18-19 and device.py:612-613: a reply is matched to the request
\* it answers; a late reply is not taken for the answer to a new request.
ReplyIsOwn == \A t \in Threads : outcome[t] = "reply" => got[t].live

\* protocol.py:18-19: "(seq, cmd, category)" identify the request; a reply of
\* another category is not returned to the caller.
ReplyCategory ==
  \A t \in Threads : outcome[t] = "reply" => got[t].req.cat = req[t].cat

\* read_response: "has its .payload filled with ALL declared bytes".
ReplyIsComplete == \A t \in Threads : outcome[t] = "reply" => missing[t] = 0

\* close() against a concurrent _exchange(): a closed Device answers with
\* ProtocolError("device is closed"), never with AttributeError.
ClosedIsProtocolError == \A t \in Threads : outcome[t] # "attrerror"

\* The Device implements the promise of its lock: SharedLink, with the
\* threads that have an exchange on the wire as the users of the handle.
Link == INSTANCE SharedLink WITH
          handle <- IF opened THEN "open" ELSE "closed",
          users <- {t \in Threads : OnWire(t)}

\* The detailed exchange is a SharedLink at every step.
ImplementsSharedLink == Link!LinkSpec
-----------------------------------------------------------------------------
(* The inductive invariant of the proofs *)

\* The frame of a call holds what its position in the code implies.
CallShape ==
  \A t \in Threads :
    /\ pc[t] # "idle" => req[t] \in Requests
    /\ pc[t] \in {"collect", "judge"} => got[t] \in Packets
    /\ pc[t] = "collect" => missing[t] >= 1

\* The lock is held exactly between taking and releasing it.
LockMeaning == \A t \in Threads : InExchange(t) <=> lock = t

\* Whatever is live on the wire or in a thread's hands answers the request of
\* the thread that holds the lock.
LiveIsHolders ==
  /\ \A i \in 1..Len(devq) : devq[i].live => lock \in Threads /\ devq[i].req = req[lock]
  /\ \A i \in 1..Len(inq) : inq[i].live => lock \in Threads /\ inq[i].req = req[lock]
  /\ \A t \in Threads : pc[t] \in {"collect", "judge"} /\ got[t].live => got[t].req = req[t]

\* Only a finished call has an outcome.
OutcomeOnlyWhenDone == \A t \in Threads : pc[t] # "done" => outcome[t] = "none"

\* Inductive: implies the safety properties that mention lock and handle.
ExchangeInv ==
  /\ TypeOK
  /\ CallShape
  /\ LockMeaning
  /\ NoCloseUnderIO
  /\ LiveIsHolders
  /\ OutcomeOnlyWhenDone
  /\ DirectionErrorIsLate

\* What is left of a thread's sleep covers what is left of the pacing, unless
\* another reply restarted it.
SleepCovers ==
  \A t \in Threads : pc[t] = "pace" /\ t \notin raced => nap[t] + elapsed >= Pacing

\* Inductive beside ExchangeInv.
PacingInv == SleepCovers /\ Paced

\* The n reports behind the i-th are the continuations of the reply p.
Continued(i, n, p) ==
  /\ i + n <= Len(inq)
  /\ \A j \in (i + 1)..(i + n) : inq[j].cont /\ inq[j].req = p.req /\ inq[j].live = p.live

\* A framed report is followed by what it announces.
WholeQueue == \A i \in 1..Len(inq) : ~inq[i].cont => Continued(i, Announced(inq[i]), inq[i])

\* A thread in the middle of a reply finds the rest of it next.
RestIsNext == \A t \in Threads : pc[t] = "collect" => Continued(0, missing[t], got[t])

\* What is live was sent last: it is the end of the queue it is in, and the
\* queues before it are done.
LiveIsLast ==
  /\ \A i \in 1..Len(devq) : devq[i].live =>
       i = Len(devq) /\ \A j \in 1..Len(inq) : ~inq[j].live
  /\ \A i \in 1..Len(inq) : inq[i].live =>
       Len(devq) = 0 /\ (~inq[i].cont => i + Announced(inq[i]) = Len(inq))

\* What the lock's holder knows of it.
ReaderOf(t) ==
  /\ pc[t] = "send" => /\ \A i \in 1..Len(devq) : ~devq[i].live
                       /\ \A i \in 1..Len(inq) : ~inq[i].live
  /\ pc[t] = "collect" /\ got[t].live => Len(devq) = 0 /\ missing[t] = Len(inq)
  /\ pc[t] = "judge" /\ got[t].live /\ missing[t] = 0 => Len(devq) = 0 /\ Len(inq) = 0
ReaderInStep == \A t \in Threads : ReaderOf(t)

\* Inductive beside ExchangeInv.
QueueInv == WholeQueue /\ RestIsNext /\ LiveIsLast /\ ReaderInStep

\* A Device that one thread uses: what `with Device.open() as dsp' gives.
OneCaller == \A t, u \in Threads : t = u

\* Then nothing comes between a thread's checks and its exchange.
NothingBetween ==
  /\ raced = {}
  /\ \A t \in Threads : pc[t] \in {"pace", "send"} => opened
  /\ ClosedIsProtocolError
=============================================================================
