------------------------------- MODULE Framing -------------------------------
(***************************************************************************)
(* dsp408.protocol.build_frames_multi / parse_frame and                    *)
(* dsp408.transport.Transport.send_frames / read_response: how a payload is *)
(* cut into HID reports and put together again.                            *)
(*                                                                         *)
(* The bytes of a payload are told apart by their position only, so a      *)
(* report is the interval from..upto-1 of the payload it carries, an       *)
(* optional header with the declared length, and what follows the payload; *)
(* zero padding fills it up to FrameSize.  Both directions use this layout: *)
(* the builder is the host for a write and the DSP for a reply, the reader *)
(* is the host for a reply.  A report without a header has a length too, for *)
(* the invariants; no action reads it there.                               *)
(***************************************************************************)
EXTENDS Integers, Sequences

CONSTANTS
  FrameSize,    \* bytes of a HID report (64)
  HeaderSize,   \* bytes before the payload (14)
  Sizes,        \* lengths of the payloads to send
  MaxMessages   \* bound: payloads sent in a behaviour

\* The 16-bit length field holds the length of every payload.
ASSUME FramingAssumption ==
  /\ HeaderSize \in Nat
  /\ FrameSize \in Nat /\ FrameSize > HeaderSize + 2
  /\ \A n \in Sizes : n \in Nat /\ n < 65536
  /\ MaxMessages \in Nat

VARIABLES
  bpc,      \* where build_frames_multi / send_frames is
  size,     \* len(data)
  frames,   \* the reports built and not sent yet
  turn,     \* payloads sent so far: the number of the current one
  line,     \* reports sent and not read
  rpc,      \* where read_response is
  of,       \* the payload whose first report was read
  want,     \* first.payload_len
  got,      \* len(collected)
  exact     \* collected holds bytes 0..got-1 of payload `of', in order

builder == <<bpc, size, frames, turn>>
reader  == <<rpc, of, want, got, exact>>
vars    == <<builder, line, reader>>

MinOf(a, b) == IF a < b THEN a ELSE b

\* max_in_first_single (48) and max_in_first_multi (50).
Single == FrameSize - HeaderSize - 2
First  == FrameSize - HeaderSize

\* The checksum and END_MARKER.
Trailer == <<"chk", "end">>

Headed(n, upto, trail) ==
  [msg |-> turn', header |-> TRUE, len |-> n, from |-> 0, upto |-> upto, trail |-> trail]
Raw(from, upto, trail) ==
  [msg |-> turn, header |-> FALSE, len |-> size, from |-> from, upto |-> upto, trail |-> trail]

\* What may follow the payload in a report.
NoTrailer == <<>>
Endings == {NoTrailer, <<"chk">>, Trailer}

Reports == [msg : 1..MaxMessages, header : BOOLEAN, len : Nat, from : Nat, upto : Nat,
            trail : Endings]

-----------------------------------------------------------------------------
(* build_frames_multi and send_frames *)

Init ==
  /\ bpc = "idle" /\ size = 0 /\ frames = <<>> /\ turn = 0
  /\ line = <<>>
  /\ rpc = "idle" /\ of = 0 /\ want = 0 /\ got = 0 /\ exact = TRUE

BeginAny(n) ==
  /\ bpc = "idle"
  /\ turn < MaxMessages
  /\ turn' = turn + 1
  /\ size' = n
  /\ UNCHANGED <<line, reader>>

\* A payload that fits with its trailer: build_frame.
BeginSingle(n) ==
  /\ BeginAny(n)
  /\ n <= Single
  /\ frames' = <<Headed(n, n, Trailer)>>
  /\ bpc' = "built"

\* `assert len(first_frame) == FRAME_SIZE' fails.
BeginShort(n) ==
  /\ BeginAny(n)
  /\ n > Single /\ n < First
  /\ frames' = <<>>
  /\ bpc' = "raised"

\* The first report of several is full and carries no trailer.
BeginMulti(n) ==
  /\ BeginAny(n)
  /\ n >= First
  /\ frames' = <<Headed(n, First, NoTrailer)>>
  /\ bpc' = "build"

\* `while rest': bytes not yet in a report.
Done == frames[Len(frames)].upto
Rest == size - Done

\* The last report has room for the trailer.
Fits == Rest + Len(Trailer) <= FrameSize

Build(list) ==
  /\ frames' = list
  /\ UNCHANGED <<bpc, size, turn, line, reader>>

\* A report in the middle is 64 bytes of payload.
Middle ==
  /\ bpc = "build"
  /\ Rest > FrameSize
  /\ Build(Append(frames, Raw(Done, Done + FrameSize, NoTrailer)))

\* The last report, with the trailer behind the payload.
Last ==
  /\ bpc = "build"
  /\ Rest \in 1..FrameSize
  /\ Fits
  /\ Build(Append(frames, Raw(Done, size, Trailer)))

\* The last report cut at FrameSize: payload and what fits of the trailer.
CutReport == Raw(Done, size, IF Rest < FrameSize THEN <<"chk">> ELSE NoTrailer)

\* Faulty variant: what did not fit is forgotten.
SpillLost ==
  /\ bpc = "build"
  /\ Rest \in 1..FrameSize
  /\ ~Fits
  /\ Build(Append(frames, CutReport))

\* "chk+end pushed us over": the report is cut and both bytes are sent in one
\* more, whatever part of them the cut report holds already.
Spill ==
  /\ bpc = "build"
  /\ Rest \in 1..FrameSize
  /\ ~Fits
  /\ Build(Append(Append(frames, CutReport), Raw(size, size, Trailer)))

Built ==
  /\ bpc = "build"
  /\ Rest = 0
  /\ bpc' = "built"
  /\ UNCHANGED <<size, frames, turn, line, reader>>

\* One turn of the loop of send_frames.
Send ==
  /\ bpc \in {"built", "send"}
  /\ line' = Append(line, Head(frames))
  /\ frames' = Tail(frames)
  /\ bpc' = IF Len(frames) = 1 THEN "idle" ELSE "send"
  /\ UNCHANGED <<size, turn, reader>>

\* AssertionError has left write_raw; nothing was sent.
Recover ==
  /\ bpc = "raised"
  /\ bpc' = "idle"
  /\ UNCHANGED <<size, frames, turn, line, reader>>

-----------------------------------------------------------------------------
(* read_frame, parse_frame and read_response *)

\* Faulty variant: room is kept for a trailer in every headed report.
PresentCapped(r) == MinOf(r.len, Single)

\* Faulty variant: payload_len is compared with the size of a report.
IsMultiByReport(r) == r.len > FrameSize

\* Frame.is_multi_frame.
IsMulti(r) == r.len > Single

\* The payload bytes parse_frame takes from a headed report.
Present(r) == MinOf(r.len, IF IsMulti(r) THEN First ELSE Single)

\* The first k bytes of report r are bytes at..at+k-1 of payload m.
Carries(r, m, at, k) == r.msg = m /\ r.from = at /\ at + k <= r.upto

Call ==
  /\ rpc = "idle"
  /\ rpc' = "first"
  /\ UNCHANGED <<builder, line, of, want, got, exact>>

\* parse_frame returns None for a report without the magic bytes.
SkipHeadless ==
  /\ rpc = "first"
  /\ line # <<>> /\ ~Head(line).header
  /\ line' = Tail(line)
  /\ UNCHANGED <<builder, reader>>

ReadFirst ==
  /\ rpc = "first"
  /\ line # <<>>
  /\ LET r == Head(line) IN
       /\ r.header
       /\ of' = r.msg
       /\ want' = r.len
       /\ got' = Present(r)
       /\ exact' = Carries(r, r.msg, 0, Present(r))
       /\ rpc' = IF IsMulti(r) /\ Present(r) < r.len THEN "collect" ELSE "done"
  /\ line' = Tail(line)
  /\ UNCHANGED builder

\* Faulty variant: the whole report is appended.
TakeWhole == FrameSize

\* `raw[: min(len(raw), want - len(collected))]'.
Take == MinOf(FrameSize, want - got)

\* `while len(collected) < want': any report is taken for a continuation.
Collect ==
  /\ rpc = "collect"
  /\ line # <<>>
  /\ got' = got + Take
  /\ exact' = (exact /\ Carries(Head(line), of, got, Take))
  /\ rpc' = IF got + Take >= want THEN "done" ELSE "collect"
  /\ line' = Tail(line)
  /\ UNCHANGED <<builder, of, want>>

\* The deadline: None without a first report, what there is otherwise.
Deadline ==
  /\ rpc \in {"first", "collect"}
  /\ rpc' = IF rpc = "first" THEN "idle" ELSE "partial"
  /\ UNCHANGED <<builder, line, of, want, got, exact>>

Return ==
  /\ rpc \in {"done", "partial"}
  /\ rpc' = "idle"
  /\ UNCHANGED <<builder, line, of, want, got, exact>>

Next ==
  \/ \E n \in Sizes : BeginSingle(n) \/ BeginShort(n) \/ BeginMulti(n)
  \/ Middle \/ Last \/ Spill \/ Built \/ Send \/ Recover
  \/ Call \/ SkipHeadless \/ ReadFirst \/ Collect \/ Deadline \/ Return

Spec == Init /\ [][Next]_vars

-----------------------------------------------------------------------------
(* Properties *)

\* Every variable stays in its domain (the locals of the four functions).
TypeOK ==
  /\ bpc \in {"idle", "raised", "build", "built", "send"}
  /\ size \in Nat
  /\ frames \in Seq(Reports)
  /\ turn \in 0..MaxMessages
  /\ line \in Seq(Reports)
  /\ rpc \in {"idle", "first", "collect", "done", "partial"}
  /\ of \in 0..MaxMessages
  /\ want \in Nat
  /\ got \in 0..want
  /\ exact \in BOOLEAN

\* read_response "has its .payload filled with ALL declared bytes": unless its
\* deadline passed, it returns the payload that was sent, byte for byte, at
\* every length and whatever earlier calls left in the queue.
AssembledIsPayload == rpc = "done" => got = want /\ exact

\* A completely read payload leaves nothing behind that a later read could
\* take for payload: only the trailer may be left, in a report of its own.
LeftoverIsTrailer ==
  rpc = "done" =>
    /\ \A i \in 1..Len(line) : line[i].msg = of => line[i].from = line[i].upto
    /\ \A i \in 1..Len(frames) : frames[i].msg = of => frames[i].from = frames[i].upto

\* read_response starts at the first report of a payload only, of a payload
\* that was sent, and of none it began before: what it returns comes in the
\* order it was sent, each payload once, however many reads gave up.
EachPayloadOnce ==
  [][rpc = "first" /\ rpc' \in {"collect", "done"} => of < of' /\ of' <= turn]_vars

\* "the firmware ... expects the checksum + end marker immediately after" the
\* payload (protocol.py:173-175): the two bytes follow the last payload byte,
\* once.
TrailerOnce ==
  /\ \A i \in 1..(Len(frames) - 1) : frames[i].trail = NoTrailer
  /\ frames[Len(frames)].trail = Trailer

\* The lengths at which the loop does not keep that promise: exactly a first
\* report, and one byte short of a full last report.
OnEdge(n) == n = First \/ (n > First /\ (n - First) % FrameSize = FrameSize - 1)

\* build_frames_multi ends every payload with checksum and end marker, once,
\* at every length that is not OnEdge.
TrailerOffTheEdge == bpc = "built" /\ ~OnEdge(size) => TrailerOnce

\* The docstring's claim without the exception; it does not hold.
TrailerFollowsPayload == bpc = "built" => TrailerOnce

\* protocol.py:200: "multi-frame first-frame length mismatch" is an assertion,
\* so no payload should reach it; it does not hold.
FirstReportIsFull == bpc # "raised"
-----------------------------------------------------------------------------
(* The inductive invariant of the proofs *)

\* A report stays inside its payload, and a headed one carries its beginning.
Shape(r) ==
  /\ r.upto \in r.from..r.len
  /\ r.header => r.from = 0 /\ r.upto = Present(r)

\* Report b carries on with payload m of n bytes at byte `at'.
CarriesOn(b, m, n, at) ==
  /\ b.msg = m /\ ~b.header /\ b.len = n
  /\ b.from = at /\ b.upto = MinOf(at + FrameSize, n)

\* Behind a report whose payload is not finished comes its continuation.
Follows(a, b) == a.upto < a.len => CarriesOn(b, a.msg, a.len, a.upto)

\* The reports of a queue carry on where the one before stopped.
Chained(q) ==
  /\ \A i \in 1..Len(q) : Shape(q[i])
  /\ \A i \in 1..(Len(q) - 1) : Follows(q[i], q[i + 1])

\* A queue that ends a payload.
Ended(q) == q[Len(q)].upto = q[Len(q)].len

\* The reports sent and the reports to send are one chain, and only a
\* payload that is being built has no end yet.
StreamInv ==
  /\ Chained(line) /\ Chained(frames)
  /\ bpc \in {"idle", "raised"} <=> frames = <<>>
  /\ bpc \in {"build", "built"} => frames[Len(frames)].len = size /\ frames[Len(frames)].msg = turn
  /\ bpc \in {"built", "send"} => Ended(frames)
  /\ line # <<>> /\ bpc # "send" => Ended(line)
  /\ line # <<>> /\ bpc = "send" => Follows(line[Len(line)], frames[1])

\* The next report is the one the reader needs.
ReaderInv ==
  /\ rpc = "done" => got = want /\ exact
  /\ rpc = "collect" =>
       /\ exact /\ got < want
       /\ line # <<>> => CarriesOn(line[1], of, want, got)
       /\ line = <<>> => bpc = "send" /\ CarriesOn(frames[1], of, want, got)

\* Inductive: implies AssembledIsPayload.
FramingInv == TypeOK /\ StreamInv /\ ReaderInv

\* Behind the end of a payload only its trailer may come.
Behind(a, b) == a.msg = b.msg /\ a.upto = a.len => b.from = b.upto /\ b.upto = b.len

\* In a queue, and from one queue to the one behind it.
Settled(q) == \A i, j \in 1..Len(q) : i < j => Behind(q[i], q[j])
SettledOver(q, p) == \A i \in 1..Len(q) : \A j \in 1..Len(p) : Behind(q[i], p[j])

NothingBehind == Settled(line) /\ Settled(frames) /\ SettledOver(line, frames)

\* Nothing of a payload is sent or read before the whole of it is built.
InBuilding == bpc \in {"build", "built"}
Numbered ==
  /\ \A i \in 1..Len(frames) : frames[i].msg = turn
  /\ \A i \in 1..Len(line) : line[i].msg <= turn /\ (InBuilding => line[i].msg < turn)
  /\ rpc \in {"collect", "done"} => of <= turn /\ (InBuilding => of < turn)

\* Inductive with FramingInv.
LeftoverInv == NothingBehind /\ Numbered /\ LeftoverIsTrailer

\* A report behind one of payload m is of it or of a later one, and of a later
\* one if it is a first report.
Before(m, r) == m <= r.msg /\ (r.header => m < r.msg)

\* Everything in a queue is behind payload m; the queue itself is in order.
After(m, q) == \A i \in 1..Len(q) : Before(m, q[i])
InOrder(q) == \A i, j \in 1..Len(q) : i < j => Before(q[i].msg, q[j])

\* Inductive with FramingInv: what is read next comes behind what was read.
OrderInv ==
  /\ InOrder(line) /\ InOrder(frames)
  /\ \A i \in 1..Len(line) : line[i].msg <= turn /\ After(line[i].msg, frames)
  /\ \A i \in 1..Len(frames) : frames[i].msg = turn
  /\ of <= turn /\ After(of, line) /\ After(of, frames)

\* While a payload is built the reports before the last one are full, and the
\* trailer is in none of them.
CutInv ==
  /\ InBuilding /\ ~OnEdge(size) => \A i \in 1..(Len(frames) - 1) : frames[i].trail = NoTrailer
  /\ bpc = "build" /\ ~OnEdge(size) =>
       IF Rest = 0 THEN frames[Len(frames)].trail = Trailer
       ELSE /\ frames[Len(frames)].trail = NoTrailer
            /\ \E k \in Nat : Done = First + k * FrameSize
  /\ TrailerOffTheEdge
=============================================================================
