---------------------------- MODULE FramingProofs ----------------------------
(***************************************************************************)
(* For any report and header size, any payload lengths and any number of   *)
(* payloads: the reader of Framing returns what the builder was given,     *)
(* leaves nothing of it behind, and the trailer is where it belongs.       *)
(***************************************************************************)
EXTENDS Framing, SequenceTheorems, TLAPS

\* The sizes of protocol.py as the provers need them.
LEMMA Sizing ==
  /\ FrameSize \in Nat /\ First \in Nat /\ Single \in Nat /\ HeaderSize \in Nat
  /\ First = Single + 2 /\ FrameSize = First + HeaderSize
  /\ Single > 0
  /\ \A n \in Sizes : n \in Nat
  /\ MaxMessages \in Nat
<1>1. HeaderSize \in Nat /\ FrameSize \in Nat /\ FrameSize > HeaderSize + 2 /\ MaxMessages \in Nat
  BY FramingAssumption DEF FramingAssumption
<1>2. \A n \in Sizes : n \in Nat
  BY FramingAssumption DEF FramingAssumption
<1> QED
  BY <1>1, <1>2 DEF First, Single

\* build_frames_multi, frames.append: a chain stays a chain when the report
\* put behind it carries on.
LEMMA AppendChained ==
  ASSUME NEW q \in Seq(Reports), NEW r \in Reports, Chained(q), Shape(r),
         q # <<>> => Follows(q[Len(q)], r)
  PROVE  /\ Append(q, r) \in Seq(Reports)
         /\ Chained(Append(q, r))
         /\ Append(q, r) # <<>>
         /\ Append(q, r)[Len(Append(q, r))] = r
         /\ q # <<>> => Append(q, r)[1] = q[1]
         /\ q = <<>> => Append(q, r)[1] = r
<1> DEFINE p == Append(q, r)
<1>1. /\ p \in Seq(Reports) /\ p # <<>>
      /\ Len(p) = Len(q) + 1 /\ Len(q) \in Nat
      /\ \A i \in 1..Len(q) : p[i] = q[i]
      /\ p[Len(q) + 1] = r
  BY AppendProperties, LenProperties
<1>2. q # <<>> => Len(q) > 0
  BY EmptySeq
<1>3. q = <<>> => Len(q) = 0
  OBVIOUS
<1>4. ASSUME NEW i \in 1..Len(p) PROVE Shape(p[i])
  <2>1. CASE i \in 1..Len(q) BY <1>1, <2>1 DEF Chained
  <2>2. CASE i = Len(q) + 1 BY <1>1, <2>2
  <2> QED BY <1>1, <2>1, <2>2
<1>5. ASSUME NEW i \in 1..(Len(p) - 1) PROVE Follows(p[i], p[i + 1])
  <2>1. CASE i \in 1..(Len(q) - 1)
    <3>1. i \in 1..Len(q) /\ i + 1 \in 1..Len(q)
      BY <1>1, <2>1
    <3>2. p[i] = q[i] /\ p[i + 1] = q[i + 1]
      BY <1>1, <3>1
    <3> QED BY <2>1, <3>2 DEF Chained
  <2>2. CASE i = Len(q)
    <3>1. i \in 1..Len(q) /\ q # <<>>
      BY <1>1, <1>3, <2>2
    <3>2. p[i] = q[Len(q)] /\ p[i + 1] = r
      BY <1>1, <2>2, <3>1
    <3> QED BY <3>1, <3>2
  <2> QED BY <1>1, <2>1, <2>2
<1>6. Chained(p)
  BY <1>4, <1>5 DEF Chained
<1>7. q # <<>> => 1 \in 1..Len(q)
  BY <1>1, <1>2
<1> QED
  BY <1>1, <1>3, <1>6, <1>7

\* send_frames and hid.read, taking the head: the rest is a chain and starts
\* where the head stopped.
LEMMA TailChained ==
  ASSUME NEW q \in Seq(Reports), q # <<>>, Chained(q)
  PROVE  /\ Tail(q) \in Seq(Reports)
         /\ Chained(Tail(q))
         /\ Head(q) \in Reports /\ Shape(Head(q)) /\ Head(q) = q[1]
         /\ Len(q) = 1 <=> Tail(q) = <<>>
         /\ Tail(q) # <<>> => /\ Follows(Head(q), Tail(q)[1])
                              /\ Tail(q)[Len(Tail(q))] = q[Len(q)]
         /\ Tail(q) = <<>> => Head(q) = q[Len(q)]
<1> DEFINE p == Tail(q)
<1>1. /\ p \in Seq(Reports) /\ Head(q) \in Reports /\ Head(q) = q[1]
      /\ Len(q) \in Nat \ {0} /\ Len(p) = Len(q) - 1
      /\ \A i \in 1..Len(p) : p[i] = q[i + 1]
  BY HeadTailProperties, LenProperties, EmptySeq
<1>2. Shape(q[1])
  BY <1>1 DEF Chained
<1>3. p = <<>> <=> Len(p) = 0
  BY <1>1, EmptySeq
<1>4. ASSUME NEW i \in 1..Len(p) PROVE Shape(p[i])
  BY <1>1 DEF Chained
<1>5. ASSUME NEW i \in 1..(Len(p) - 1) PROVE Follows(p[i], p[i + 1])
  <2>1. i \in 1..Len(p) /\ i + 1 \in 1..Len(p) /\ i + 1 \in 1..(Len(q) - 1)
    BY <1>1
  <2>2. p[i] = q[i + 1] /\ p[i + 1] = q[(i + 1) + 1]
    BY <1>1, <2>1
  <2> QED BY <2>1, <2>2 DEF Chained
<1>6. Chained(p)
  BY <1>4, <1>5 DEF Chained
<1>7. ASSUME p # <<>> PROVE Follows(q[1], p[1]) /\ p[Len(p)] = q[Len(q)]
  <2>1. 1 \in 1..Len(p) /\ Len(p) \in 1..Len(p) /\ 1 \in 1..(Len(q) - 1)
    BY <1>1, <1>3, <1>7
  <2>2. p[1] = q[1 + 1] /\ p[Len(p)] = q[Len(p) + 1] /\ Len(p) + 1 = Len(q)
    BY <1>1, <2>1
  <2> QED BY <2>1, <2>2 DEF Chained
<1>8. p = <<>> => Len(q) = 1
  BY <1>1, <1>3
<1>9. Len(q) = 1 => p = <<>>
  BY <1>1, <1>3
<1> QED
  BY <1>1, <1>2, <1>6, <1>7, <1>8, <1>9

\* A queue of one report.
LEMMA OneChained ==
  ASSUME NEW r \in Reports, Shape(r)
  PROVE  <<r>> \in Seq(Reports) /\ Chained(<<r>>) /\ <<r>> # <<>> /\ <<r>>[Len(<<r>>)] = r
<1>1. Len(<<r>>) = 1 /\ <<r>>[1] = r /\ <<r>> \in Seq(Reports)
  OBVIOUS
<1> QED
  BY <1>1 DEF Chained
-----------------------------------------------------------------------------
(* The reports build_frames_multi makes *)

\* Any fields in their ranges make a report.
LEMMA ReportType ==
  ASSUME NEW m \in 1..MaxMessages, NEW h \in BOOLEAN, NEW l \in Nat, NEW a \in Nat,
         NEW b \in Nat, NEW t \in Endings
  PROVE  [msg |-> m, header |-> h, len |-> l, from |-> a, upto |-> b, trail |-> t] \in Reports
BY DEF Reports

\* Behind the last report of an unfinished payload, a raw report with the
\* next FrameSize bytes, or what is left of them, extends the chain.
LEMMA RawCarriesOn ==
  ASSUME TypeOK, StreamInv, bpc = "build", NEW u \in Nat, u = MinOf(Done + FrameSize, size),
         NEW w \in Endings, Rest > 0
  PROVE  /\ Done \in Nat /\ Rest \in Nat
         /\ Raw(Done, u, w) \in Reports /\ Shape(Raw(Done, u, w))
         /\ Raw(Done, u, w).len = size /\ Raw(Done, u, w).msg = turn
         /\ Raw(Done, u, w).upto = u
         /\ frames # <<>> /\ Follows(frames[Len(frames)], Raw(Done, u, w))
<1> DEFINE last == frames[Len(frames)]
           r == Raw(Done, u, w)
<1>1. frames \in Seq(Reports) /\ frames # <<>> /\ size \in Nat /\ turn \in 0..MaxMessages
  BY DEF TypeOK, StreamInv
<1>2. Len(frames) \in 1..Len(frames)
  BY <1>1, EmptySeq
<1>3. last \in Reports /\ Shape(last)
  BY <1>1, <1>2, ElementOfSeq DEF StreamInv, Chained
<1>4. last.len = size /\ last.msg = turn
  BY DEF StreamInv
<1>5. last.upto \in Nat /\ last.upto <= size /\ last.msg \in 1..MaxMessages
  BY <1>3, <1>4 DEF Shape, Reports
<1>6. Done = last.upto /\ Done < size
  BY <1>5, <1>1 DEF Done, Rest
<1>7. r = [msg |-> turn, header |-> FALSE, len |-> size, from |-> Done, upto |-> u, trail |-> w]
  BY DEF Raw
<1>8. u \in Done..size
  BY <1>1, <1>5, <1>6, Sizing DEF MinOf
<1>t. turn \in 1..MaxMessages /\ Done \in Nat /\ size \in Nat
  BY <1>1, <1>4, <1>5, <1>6
<1>9. r \in Reports
  BY <1>t, <1>7, ReportType
<1>10. Shape(r)
  BY <1>7, <1>8 DEF Shape
<1>11. Follows(last, r)
  BY <1>4, <1>6, <1>7 DEF Follows, CarriesOn
<1> QED
  BY <1>1, <1>5, <1>6, <1>7, <1>9, <1>10, <1>11 DEF Rest

\* A report of the trailer alone extends the chain of a finished payload.
LEMMA TrailerReport ==
  ASSUME TypeOK, NEW q \in Seq(Reports), q # <<>>, q[Len(q)].upto = size,
         q[Len(q)].len = size, q[Len(q)].msg = turn
  PROVE  /\ Raw(size, size, Trailer) \in Reports /\ Shape(Raw(size, size, Trailer))
         /\ Follows(q[Len(q)], Raw(size, size, Trailer))
         /\ Raw(size, size, Trailer).len = size /\ Raw(size, size, Trailer).msg = turn
<1> DEFINE r == Raw(size, size, Trailer)
<1>1. r = [msg |-> turn, header |-> FALSE, len |-> size, from |-> size, upto |-> size,
           trail |-> Trailer]
  BY DEF Raw
<1>2. Len(q) \in 1..Len(q)
  BY EmptySeq
<1>3. q[Len(q)] \in Reports
  BY <1>2, ElementOfSeq
<1>4. turn \in 1..MaxMessages /\ size \in Nat
  BY <1>3 DEF Reports, TypeOK
<1>t. Trailer \in Endings
  BY DEF Endings
<1>5. r \in Reports /\ Shape(r)
  BY <1>1, <1>4, <1>t DEF Reports, Shape
<1>6. Follows(q[Len(q)], r)
  BY <1>4 DEF Follows
<1> QED
  BY <1>1, <1>5, <1>6

\* A builder that does not send leaves the reader's next report where it is.
LEMMA ReaderUntouched ==
  ASSUME ReaderInv, bpc # "send", UNCHANGED <<line, reader>>
  PROVE  ReaderInv'
BY DEF ReaderInv, reader, CarriesOn, MinOf
-----------------------------------------------------------------------------
(* The builder's steps *)

\* A payload is begun.
LEMMA BeginStep ==
  ASSUME FramingInv,
         NEW n \in Sizes,
         BeginSingle(n) \/ BeginShort(n) \/ BeginMulti(n)
  PROVE  FramingInv'
<1> USE DEF FramingInv
<1>0. n \in Nat
  BY Sizing
<1>r. Trailer \in Endings /\ NoTrailer \in Endings /\ <<"chk">> \in Endings
  BY DEF Endings
<1>f. bpc \in {"idle", "raised"} => frames = <<>>
  BY DEF StreamInv
<1>1. CASE BeginSingle(n)
  <2> DEFINE r == Headed(n, n, Trailer)
  <2>1. turn' \in 1..MaxMessages /\ bpc = "idle" /\ n <= Single
    BY <1>1, Sizing DEF BeginSingle, BeginAny, TypeOK
  <2>2. r = [msg |-> turn', header |-> TRUE, len |-> n, from |-> 0, upto |-> n, trail |-> Trailer]
    BY DEF Headed
  <2>3. r \in Reports
    BY <1>0, <1>r, <2>1, <2>2, ReportType
  <2>4. Shape(r)
    BY <1>0, <2>1, <2>2, Sizing DEF Shape, Present, IsMulti, MinOf
  <2>5. /\ frames' = <<r>> /\ size' = n /\ bpc' = "built" /\ UNCHANGED <<line, reader>>
    BY <1>1 DEF BeginSingle, BeginAny
  <2>6. frames' \in Seq(Reports) /\ Chained(frames') /\ frames' # <<>> /\ frames'[Len(frames')] = r
    BY <2>3, <2>4, <2>5, OneChained
  <2>7. r.len = size' /\ r.msg = turn' /\ r.upto = r.len
    BY <2>2, <2>5
  <2>8. TypeOK'
    BY <1>0, <2>1, <2>5, <2>6 DEF TypeOK, reader
  <2>9. StreamInv'
    BY <2>1, <2>5, <2>6, <2>7 DEF StreamInv, Ended, Chained
  <2> QED BY <2>1, <2>5, <2>8, <2>9, ReaderUntouched
<1>2. CASE BeginShort(n)
  <2>1. /\ turn' \in 0..MaxMessages /\ bpc = "idle" /\ bpc' = "raised" /\ size' = n
        /\ frames' = <<>> /\ frames = <<>> /\ UNCHANGED <<line, reader>>
    BY <1>2, <1>f, Sizing DEF BeginShort, BeginAny, TypeOK
  <2>2. TypeOK'
    BY <1>0, <2>1 DEF TypeOK, reader
  <2>3. StreamInv'
    BY <2>1 DEF StreamInv, Ended, Chained
  <2> QED BY <2>1, <2>2, <2>3, ReaderUntouched
<1>3. CASE BeginMulti(n)
  <2> DEFINE r == Headed(n, First, NoTrailer)
  <2>1. turn' \in 1..MaxMessages /\ bpc = "idle" /\ n >= First
    BY <1>3, Sizing DEF BeginMulti, BeginAny, TypeOK
  <2>2. r = [msg |-> turn', header |-> TRUE, len |-> n, from |-> 0, upto |-> First, trail |-> NoTrailer]
    BY DEF Headed
  <2>3. r \in Reports
    <3>1. First \in Nat
      BY Sizing
    <3> QED BY <1>0, <1>r, <2>1, <2>2, <3>1, ReportType
  <2>4. Shape(r)
    BY <1>0, <2>1, <2>2, Sizing DEF Shape, Present, IsMulti, MinOf
  <2>5. /\ frames' = <<r>> /\ size' = n /\ bpc' = "build" /\ UNCHANGED <<line, reader>>
    BY <1>3 DEF BeginMulti, BeginAny
  <2>6. frames' \in Seq(Reports) /\ Chained(frames') /\ frames' # <<>> /\ frames'[Len(frames')] = r
    BY <2>3, <2>4, <2>5, OneChained
  <2>7. r.len = size' /\ r.msg = turn'
    BY <2>2, <2>5
  <2>8. TypeOK'
    BY <1>0, <2>1, <2>5, <2>6 DEF TypeOK, reader
  <2>9. StreamInv'
    BY <2>1, <2>5, <2>6, <2>7 DEF StreamInv, Ended, Chained
  <2> QED BY <2>1, <2>5, <2>8, <2>9, ReaderUntouched
<1> QED
  BY <1>1, <1>2, <1>3

\* Reports are added to a payload, or it is finished or given up.
LEMMA BuildStep ==
  ASSUME FramingInv, Middle \/ Last \/ Spill \/ Built \/ Recover
  PROVE  FramingInv'
<1> USE DEF FramingInv
<1>r. Trailer \in Endings /\ NoTrailer \in Endings /\ <<"chk">> \in Endings
  BY DEF Endings
<1>4. ASSUME NEW u \in Nat, NEW w \in Endings, bpc = "build", Rest > 0,
             u = MinOf(Done + FrameSize, size),
             Build(Append(frames, Raw(Done, u, w)))
      PROVE  FramingInv'
  <2> DEFINE r == Raw(Done, u, w)
  <2>1. /\ r \in Reports /\ Shape(r) /\ r.len = size /\ r.msg = turn
        /\ frames # <<>> /\ Follows(frames[Len(frames)], r)
    BY <1>4, RawCarriesOn
  <2>2. frames \in Seq(Reports) /\ Chained(frames)
    BY DEF TypeOK, StreamInv
  <2>3. /\ frames' = Append(frames, r)
        /\ UNCHANGED <<bpc, size, turn, line, reader>>
    BY <1>4 DEF Build
  <2>4. /\ frames' \in Seq(Reports) /\ Chained(frames') /\ frames' # <<>>
        /\ frames'[Len(frames')] = r
    BY <2>1, <2>2, <2>3, AppendChained
  <2>5. TypeOK'
    BY <2>3, <2>4 DEF TypeOK, reader
  <2>6. StreamInv'
    BY <1>4, <2>1, <2>3, <2>4 DEF StreamInv, Ended, Chained
  <2> QED BY <1>4, <2>3, <2>5, <2>6, ReaderUntouched
<1>d. bpc = "build" => Done \in Nat /\ size \in Nat
  <2>1. frames \in Seq(Reports) /\ (bpc = "build" => frames # <<>>)
    BY DEF TypeOK, StreamInv
  <2>2. bpc = "build" => Len(frames) \in 1..Len(frames)
    BY <2>1, EmptySeq
  <2>3. bpc = "build" => frames[Len(frames)] \in Reports
    BY <2>1, <2>2, ElementOfSeq
  <2>4. bpc = "build" => Done \in Nat
    BY <2>3 DEF Done, Reports
  <2> QED BY <2>4 DEF TypeOK
<1>5. CASE Middle
  <2>1. /\ bpc = "build" /\ Rest > FrameSize
        /\ Build(Append(frames, Raw(Done, Done + FrameSize, NoTrailer)))
    BY <1>5 DEF Middle
  <2>2. Done + FrameSize \in Nat /\ Done + FrameSize = MinOf(Done + FrameSize, size) /\ Rest > 0
    BY <1>d, <2>1, Sizing DEF Rest, MinOf
  <2> QED BY <1>4, <1>r, <2>1, <2>2
<1>6. CASE Last
  <2>1. /\ bpc = "build" /\ Rest \in 1..FrameSize
        /\ Build(Append(frames, Raw(Done, size, Trailer)))
    BY <1>6 DEF Last
  <2>2. size \in Nat /\ size = MinOf(Done + FrameSize, size) /\ Rest > 0
    BY <1>d, <2>1, Sizing DEF Rest, MinOf
  <2> QED BY <1>4, <1>r, <2>1, <2>2
<1>7. CASE Spill
  <2> DEFINE w == IF Rest < FrameSize THEN <<"chk">> ELSE NoTrailer
             c == Raw(Done, size, w)
             t == Raw(size, size, Trailer)
             q == Append(frames, c)
  <2>1. /\ bpc = "build" /\ Rest \in 1..FrameSize
        /\ frames' = Append(q, t)
        /\ UNCHANGED <<bpc, size, turn, line, reader>>
    BY <1>7 DEF Spill, CutReport, Build
  <2>2. size \in Nat /\ size = MinOf(Done + FrameSize, size) /\ Rest > 0
    BY <1>d, <2>1, Sizing DEF Rest, MinOf
  <2>w. w \in Endings
    BY <1>r
  <2>3. /\ c \in Reports /\ Shape(c) /\ c.len = size /\ c.msg = turn /\ c.upto = size
        /\ frames # <<>> /\ Follows(frames[Len(frames)], c)
    BY <2>1, <2>2, <2>w, RawCarriesOn
  <2>4. frames \in Seq(Reports) /\ Chained(frames)
    BY DEF TypeOK, StreamInv
  <2>5. q \in Seq(Reports) /\ Chained(q) /\ q # <<>> /\ q[Len(q)] = c
    BY <2>3, <2>4, AppendChained
  <2>6. t \in Reports /\ Shape(t) /\ Follows(q[Len(q)], t) /\ t.len = size /\ t.msg = turn
    BY <2>3, <2>5, TrailerReport
  <2>7. /\ frames' \in Seq(Reports) /\ Chained(frames') /\ frames' # <<>>
        /\ frames'[Len(frames')] = t
    BY <2>1, <2>5, <2>6, AppendChained
  <2>8. TypeOK'
    BY <2>1, <2>7 DEF TypeOK, reader
  <2>9. StreamInv'
    BY <2>1, <2>6, <2>7 DEF StreamInv, Ended, Chained
  <2> QED BY <2>1, <2>8, <2>9, ReaderUntouched
<1>8. CASE Built
  <2>1. /\ bpc = "build" /\ Rest = 0 /\ bpc' = "built"
        /\ UNCHANGED <<size, frames, turn, line, reader>>
    BY <1>8 DEF Built
  <2>2. frames[Len(frames)].upto = size /\ frames[Len(frames)].len = size
    BY <1>d, <2>1 DEF Rest, Done, StreamInv
  <2>3. TypeOK'
    BY <2>1 DEF TypeOK, reader
  <2>4. StreamInv'
    BY <2>1, <2>2 DEF StreamInv, Ended, Chained
  <2> QED BY <2>1, <2>3, <2>4, ReaderUntouched
<1>9. CASE Recover
  <2>1. bpc = "raised" /\ bpc' = "idle" /\ UNCHANGED <<size, frames, turn, line, reader>>
    BY <1>9 DEF Recover
  <2>2. TypeOK'
    BY <2>1 DEF TypeOK, reader
  <2>3. StreamInv'
    BY <2>1 DEF StreamInv, Ended, Chained
  <2> QED BY <2>1, <2>2, <2>3, ReaderUntouched
<1> QED
  BY <1>5, <1>6, <1>7, <1>8, <1>9
-----------------------------------------------------------------------------
(* send_frames and the reader's steps *)

\* A report passes from the builder to the queue.
LEMMA SendStep ==
  ASSUME FramingInv, Send
  PROVE  FramingInv'
<1> USE DEF FramingInv
<1> DEFINE f == Head(frames)
<1>1. /\ bpc \in {"built", "send"} /\ line' = Append(line, f) /\ frames' = Tail(frames)
      /\ bpc' = (IF Len(frames) = 1 THEN "idle" ELSE "send")
      /\ UNCHANGED <<size, turn, reader>>
  BY DEF Send
<1>2. frames \in Seq(Reports) /\ frames # <<>> /\ Chained(frames) /\ Ended(frames)
  BY <1>1 DEF TypeOK, StreamInv
<1>3. line \in Seq(Reports) /\ Chained(line)
  BY DEF TypeOK, StreamInv
<1>4. /\ frames' \in Seq(Reports) /\ Chained(frames')
      /\ f \in Reports /\ Shape(f) /\ f = frames[1]
      /\ Len(frames) = 1 <=> frames' = <<>>
      /\ frames' # <<>> => Follows(f, frames'[1]) /\ frames'[Len(frames')] = frames[Len(frames)]
      /\ frames' = <<>> => f = frames[Len(frames)]
  BY <1>1, <1>2, TailChained
<1>5. line # <<>> => Follows(line[Len(line)], f)
  <2>1. line # <<>> => Len(line) \in 1..Len(line)
    BY <1>3, EmptySeq
  <2>e. line # <<>> => line[Len(line)] \in Reports
    BY <1>3, <2>1, ElementOfSeq
  <2>2. line # <<>> => line[Len(line)].upto \in Nat /\ line[Len(line)].len \in Nat
    BY <2>e DEF Reports
  <2>3. CASE bpc = "send"
    BY <1>4, <2>3 DEF StreamInv
  <2>4. CASE bpc = "built"
    BY <2>2, <2>4 DEF StreamInv, Ended, Follows
  <2> QED BY <1>1, <2>3, <2>4
<1>6. /\ line' \in Seq(Reports) /\ Chained(line') /\ line' # <<>>
      /\ line'[Len(line')] = f
      /\ line # <<>> => line'[1] = line[1]
      /\ line = <<>> => line'[1] = f
  BY <1>1, <1>3, <1>4, <1>5, AppendChained
<1>7. TypeOK'
  BY <1>1, <1>4, <1>6 DEF TypeOK, reader
<1>8. StreamInv'
  BY <1>1, <1>2, <1>4, <1>6 DEF StreamInv, Ended
<1>9. ReaderInv'
  BY <1>1, <1>4, <1>6 DEF ReaderInv, reader, CarriesOn, MinOf
<1> QED BY <1>7, <1>8, <1>9

\* A report passes from the queue to the reader.
LEMMA TakeHead ==
  ASSUME FramingInv, line # <<>>, line' = Tail(line), UNCHANGED builder
  PROVE  /\ line' \in Seq(Reports) /\ StreamInv'
         /\ Head(line) \in Reports /\ Shape(Head(line)) /\ Head(line) = line[1]
         /\ Head(line).upto < Head(line).len =>
              LET r == Head(line) IN
              /\ line' # <<>> => CarriesOn(line'[1], r.msg, r.len, r.upto)
              /\ line' = <<>> => bpc' = "send" /\ CarriesOn(frames'[1], r.msg, r.len, r.upto)
<1> USE DEF FramingInv
<1> DEFINE r == Head(line)
<1>1. line \in Seq(Reports) /\ Chained(line)
  BY DEF TypeOK, StreamInv
<1>2. /\ line' \in Seq(Reports) /\ Chained(line')
      /\ r \in Reports /\ Shape(r) /\ r = line[1]
      /\ line' # <<>> => Follows(r, line'[1]) /\ line'[Len(line')] = line[Len(line)]
      /\ line' = <<>> => r = line[Len(line)]
  BY <1>1, TailChained
<1>3. UNCHANGED <<bpc, size, frames, turn>>
  BY DEF builder
<1>4. StreamInv'
  BY <1>2, <1>3 DEF StreamInv, Ended
<1>5. r.upto \in Nat /\ r.len \in Nat
  BY <1>2 DEF Reports
<1>6. r.upto < r.len /\ line' # <<>> => CarriesOn(line'[1], r.msg, r.len, r.upto)
  BY <1>2 DEF Follows
<1>7. ASSUME r.upto < r.len, line' = <<>>
      PROVE  bpc' = "send" /\ CarriesOn(frames'[1], r.msg, r.len, r.upto)
  <2>1. ~Ended(line)
    BY <1>2, <1>5, <1>7 DEF Ended
  <2>2. bpc = "send" /\ Follows(r, frames[1])
    BY <1>2, <1>7, <2>1 DEF StreamInv
  <2> QED BY <1>3, <1>7, <2>2 DEF Follows, CarriesOn, MinOf
<1> QED BY <1>2, <1>4, <1>6, <1>7

\* read_frame and read_response keep the invariant.
LEMMA ReaderStep ==
  ASSUME FramingInv, Call \/ SkipHeadless \/ ReadFirst \/ Collect \/ Deadline \/ Return
  PROVE  FramingInv'
<1> USE DEF FramingInv
<1>1. CASE Call \/ Deadline \/ Return
  <2>1. /\ UNCHANGED <<builder, line, of, want, got, exact>>
        /\ rpc' \in {"idle", "first", "partial"}
    BY <1>1 DEF Call, Deadline, Return
  <2>2. TypeOK'
    BY <2>1 DEF TypeOK, builder
  <2>3. StreamInv'
    BY <2>1 DEF StreamInv, builder, Ended, Chained
  <2>4. ReaderInv'
    BY <2>1 DEF ReaderInv
  <2> QED BY <2>2, <2>3, <2>4
<1>2. CASE SkipHeadless
  <2>1. line # <<>> /\ line' = Tail(line) /\ UNCHANGED <<builder, reader>> /\ rpc = "first"
    BY <1>2 DEF SkipHeadless
  <2>2. line' \in Seq(Reports) /\ StreamInv'
    BY <2>1, TakeHead
  <2>3. TypeOK'
    BY <2>1, <2>2 DEF TypeOK, builder, reader
  <2>4. ReaderInv'
    BY <2>1 DEF ReaderInv, reader
  <2> QED BY <2>2, <2>3, <2>4
<1>3. CASE ReadFirst
  <2> DEFINE r == Head(line)
  <2>1. /\ line # <<>> /\ line' = Tail(line) /\ UNCHANGED builder
        /\ r.header /\ of' = r.msg /\ want' = r.len /\ got' = Present(r)
        /\ exact' = Carries(r, r.msg, 0, Present(r))
        /\ rpc' = (IF IsMulti(r) /\ Present(r) < r.len THEN "collect" ELSE "done")
    BY <1>3 DEF ReadFirst
  <2>2. /\ line' \in Seq(Reports) /\ StreamInv'
        /\ r \in Reports /\ Shape(r)
        /\ r.upto < r.len =>
              /\ line' # <<>> => CarriesOn(line'[1], r.msg, r.len, r.upto)
              /\ line' = <<>> => bpc' = "send" /\ CarriesOn(frames'[1], r.msg, r.len, r.upto)
    BY <2>1, TakeHead
  <2>3. r.len \in Nat /\ r.msg \in 1..MaxMessages /\ r.upto \in Nat
    BY <2>2 DEF Reports
  <2>4. r.from = 0 /\ r.upto = Present(r)
    BY <2>1, <2>2 DEF Shape
  <2>5. Present(r) \in 0..r.len /\ (~IsMulti(r) => Present(r) = r.len)
    BY <2>3, Sizing DEF Present, IsMulti, MinOf
  <2>c. Carries(r, r.msg, 0, Present(r))
    BY <2>3, <2>4, <2>5 DEF Carries
  <2>6. exact' = TRUE
    BY <2>1, <2>c, Zenon
  <2>t. /\ rpc' \in {"collect", "done"} /\ of' \in 0..MaxMessages
        /\ want' \in Nat /\ got' \in 0..want'
    BY <2>1, <2>3, <2>5, Sizing
  <2>7. TypeOK'
    BY <2>1, <2>2, <2>6, <2>t DEF TypeOK, builder
  <2>8. rpc' = "done" => got' = want'
    BY <2>1, <2>3, <2>5
  <2>9. rpc' = "collect" => r.upto < r.len /\ got' < want' /\ got' = r.upto
    BY <2>1, <2>4
  <2>10. ReaderInv'
    BY <2>1, <2>2, <2>6, <2>8, <2>9 DEF ReaderInv, CarriesOn, MinOf
  <2> QED BY <2>2, <2>7, <2>10
<1>4. CASE Collect
  <2> DEFINE r == Head(line)
  <2>1. /\ rpc = "collect" /\ line # <<>> /\ line' = Tail(line) /\ UNCHANGED <<builder, of, want>>
        /\ got' = got + Take
        /\ exact' = (exact /\ Carries(r, of, got, Take))
        /\ rpc' = (IF got + Take >= want THEN "done" ELSE "collect")
    BY <1>4 DEF Collect
  <2>2. /\ line' \in Seq(Reports) /\ StreamInv' /\ r \in Reports /\ r = line[1]
        /\ r.upto < r.len =>
              /\ line' # <<>> => CarriesOn(line'[1], r.msg, r.len, r.upto)
              /\ line' = <<>> => bpc' = "send" /\ CarriesOn(frames'[1], r.msg, r.len, r.upto)
    BY <2>1, TakeHead
  <2>3. exact /\ got < want /\ CarriesOn(r, of, want, got)
    BY <2>1, <2>2 DEF ReaderInv
  <2>4. want \in Nat /\ got \in Nat
    BY DEF TypeOK
  <2>5. /\ r.msg = of /\ r.len = want /\ r.from = got /\ r.upto = got + Take
        /\ got + Take <= want /\ got + Take \in Nat
    BY <2>3, <2>4, Sizing DEF CarriesOn, Take, MinOf
  <2>c. Carries(r, of, got, Take)
    BY <2>3, <2>4, <2>5 DEF Carries
  <2>6. exact' = TRUE
    BY <2>1, <2>3, <2>c, Zenon
  <2>7. TypeOK'
    BY <2>1, <2>2, <2>4, <2>5, <2>6 DEF TypeOK, builder
  <2>8. rpc' = "done" => got' = want'
    BY <2>1, <2>4, <2>5
  <2>9. rpc' = "collect" => r.upto < r.len /\ got' < want' /\ got' = r.upto
    BY <2>1, <2>4, <2>5
  <2>10. of' = r.msg /\ want' = r.len
    BY <2>1, <2>5
  <2>11. ReaderInv'
    BY <2>2, <2>6, <2>8, <2>9, <2>10 DEF ReaderInv, CarriesOn, MinOf
  <2> QED BY <2>2, <2>7, <2>11
<1> QED
  BY <1>1, <1>2, <1>3, <1>4

-----------------------------------------------------------------------------
(* The theorems *)

\* The invariant of Framing is inductive.
LEMMA Inductive == Spec => []FramingInv
<1>1. Init => FramingInv
  <2> SUFFICES ASSUME Init PROVE FramingInv OBVIOUS
  <2>1. <<>> \in Seq(Reports) /\ Len(<<>>) = 0
    BY EmptySeq
  <2>2. TypeOK
    BY <2>1, Sizing DEF Init, TypeOK
  <2>3. StreamInv
    BY <2>1 DEF Init, StreamInv, Chained
  <2>4. ReaderInv
    BY DEF Init, ReaderInv
  <2> QED BY <2>2, <2>3, <2>4 DEF FramingInv
<1>2. FramingInv /\ [Next]_vars => FramingInv'
  <2> SUFFICES ASSUME FramingInv, [Next]_vars PROVE FramingInv' OBVIOUS
  <2>1. ASSUME NEW n \in Sizes, BeginSingle(n) \/ BeginShort(n) \/ BeginMulti(n)
        PROVE  FramingInv'
    BY <2>1, BeginStep
  <2>2. CASE Middle \/ Last \/ Spill \/ Built \/ Recover
    BY <2>2, BuildStep
  <2>3. CASE Send
    BY <2>3, SendStep
  <2>4. CASE Call \/ SkipHeadless \/ ReadFirst \/ Collect \/ Deadline \/ Return
    BY <2>4, ReaderStep
  <2>5. CASE UNCHANGED vars
    <3>1. UNCHANGED <<bpc, size, frames, turn, line, rpc, of, want, got, exact>>
      BY <2>5 DEF vars, builder, reader
    <3> QED BY <3>1 DEF FramingInv, TypeOK, StreamInv, ReaderInv, Ended, Chained
  <2> QED BY <2>1, <2>2, <2>3, <2>4, <2>5 DEF Next
<1> QED BY <1>1, <1>2, PTL DEF Spec

\* The locals of the four functions stay in their domains: in particular the
\* reader never collects more bytes than were declared.
THEOREM TypeCorrect == Spec => []TypeOK
<1>1. FramingInv => TypeOK
  BY DEF FramingInv
<1> QED BY <1>1, Inductive, PTL

\* parse_frame and read_response undo build_frames_multi at every length, for
\* reports and headers of any size, whatever earlier calls left unread.
THEOREM RoundTrip == Spec => []AssembledIsPayload
<1>1. FramingInv => AssembledIsPayload
  BY DEF FramingInv, ReaderInv, AssembledIsPayload
<1> QED BY <1>1, Inductive, PTL
-----------------------------------------------------------------------------
(* What follows the end of a payload *)

\* Append and Tail, report by report.
LEMMA Appended ==
  ASSUME NEW q \in Seq(Reports), NEW r \in Reports
  PROVE  /\ Len(Append(q, r)) = Len(q) + 1 /\ Len(q) \in Nat
         /\ \A i \in 1..Len(Append(q, r)) :
              IF i = Len(q) + 1 THEN Append(q, r)[i] = r
              ELSE i \in 1..Len(q) /\ Append(q, r)[i] = q[i]
BY AppendProperties, LenProperties

LEMMA Tailed ==
  ASSUME NEW q \in Seq(Reports), q # <<>>
  PROVE  /\ Len(Tail(q)) = Len(q) - 1 /\ Len(q) \in Nat /\ 1 \in 1..Len(q) /\ Head(q) = q[1]
         /\ \A i \in 1..Len(Tail(q)) : i + 1 \in 1..Len(q) /\ Tail(q)[i] = q[i + 1]
BY HeadTailProperties, EmptySeq, LenProperties

\* A queue stays settled when what comes behind it is, and when its head goes.
LEMMA AppendSettled ==
  ASSUME NEW q \in Seq(Reports), NEW r \in Reports, Settled(q),
         \A i \in 1..Len(q) : Behind(q[i], r)
  PROVE  Settled(Append(q, r))
<1> SUFFICES ASSUME NEW i \in 1..Len(Append(q, r)), NEW j \in 1..Len(Append(q, r)), i < j
             PROVE  Behind(Append(q, r)[i], Append(q, r)[j])
  BY DEF Settled
<1>1. Len(Append(q, r)) = Len(q) + 1 /\ Len(q) \in Nat /\ i \in 1..Len(q) /\ Append(q, r)[i] = q[i]
  BY Appended
<1>2. CASE j \in 1..Len(q)
  <2>1. Append(q, r)[j] = q[j]
    BY <1>1, <1>2, Appended
  <2> QED BY <1>1, <1>2, <2>1 DEF Settled
<1>3. CASE j = Len(q) + 1
  <2>1. Append(q, r)[j] = r
    BY <1>1, <1>3, Appended
  <2> QED BY <1>1, <2>1
<1> QED BY <1>1, <1>2, <1>3

LEMMA TailSettled ==
  ASSUME NEW q \in Seq(Reports), q # <<>>, Settled(q)
  PROVE  /\ Settled(Tail(q))
         /\ \A j \in 1..Len(Tail(q)) : Behind(Head(q), Tail(q)[j])
<1>1. ASSUME NEW i \in 1..Len(Tail(q)), NEW j \in 1..Len(Tail(q)), i < j
      PROVE  Behind(Tail(q)[i], Tail(q)[j])
  <2>1. i + 1 \in 1..Len(q) /\ j + 1 \in 1..Len(q) /\ i + 1 < j + 1
        /\ Tail(q)[i] = q[i + 1] /\ Tail(q)[j] = q[j + 1]
    BY <1>1, Tailed
  <2> QED BY <2>1 DEF Settled
<1>2. ASSUME NEW j \in 1..Len(Tail(q)) PROVE Behind(Head(q), Tail(q)[j])
  <2>1. 1 \in 1..Len(q) /\ j + 1 \in 1..Len(q) /\ 1 < j + 1
        /\ Head(q) = q[1] /\ Tail(q)[j] = q[j + 1]
    BY <1>2, Tailed
  <2> QED BY <2>1 DEF Settled
<1> QED BY <1>1, <1>2 DEF Settled

\* What is added to an unfinished payload is a report of it.
LEMMA BuildsOn ==
  ASSUME FramingInv, bpc = "build", NEW w \in Endings
  PROVE  /\ Done \in Nat /\ Rest = size - Done
         /\ Rest > FrameSize => /\ Rest > 0
                                /\ Raw(Done, Done + FrameSize, w) \in Reports
                                /\ Raw(Done, Done + FrameSize, w).msg = turn
         /\ Rest \in 1..FrameSize => /\ Rest > 0
                                     /\ Raw(Done, size, w) \in Reports
                                     /\ Raw(Done, size, w).msg = turn
                                     /\ Raw(size, size, w) \in Reports
<1>1. frames \in Seq(Reports) /\ frames # <<>> /\ frames[Len(frames)].upto = Done /\ size \in Nat
  BY DEF FramingInv, TypeOK, StreamInv, Done
<1>2. Len(frames) \in 1..Len(frames)
  BY <1>1, EmptySeq
<1>3. frames[Len(frames)] \in Reports
  BY <1>1, <1>2, ElementOfSeq
<1>4. Done \in Nat /\ Rest = size - Done
  BY <1>1, <1>3 DEF Reports, Rest
<1>5. ASSUME Rest > FrameSize
      PROVE  Rest > 0 /\ Done + FrameSize \in Nat /\ Done + FrameSize = MinOf(Done + FrameSize, size)
  BY <1>1, <1>4, <1>5, Sizing DEF MinOf
<1>6. ASSUME Rest \in 1..FrameSize
      PROVE  Rest > 0 /\ size = MinOf(Done + FrameSize, size)
  BY <1>1, <1>4, <1>6, Sizing DEF MinOf
<1>7. ASSUME NEW u \in Nat, u = MinOf(Done + FrameSize, size), Rest > 0
      PROVE  Raw(Done, u, w) \in Reports /\ Raw(Done, u, w).msg = turn
  BY <1>7, RawCarriesOn DEF FramingInv
<1>8. ASSUME Raw(Done, size, w) \in Reports PROVE Raw(size, size, w) \in Reports
  <2>1. Raw(Done, size, w).msg = turn
    BY DEF Raw
  <2>2. turn \in 1..MaxMessages
    BY <1>8, <2>1 DEF Reports
  <2> QED BY <1>1, <2>2, ReportType DEF Raw
<1> QED BY <1>1, <1>4, <1>5, <1>6, <1>7, <1>8

\* A report is added to the payload being built.
LEMMA BuildLeftover ==
  ASSUME FramingInv, LeftoverInv, bpc = "build", NEW q \in Seq(Reports), NEW r \in Reports,
         r.msg = turn, Settled(q), \A i \in 1..Len(q) : q[i].msg = turn /\ Behind(q[i], r),
         frames' = Append(q, r), UNCHANGED <<bpc, size, turn, line, reader>>
  PROVE  LeftoverInv'
<1>1. line \in Seq(Reports) /\ turn \in Nat /\ of \in Nat
  BY Sizing DEF FramingInv, TypeOK
<1>2. Settled(frames')
  BY AppendSettled
<1>3. \A i \in 1..Len(frames') : frames'[i].msg = turn
  BY Appended
<1>4. \A i \in 1..Len(line) : line[i].msg # turn
  <2> SUFFICES ASSUME NEW i \in 1..Len(line) PROVE line[i].msg # turn
    OBVIOUS
  <2>1. line[i] \in Reports
    BY <1>1, ElementOfSeq
  <2>2. line[i].msg \in Nat
    BY <2>1, Sizing DEF Reports
  <2>3. line[i].msg < turn
    BY DEF LeftoverInv, Numbered, InBuilding
  <2> QED BY <1>1, <2>2, <2>3
<1>5. SettledOver(line', frames')
  BY <1>3, <1>4 DEF SettledOver, Behind
<1>6. NothingBehind'
  BY <1>2, <1>5 DEF LeftoverInv, NothingBehind, Settled
<1>7. Numbered'
  BY <1>3 DEF LeftoverInv, Numbered, InBuilding, reader
<1>8. LeftoverIsTrailer'
  <2>1. rpc = "done" => of # turn
    BY <1>1 DEF LeftoverInv, Numbered, InBuilding
  <2> QED BY <1>3, <2>1 DEF LeftoverInv, LeftoverIsTrailer, reader
<1> QED BY <1>6, <1>7, <1>8 DEF LeftoverInv

\* A payload is begun or built on.
LEMMA BuilderLeftover ==
  ASSUME FramingInv, LeftoverInv,
         \/ \E n \in Sizes : BeginSingle(n) \/ BeginShort(n) \/ BeginMulti(n)
         \/ Middle \/ Last \/ Spill \/ Built \/ Recover
  PROVE  LeftoverInv'
<1>1. /\ line \in Seq(Reports) /\ frames \in Seq(Reports) /\ turn \in Nat /\ of \in Nat
      /\ size \in Nat
  BY Sizing DEF FramingInv, TypeOK
<1>2. \A i \in 1..Len(line) : line[i].msg \in Nat
  <2>1. \A i \in 1..Len(line) : line[i] \in Reports
    BY <1>1, ElementOfSeq
  <2> QED BY <2>1, Sizing DEF Reports
<1>3. ASSUME NEW n \in Sizes, BeginSingle(n) \/ BeginShort(n) \/ BeginMulti(n)
      PROVE  LeftoverInv'
  <2>1. turn' = turn + 1 /\ UNCHANGED <<line, reader>>
    BY <1>3 DEF BeginSingle, BeginShort, BeginMulti, BeginAny
  <2>2. frames' = <<>> \/ \E r : r.msg = turn' /\ frames' = <<r>>
    BY <1>3 DEF BeginSingle, BeginShort, BeginMulti, Headed
  <2>3. Settled(frames') /\ \A i \in 1..Len(frames') : frames'[i].msg = turn'
    BY <2>2 DEF Settled
  <2>4. \A i \in 1..Len(line) : line[i].msg <= turn
    BY DEF LeftoverInv, Numbered
  <2>5. \A i \in 1..Len(line) : line[i].msg < turn'
    BY <1>1, <1>2, <2>1, <2>4
  <2>6. \A i \in 1..Len(line) : line[i].msg # turn'
    BY <1>1, <1>2, <2>1, <2>5
  <2>7. NothingBehind'
    BY <2>1, <2>3, <2>6 DEF LeftoverInv, NothingBehind, Settled, SettledOver, Behind
  <2>8. rpc \in {"collect", "done"} => of < turn'
    BY <1>1, <2>1 DEF LeftoverInv, Numbered
  <2>9. Numbered'
    BY <1>1, <1>2, <2>1, <2>3, <2>5, <2>8 DEF Numbered, reader
  <2>10. LeftoverIsTrailer'
    BY <1>1, <2>1, <2>3, <2>8 DEF LeftoverInv, LeftoverIsTrailer, reader
  <2> QED BY <2>7, <2>9, <2>10 DEF LeftoverInv
<1>4. ASSUME bpc = "build", Rest > 0
      PROVE  /\ Settled(frames)
             /\ \A i \in 1..Len(frames) : frames[i].msg = turn /\ frames[i].upto # frames[i].len
  <2>1. frames # <<>> /\ frames[Len(frames)].len = size /\ frames[Len(frames)].upto = Done
    BY <1>4 DEF FramingInv, StreamInv, Done
  <2>2. Len(frames) \in 1..Len(frames) /\ Len(frames) \in Nat
    BY <1>1, <2>1, EmptySeq, LenProperties
  <2>4. Settled(frames) /\ \A i \in 1..Len(frames) : frames[i].msg = turn
    BY DEF LeftoverInv, NothingBehind, Numbered
  <2>5. Done # size
    BY <1>1, <1>4, BuildsOn DEF Rest
  <2>6. ASSUME NEW i \in 1..Len(frames), frames[i].upto = frames[i].len PROVE FALSE
    <3>1. i # Len(frames)
      BY <2>1, <2>5, <2>6
    <3>2. i < Len(frames)
      BY <2>2, <3>1
    <3>3. Behind(frames[i], frames[Len(frames)])
      BY <2>2, <2>4, <3>2 DEF Settled
    <3>4. frames[Len(frames)].upto = frames[Len(frames)].len
      BY <2>2, <2>4, <2>6, <3>3 DEF Behind
    <3> QED BY <2>1, <2>5, <3>4
  <2> QED BY <2>4, <2>6
<1>5. ASSUME bpc = "build", Rest > 0, NEW r \in Reports, r.msg = turn
      PROVE  Settled(frames) /\ \A i \in 1..Len(frames) : frames[i].msg = turn /\ Behind(frames[i], r)
  BY <1>4, <1>5 DEF Behind
<1>6. CASE Middle \/ Last
  <2>1. /\ bpc = "build" /\ UNCHANGED <<bpc, size, turn, line, reader>>
        /\ \/ Rest > FrameSize /\ frames' = Append(frames, Raw(Done, Done + FrameSize, NoTrailer))
           \/ Rest \in 1..FrameSize /\ frames' = Append(frames, Raw(Done, size, Trailer))
    BY <1>6 DEF Middle, Last, Build
  <2>2. Rest > 0 /\ \E r \in Reports : r.msg = turn /\ frames' = Append(frames, r)
    <3>1. Trailer \in Endings /\ NoTrailer \in Endings
      BY DEF Endings
    <3>2. CASE Rest > FrameSize
      BY <2>1, <3>1, <3>2, BuildsOn, Sizing
    <3>3. CASE Rest \in 1..FrameSize
      BY <2>1, <3>1, <3>3, BuildsOn, Sizing
    <3> QED BY <2>1, <3>2, <3>3
  <2>3. PICK r \in Reports : r.msg = turn /\ frames' = Append(frames, r)
    BY <2>2
  <2> QED BY <1>1, <1>5, <2>1, <2>2, <2>3, BuildLeftover
<1>9. CASE Spill
  <2> DEFINE w == IF Rest < FrameSize THEN <<"chk">> ELSE NoTrailer
             c == Raw(Done, size, w)
             t == Raw(size, size, Trailer)
             q == Append(frames, c)
  <2>1. /\ bpc = "build" /\ Rest \in 1..FrameSize /\ frames' = Append(q, t)
        /\ UNCHANGED <<bpc, size, turn, line, reader>>
    BY <1>9 DEF Spill, CutReport, Build
  <2>2. Rest > 0 /\ c \in Reports /\ c.msg = turn /\ t \in Reports
    BY <2>1, BuildsOn DEF Endings
  <2>3. /\ Settled(frames)
        /\ \A i \in 1..Len(frames) : frames[i].msg = turn /\ Behind(frames[i], c)
    BY <1>5, <2>1, <2>2
  <2>4. q \in Seq(Reports) /\ Settled(q)
    BY <1>1, <2>2, <2>3, AppendSettled, AppendProperties
  <2>5. \A i \in 1..Len(q) : q[i].msg = turn
    BY <1>1, <2>2, <2>3, Appended
  <2>6. t.from = t.upto /\ t.upto = t.len /\ t.msg = turn
    BY DEF Raw
  <2>9. \A i \in 1..Len(q) : Behind(q[i], t)
    BY <2>6 DEF Behind
  <2> HIDE DEF c, t, q, w
  <2> QED BY <2>1, <2>2, <2>4, <2>5, <2>6, <2>9, BuildLeftover
<1>10. CASE Built \/ Recover
  <2>1. /\ InBuilding' <=> InBuilding
        /\ UNCHANGED <<size, frames, turn, line, reader>>
    BY <1>10 DEF Built, Recover, InBuilding
  <2> QED BY <2>1 DEF LeftoverInv, NothingBehind, Settled, SettledOver, Numbered, LeftoverIsTrailer, reader
<1> QED BY <1>3, <1>6, <1>9, <1>10

\* A report passes from the builder to the queue.
LEMMA SendLeftover ==
  ASSUME FramingInv, LeftoverInv, Send
  PROVE  LeftoverInv'
<1> DEFINE f == Head(frames)
<1>1. /\ frames # <<>> /\ line' = Append(line, f) /\ frames' = Tail(frames)
      /\ bpc' \in {"idle", "send"} /\ UNCHANGED <<size, turn, reader>>
  BY DEF Send, FramingInv, StreamInv
<1>2. /\ line \in Seq(Reports) /\ frames \in Seq(Reports) /\ f \in Reports
      /\ turn \in Nat
  BY <1>1, Sizing, HeadTailProperties DEF FramingInv, TypeOK
<1>3. /\ Settled(line) /\ Settled(frames) /\ SettledOver(line, frames)
  BY DEF LeftoverInv, NothingBehind
<1>4. /\ 1 \in 1..Len(frames) /\ f = frames[1]
      /\ \A i \in 1..Len(frames') : i + 1 \in 1..Len(frames) /\ frames'[i] = frames[i + 1]
  BY <1>1, <1>2, Tailed
<1>5. \A i \in 1..Len(line') : line'[i] = f \/ (i \in 1..Len(line) /\ line'[i] = line[i])
  <2>1. \A i \in 1..Len(Append(line, f)) :
          IF i = Len(line) + 1 THEN Append(line, f)[i] = f
          ELSE i \in 1..Len(line) /\ Append(line, f)[i] = line[i]
    BY <1>2, Appended
  <2>2. line' = Append(line, f)
    BY <1>1
  <2> HIDE DEF f
  <2> SUFFICES ASSUME NEW i \in 1..Len(line')
               PROVE  line'[i] = f \/ (i \in 1..Len(line) /\ line'[i] = line[i])
    OBVIOUS
  <2> QED BY <2>1, <2>2
<1>6. Settled(line')
  <2>1. \A i \in 1..Len(line) : Behind(line[i], f)
    BY <1>3, <1>4 DEF SettledOver
  <2> QED BY <1>1, <1>2, <1>3, <2>1, AppendSettled
<1>7. Settled(frames') /\ \A j \in 1..Len(frames') : Behind(f, frames'[j])
  BY <1>1, <1>2, <1>3, TailSettled
<1>8. SettledOver(line', frames')
  <2> SUFFICES ASSUME NEW i \in 1..Len(line'), NEW j \in 1..Len(frames')
               PROVE  Behind(line'[i], frames'[j])
    BY DEF SettledOver
  <2>1. CASE line'[i] = f
    BY <1>7, <2>1
  <2>2. CASE i \in 1..Len(line) /\ line'[i] = line[i]
    BY <1>3, <1>4, <2>2 DEF SettledOver
  <2> QED BY <1>5, <2>1, <2>2
<1>9. Numbered'
  <2>1. f.msg = turn /\ \A i \in 1..Len(frames') : frames'[i].msg = turn
    BY <1>4 DEF LeftoverInv, Numbered
  <2>2. \A i \in 1..Len(line') : line'[i].msg <= turn
    BY <1>2, <1>5, <2>1 DEF LeftoverInv, Numbered
  <2>3. ~InBuilding'
    BY <1>1 DEF InBuilding
  <2>4. rpc \in {"collect", "done"} => of <= turn
    BY DEF LeftoverInv, Numbered
  <2> QED BY <1>1, <2>1, <2>2, <2>3, <2>4 DEF Numbered, reader
<1>10. LeftoverIsTrailer'
  BY <1>1, <1>4, <1>5 DEF LeftoverInv, LeftoverIsTrailer, reader
<1> QED BY <1>6, <1>7, <1>8, <1>9, <1>10 DEF LeftoverInv, NothingBehind

\* A report passes from the queue to the reader.
LEMMA ReaderLeftover ==
  ASSUME FramingInv, LeftoverInv,
         Call \/ SkipHeadless \/ ReadFirst \/ Collect \/ Deadline \/ Return
  PROVE  LeftoverInv'
<1>1. CASE Call \/ Deadline \/ Return
  <2>1. /\ UNCHANGED <<bpc, size, frames, turn, line, of>>
        /\ rpc' \in {"idle", "first", "partial"}
    BY <1>1 DEF Call, Deadline, Return, builder
  <2> QED BY <2>1 DEF LeftoverInv, NothingBehind, Settled, SettledOver, Numbered, InBuilding,
                      LeftoverIsTrailer
<1>2. ASSUME line # <<>>, line' = Tail(line), UNCHANGED builder,
             rpc' \in {"collect", "done"} => of' = Head(line).msg,
             rpc' = "done" => Head(line).upto = Head(line).len,
             rpc' \in {"first", "collect", "done"}
      PROVE  LeftoverInv'
  <2> DEFINE r == Head(line)
  <2>1. line \in Seq(Reports) /\ UNCHANGED <<bpc, size, frames, turn>>
    BY <1>2 DEF FramingInv, TypeOK, builder
  <2>2. /\ 1 \in 1..Len(line) /\ r = line[1]
        /\ \A i \in 1..Len(line') : i + 1 \in 1..Len(line) /\ line'[i] = line[i + 1]
    BY <1>2, <2>1, Tailed
  <2>3. Settled(line') /\ \A j \in 1..Len(line') : Behind(r, line'[j])
    BY <1>2, <2>1, TailSettled DEF LeftoverInv, NothingBehind
  <2>4. SettledOver(line', frames') /\ \A j \in 1..Len(frames') : Behind(r, frames'[j])
    BY <2>1, <2>2 DEF LeftoverInv, NothingBehind, SettledOver
  <2>5. Settled(frames')
    BY <2>1 DEF LeftoverInv, NothingBehind, Settled
  <2>6. Numbered'
    BY <1>2, <2>1, <2>2 DEF LeftoverInv, Numbered, InBuilding
  <2>7. LeftoverIsTrailer'
    BY <1>2, <2>3, <2>4 DEF LeftoverIsTrailer, Behind
  <2> QED BY <2>3, <2>4, <2>5, <2>6, <2>7 DEF LeftoverInv, NothingBehind
<1>3. CASE SkipHeadless
  BY <1>2, <1>3 DEF SkipHeadless, reader
<1>4. CASE ReadFirst
  <2> DEFINE r == Head(line)
  <2>1. /\ line # <<>> /\ line' = Tail(line) /\ UNCHANGED builder
        /\ r.header /\ of' = r.msg
        /\ rpc' = (IF IsMulti(r) /\ Present(r) < r.len THEN "collect" ELSE "done")
    BY <1>4 DEF ReadFirst
  <2>2. r \in Reports /\ Shape(r)
    BY <2>1, TakeHead
  <2>3. r.len \in Nat /\ r.upto = Present(r)
    BY <2>1, <2>2 DEF Reports, Shape
  <2>4. rpc' = "done" => r.upto = r.len
    BY <2>1, <2>3, Sizing DEF Present, IsMulti, MinOf
  <2> HIDE DEF r
  <2> QED BY <1>2, <2>1, <2>4 DEF r
<1>5. CASE Collect
  <2> DEFINE r == Head(line)
  <2>1. /\ rpc = "collect" /\ line # <<>> /\ line' = Tail(line) /\ UNCHANGED builder /\ of' = of
        /\ rpc' = (IF got + Take >= want THEN "done" ELSE "collect")
    BY <1>5 DEF Collect
  <2>2. r = line[1]
    BY <2>1, TakeHead
  <2>3. got < want /\ CarriesOn(r, of, want, got) /\ want \in Nat /\ got \in Nat
    BY <2>1, <2>2 DEF FramingInv, ReaderInv, TypeOK
  <2>4. r.msg = of /\ (rpc' = "done" => r.upto = r.len)
    BY <2>1, <2>3, Sizing DEF CarriesOn, Take, MinOf
  <2> HIDE DEF r
  <2> QED BY <1>2, <2>1, <2>4 DEF r
<1> QED BY <1>1, <1>3, <1>4, <1>5

\* Both invariants of the stream are inductive together.
LEMMA LeftoverInductive == Spec => []LeftoverInv
<1>1. Init => LeftoverInv
  BY DEF Init, LeftoverInv, NothingBehind, Settled, SettledOver, Numbered, LeftoverIsTrailer
<1>2. FramingInv /\ LeftoverInv /\ [Next]_vars => LeftoverInv'
  <2> SUFFICES ASSUME FramingInv, LeftoverInv, [Next]_vars PROVE LeftoverInv' OBVIOUS
  <2>1. CASE UNCHANGED vars
    BY <2>1 DEF vars, builder, reader, LeftoverInv, NothingBehind, Settled, SettledOver, Numbered,
                InBuilding, LeftoverIsTrailer
  <2>2. CASE Next
    BY <2>2, BuilderLeftover, SendLeftover, ReaderLeftover DEF Next
  <2> QED BY <2>1, <2>2
<1> QED BY <1>1, <1>2, Inductive, PTL DEF Spec

\* What read_response leaves in the queue behind a payload it completed is the
\* payload's trailer at most, at every length.
THEOREM NothingIsLeft == Spec => []LeftoverIsTrailer
<1>1. LeftoverInv => LeftoverIsTrailer
  BY DEF LeftoverInv
<1> QED BY <1>1, LeftoverInductive, PTL
-----------------------------------------------------------------------------
(* The trailer *)

\* Faults of the length are at its edges: the last report is short by one
\* byte at lengths of that residue only.
LEMMA EdgeResidue ==
  ASSUME NEW k \in Nat, size = First + k * FrameSize + (FrameSize - 1)
  PROVE  OnEdge(size)
<1>1. FrameSize \in Nat /\ First \in Nat /\ FrameSize > 1
  BY Sizing
<1>2. k * FrameSize \in Nat
  BY <1>1
<1>3. (k * FrameSize + (FrameSize - 1)) % FrameSize = FrameSize - 1
  <2>1. ASSUME NEW F \in Nat, F > 0, NEW a \in Nat, NEW b \in 0..(F - 1)
        PROVE  (a * F + b) % F = b
    BY <2>1
  <2>2. FrameSize - 1 \in 0..(FrameSize - 1)
    BY <1>1
  <2> QED BY <1>1, <2>1, <2>2
<1>4. size > First /\ size - First = k * FrameSize + (FrameSize - 1)
  BY <1>1, <1>2
<1> QED BY <1>3, <1>4 DEF OnEdge

\* The reports in front of the last one carry no trailer, the last one does.
LEMMA CutStep ==
  ASSUME FramingInv, CutInv, [Next]_vars
  PROVE  CutInv'
<1>1. /\ frames \in Seq(Reports) /\ size \in Nat
      /\ bpc \in {"idle", "raised"} <=> frames = <<>>
  BY DEF FramingInv, TypeOK, StreamInv
<1>2. CASE bpc' \notin {"build", "built"}
  BY <1>2 DEF CutInv, InBuilding, TrailerOffTheEdge
<1>3. CASE UNCHANGED <<bpc, size, frames>>
  BY <1>3 DEF CutInv, InBuilding, TrailerOffTheEdge, TrailerOnce, Rest, Done
<1>4. ASSUME NEW n \in Sizes, BeginSingle(n) PROVE CutInv'
  <2>1. /\ frames' = <<Headed(n, n, Trailer)>> /\ bpc' = "built"
    BY <1>4 DEF BeginSingle
  <2>2. Headed(n, n, Trailer).trail = Trailer
    BY DEF Headed
  <2>3. Len(frames') = 1 /\ frames'[1].trail = Trailer
    BY <2>1, <2>2
  <2> QED BY <2>1, <2>3 DEF CutInv, TrailerOffTheEdge, TrailerOnce
<1>5. ASSUME NEW n \in Sizes, BeginMulti(n) PROVE CutInv'
  <2>1. frames' = <<Headed(n, First, NoTrailer)>> /\ bpc' = "build" /\ size' = n
    BY <1>5 DEF BeginMulti, BeginAny
  <2>2. Headed(n, First, NoTrailer).trail = NoTrailer /\ Headed(n, First, NoTrailer).upto = First
    BY DEF Headed
  <2>3. Len(frames') = 1 /\ frames'[1].trail = NoTrailer /\ frames'[1].upto = First
    BY <2>1, <2>2
  <2>4. Done' = First
    BY <2>3 DEF Done
  <2>5. First = First + 0 * FrameSize
    BY Sizing
  <2>6. Rest' = 0 => OnEdge(size')
    BY <2>1, <2>4, Sizing DEF Rest, OnEdge
  <2> QED BY <2>1, <2>3, <2>4, <2>5, <2>6 DEF CutInv, TrailerOffTheEdge
<1> DEFINE before(q) == \A i \in 1..(Len(q) - 1) : q[i].trail = NoTrailer
\* A report with trailer w is added behind the unfinished last one.
<1>6. ASSUME bpc = "build", ~OnEdge(size), Rest > 0, NEW r \in Reports
      PROVE  /\ \A i \in 1..Len(frames) : frames[i].trail = NoTrailer
             /\ before(Append(frames, r))
  <2>1. /\ \A i \in 1..(Len(frames) - 1) : frames[i].trail = NoTrailer
        /\ frames[Len(frames)].trail = NoTrailer
    BY <1>6 DEF CutInv, InBuilding
  <2>2. \A i \in 1..Len(frames) : frames[i].trail = NoTrailer
    BY <1>1, <2>1, LenProperties
  <2>3. \A i \in 1..(Len(Append(frames, r)) - 1) : i \in 1..Len(frames) /\ Append(frames, r)[i] = frames[i]
    BY <1>1, Appended
  <2> QED BY <2>2, <2>3
<1>7. CASE Middle
  <2> DEFINE r == Raw(Done, Done + FrameSize, NoTrailer)
  <2>1. bpc = "build" /\ Rest > FrameSize /\ frames' = Append(frames, r) /\ UNCHANGED <<bpc, size>>
    BY <1>7 DEF Middle, Build
  <2>2. r \in Reports /\ Rest > 0 /\ Done \in Nat
    BY <2>1, BuildsOn DEF Endings
  <2>3. frames'[Len(frames')] = r
    BY <1>1, <2>1, <2>2, Appended
  <2>4. r.upto = Done + FrameSize /\ r.trail = NoTrailer
    BY DEF Raw
  <2>5. Done' = Done + FrameSize
    BY <2>3, <2>4 DEF Done
  <2>6. Rest' # 0
    BY <1>1, <2>1, <2>2, <2>5, Sizing DEF Rest
  <2>7. ~OnEdge(size) => \E k \in Nat : Done' = First + k * FrameSize
    <3> SUFFICES ASSUME ~OnEdge(size) PROVE \E k \in Nat : Done' = First + k * FrameSize
      OBVIOUS
    <3>1. PICK k \in Nat : Done = First + k * FrameSize
      BY <2>1, <2>2 DEF CutInv
    <3>2. (k + 1) * FrameSize = k * FrameSize + FrameSize /\ k * FrameSize \in Nat
      BY Sizing
    <3>3. Done' = First + (k + 1) * FrameSize /\ k + 1 \in Nat
      BY <2>5, <3>1, <3>2, Sizing
    <3> QED BY <3>3
  <2>8. ~OnEdge(size) => before(frames')
    BY <1>6, <2>1, <2>2
  <2> HIDE DEF r
  <2> QED BY <2>1, <2>3, <2>4, <2>6, <2>7, <2>8 DEF CutInv, InBuilding, TrailerOffTheEdge
<1>8. ASSUME bpc = "build", Rest \in 1..FrameSize
      PROVE  Done \in Nat /\ Rest > 0 /\ Rest = size - Done
  BY <1>8, BuildsOn DEF Endings
<1>9. ASSUME frames' # <<>>, UNCHANGED <<bpc, size>>, bpc = "build", frames'[Len(frames')].upto = size,
             ~OnEdge(size) => before(frames') /\ frames'[Len(frames')].trail = Trailer
      PROVE  CutInv'
  <2>1. Rest' = 0
    BY <1>1, <1>9 DEF Rest, Done
  <2> QED BY <1>9, <2>1 DEF CutInv, InBuilding, TrailerOffTheEdge
<1>10. CASE Last
  <2> DEFINE r == Raw(Done, size, Trailer)
  <2>1. bpc = "build" /\ Rest \in 1..FrameSize /\ frames' = Append(frames, r) /\ UNCHANGED <<bpc, size>>
    BY <1>10 DEF Last, Build
  <2>2. r \in Reports /\ Rest > 0
    BY <2>1, BuildsOn DEF Endings
  <2>3. frames' # <<>> /\ frames'[Len(frames')] = r
    BY <1>1, <2>1, <2>2, Appended
  <2>4. r.upto = size /\ r.trail = Trailer
    BY DEF Raw
  <2>5. ~OnEdge(size) => before(frames')
    BY <1>6, <2>1, <2>2
  <2> HIDE DEF r
  <2> QED BY <1>9, <2>1, <2>3, <2>4, <2>5
<1>11. CASE Spill
  <2> DEFINE w == IF Rest < FrameSize THEN <<"chk">> ELSE NoTrailer
             c == Raw(Done, size, w)
             t == Raw(size, size, Trailer)
             q == Append(frames, c)
  <2>1. /\ bpc = "build" /\ Rest \in 1..FrameSize /\ ~Fits /\ frames' = Append(q, t)
        /\ UNCHANGED <<bpc, size>>
    BY <1>11 DEF Spill, CutReport, Build
  <2>2. Rest > 0 /\ c \in Reports /\ t \in Reports
    BY <2>1, BuildsOn DEF Endings
  <2>3. q \in Seq(Reports) /\ Len(q) \in Nat /\ Len(frames') = Len(q) + 1
    BY <1>1, <2>1, <2>2, Appended, AppendProperties
  <2>4. \A i \in 1..Len(frames') : IF i = Len(q) + 1 THEN frames'[i] = t
                                   ELSE i \in 1..Len(q) /\ frames'[i] = q[i]
    BY <2>1, <2>2, <2>3, Appended
  <2>5. t.upto = size /\ t.trail = Trailer /\ c.trail = w
    BY DEF Raw
  <2>6. ASSUME ~OnEdge(size) PROVE before(frames')
    <3>1. Rest = FrameSize
      <4>1. Rest = FrameSize \/ Rest = FrameSize - 1
        BY <1>8, <2>1, Sizing DEF Fits, Trailer
      <4>2. CASE Rest = FrameSize - 1
        <5>1. PICK k \in Nat : Done = First + k * FrameSize
          BY <2>1, <2>2, <2>6 DEF CutInv
        <5>2. size = First + k * FrameSize + (FrameSize - 1)
          BY <1>1, <1>8, <2>1, <4>2, <5>1, Sizing
        <5> QED BY <2>6, <5>2, EdgeResidue
      <4> QED BY <4>1, <4>2
    <3>2. w = NoTrailer
      BY <3>1, Sizing
    <3>3. \A i \in 1..Len(q) : q[i].trail = NoTrailer
      <4>1. \A i \in 1..Len(frames) : frames[i].trail = NoTrailer
        BY <1>6, <2>1, <2>2, <2>6
      <4>2. \A i \in 1..Len(q) : IF i = Len(frames) + 1 THEN q[i] = c
                                 ELSE i \in 1..Len(frames) /\ q[i] = frames[i]
        BY <1>1, <2>2, Appended
      <4> HIDE DEF c, q, w
      <4> QED BY <2>5, <3>2, <4>1, <4>2
    <3>4. \A i \in 1..(Len(frames') - 1) : i \in 1..Len(q) /\ frames'[i] = q[i]
      BY <2>3, <2>4
    <3> HIDE DEF q
    <3> QED BY <3>3, <3>4
  <2>7. frames' # <<>> /\ frames'[Len(frames')] = t
    BY <2>3, <2>4
  <2> HIDE DEF t
  <2> QED BY <1>9, <2>1, <2>5, <2>6, <2>7
<1>12. CASE Built
  <2>1. bpc = "build" /\ Rest = 0 /\ bpc' = "built" /\ UNCHANGED <<size, frames>>
    BY <1>12 DEF Built
  <2> QED BY <2>1 DEF CutInv, InBuilding, TrailerOffTheEdge, TrailerOnce
<1>13. CASE (\E n \in Sizes : BeginShort(n)) \/ Send \/ Recover
  <2>1. bpc' \notin {"build", "built"}
    BY <1>13 DEF BeginShort, Send, Recover
  <2> QED BY <1>2, <2>1
<1>14. CASE Call \/ SkipHeadless \/ ReadFirst \/ Collect \/ Deadline \/ Return \/ UNCHANGED vars
  BY <1>3, <1>14 DEF Call, SkipHeadless, ReadFirst, Collect, Deadline, Return, vars, builder
<1> QED BY <1>4, <1>5, <1>7, <1>10, <1>11, <1>12, <1>13, <1>14 DEF Next

\* build_frames_multi ends a payload with checksum and end marker, once, at
\* every length but those OnEdge, for reports and headers of any size.
THEOREM TrailerKept == Spec => []TrailerOffTheEdge
<1>1. Init => CutInv
  BY DEF Init, CutInv, InBuilding, TrailerOffTheEdge
<1>2. CutInv => TrailerOffTheEdge
  BY DEF CutInv
<1> QED BY <1>1, <1>2, CutStep, Inductive, PTL DEF Spec
-----------------------------------------------------------------------------
(* The order of the payloads *)

\* A queue stays in order when what is put behind it comes after all of it, and
\* when its head goes; what is left then comes after the head.
LEMMA AppendOrder ==
  ASSUME NEW q \in Seq(Reports), NEW r \in Reports, InOrder(q),
         \A i \in 1..Len(q) : Before(q[i].msg, r)
  PROVE  InOrder(Append(q, r))
<1> SUFFICES ASSUME NEW i \in 1..Len(Append(q, r)), NEW j \in 1..Len(Append(q, r)), i < j
             PROVE  Before(Append(q, r)[i].msg, Append(q, r)[j])
  BY DEF InOrder
<1>1. Len(Append(q, r)) = Len(q) + 1 /\ Len(q) \in Nat /\ i \in 1..Len(q) /\ Append(q, r)[i] = q[i]
  BY Appended
<1>2. CASE j \in 1..Len(q)
  <2>1. Append(q, r)[j] = q[j]
    BY <1>1, <1>2, Appended
  <2> QED BY <1>1, <1>2, <2>1 DEF InOrder
<1>3. CASE j = Len(q) + 1
  <2>1. Append(q, r)[j] = r
    BY <1>1, <1>3, Appended
  <2> QED BY <1>1, <2>1
<1> QED BY <1>1, <1>2, <1>3

LEMMA TailOrder ==
  ASSUME NEW q \in Seq(Reports), q # <<>>, InOrder(q)
  PROVE  InOrder(Tail(q)) /\ After(Head(q).msg, Tail(q))
<1>1. ASSUME NEW i \in 1..Len(Tail(q)), NEW j \in 1..Len(Tail(q)), i < j
      PROVE  Before(Tail(q)[i].msg, Tail(q)[j])
  <2>1. i + 1 \in 1..Len(q) /\ j + 1 \in 1..Len(q) /\ i + 1 < j + 1
        /\ Tail(q)[i] = q[i + 1] /\ Tail(q)[j] = q[j + 1]
    BY <1>1, Tailed
  <2> QED BY <2>1 DEF InOrder
<1>2. ASSUME NEW j \in 1..Len(Tail(q)) PROVE Before(Head(q).msg, Tail(q)[j])
  <2>1. 1 \in 1..Len(q) /\ j + 1 \in 1..Len(q) /\ 1 < j + 1
        /\ Head(q) = q[1] /\ Tail(q)[j] = q[j + 1]
    BY <1>2, Tailed
  <2> QED BY <2>1 DEF InOrder
<1> QED BY <1>1, <1>2 DEF InOrder, After

\* A new payload has the highest number.
LEMMA BeginOrder ==
  ASSUME FramingInv, OrderInv, NEW n \in Sizes, BeginSingle(n) \/ BeginShort(n) \/ BeginMulti(n)
  PROVE  OrderInv'
<1>1. /\ turn' = turn + 1 /\ UNCHANGED <<line, of>>
      /\ frames' = <<>> \/ \E k \in Nat, w \in Endings : frames' = <<Headed(n, k, w)>>
  BY Sizing DEF BeginSingle, BeginShort, BeginMulti, BeginAny, reader, Endings
<1>2. \A i \in 1..Len(frames') : i = 1 /\ frames'[i].msg = turn'
  <2>1. CASE frames' = <<>>
    BY <2>1
  <2>2. ASSUME NEW k \in Nat, NEW w \in Endings, frames' = <<Headed(n, k, w)>>
        PROVE  \A i \in 1..Len(frames') : i = 1 /\ frames'[i].msg = turn'
    <3>1. Headed(n, k, w).msg = turn'
      BY DEF Headed
    <3>2. Len(frames') = 1 /\ frames'[1] = Headed(n, k, w)
      BY <2>2
    <3> QED BY <3>1, <3>2
  <2> QED BY <1>1, <2>1, <2>2
<1>3. /\ turn \in Nat /\ of \in Nat /\ of <= turn
      /\ \A i \in 1..Len(line) : line[i].msg \in Nat /\ line[i].msg <= turn
  <2>1. turn \in Nat /\ of \in Nat /\ line \in Seq(Reports)
    BY Sizing DEF FramingInv, TypeOK
  <2>2. \A i \in 1..Len(line) : line[i] \in Reports
    BY <2>1, ElementOfSeq
  <2>3. \A i \in 1..Len(line) : line[i].msg \in Nat
    BY <2>2, Sizing DEF Reports
  <2> QED BY <2>1, <2>3 DEF OrderInv
<1>4. ASSUME NEW m \in Nat, m <= turn PROVE After(m, frames')
  <2>1. m < turn'
    BY <1>1, <1>3, <1>4
  <2> QED BY <1>2, <1>3, <2>1, <1>1 DEF After, Before
<1>5. InOrder(frames')
  BY <1>2 DEF InOrder
<1> QED BY <1>1, <1>2, <1>3, <1>4, <1>5 DEF OrderInv, InOrder, After

\* A report without a header is added to the payload being built.
LEMMA AddOrder ==
  ASSUME NEW q \in Seq(Reports), NEW r \in Reports, FramingInv, r.msg = turn, ~r.header,
         InOrder(q), \A i \in 1..Len(q) : q[i].msg = turn
  PROVE  /\ InOrder(Append(q, r)) /\ \A i \in 1..Len(Append(q, r)) : Append(q, r)[i].msg = turn
         /\ \A m \in Nat : m <= turn /\ After(m, q) => After(m, Append(q, r))
<1>1. turn \in Nat
  BY Sizing DEF FramingInv, TypeOK
<1>2. InOrder(Append(q, r))
  BY <1>1, AppendOrder DEF Before
<1>3. ASSUME NEW m \in Nat, m <= turn, After(m, q) PROVE After(m, Append(q, r))
  BY <1>3, Appended DEF After, Before
<1> QED BY <1>2, <1>3, Appended

LEMMA BuildOrder ==
  ASSUME FramingInv, OrderInv, Middle \/ Last \/ Spill
  PROVE  OrderInv'
<1>1. bpc = "build" /\ frames \in Seq(Reports) /\ UNCHANGED <<turn, line, of>>
  BY DEF Middle, Last, Spill, Build, reader, FramingInv, TypeOK
<1>2. ASSUME InOrder(frames'), \A i \in 1..Len(frames') : frames'[i].msg = turn,
             \A m \in Nat : m <= turn /\ After(m, frames) => After(m, frames')
      PROVE  OrderInv'
  <2>1. of \in Nat /\ line \in Seq(Reports)
    BY Sizing DEF FramingInv, TypeOK
  <2>2. \A i \in 1..Len(line) : line[i] \in Reports
    BY <2>1, ElementOfSeq
  <2>3. \A i \in 1..Len(line) : line[i].msg \in Nat
    BY <2>2, Sizing DEF Reports
  <2>4. After(of, frames') /\ \A i \in 1..Len(line) : After(line[i].msg, frames')
    BY <1>2, <2>1, <2>3 DEF OrderInv
  <2> QED BY <1>1, <1>2, <2>4 DEF OrderInv, InOrder, After
<1>3. InOrder(frames) /\ \A i \in 1..Len(frames) : frames[i].msg = turn
  BY DEF OrderInv
<1>4. CASE Middle
  <2>1. /\ frames' = Append(frames, Raw(Done, Done + FrameSize, NoTrailer))
        /\ Rest > FrameSize
    BY <1>4 DEF Middle, Build
  <2>2. Raw(Done, Done + FrameSize, NoTrailer) \in Reports
    BY <1>1, <2>1, BuildsOn DEF Endings
  <2> QED BY <1>1, <1>2, <1>3, <2>1, <2>2, AddOrder DEF Raw
<1>5. CASE Last
  <2>1. frames' = Append(frames, Raw(Done, size, Trailer)) /\ Rest \in 1..FrameSize
    BY <1>5 DEF Last, Build
  <2>2. Raw(Done, size, Trailer) \in Reports
    BY <1>1, <2>1, BuildsOn DEF Endings
  <2> QED BY <1>1, <1>2, <1>3, <2>1, <2>2, AddOrder DEF Raw
<1>6. CASE Spill
  <2> DEFINE q == Append(frames, CutReport)
             r == Raw(size, size, Trailer)
  <2>1. frames' = Append(q, r) /\ Rest \in 1..FrameSize
    BY <1>6 DEF Spill, Build
  <2>2. CutReport \in Reports /\ r \in Reports
    BY <1>1, <2>1, BuildsOn DEF Endings, CutReport
  <2>3. /\ CutReport.msg = turn /\ ~CutReport.header /\ r.msg = turn /\ ~r.header
    BY DEF CutReport, Raw
  <2>4. /\ q \in Seq(Reports) /\ InOrder(q) /\ \A i \in 1..Len(q) : q[i].msg = turn
        /\ \A m \in Nat : m <= turn /\ After(m, frames) => After(m, q)
    BY <1>1, <1>3, <2>2, <2>3, AddOrder, AppendProperties
  <2> HIDE DEF q, r
  <2>5. /\ InOrder(Append(q, r)) /\ \A i \in 1..Len(Append(q, r)) : Append(q, r)[i].msg = turn
        /\ \A m \in Nat : m <= turn /\ After(m, q) => After(m, Append(q, r))
    BY <2>2, <2>3, <2>4, AddOrder
  <2> QED BY <1>2, <2>1, <2>4, <2>5
<1> QED BY <1>4, <1>5, <1>6


\* The next report of the payload goes on the wire.
LEMMA SendOrder == ASSUME FramingInv, OrderInv, Send PROVE OrderInv'
<1> DEFINE f == Head(frames)
<1>1. /\ frames # <<>> /\ line' = Append(line, f) /\ frames' = Tail(frames)
      /\ UNCHANGED <<turn, of>>
  BY DEF Send, FramingInv, StreamInv, reader
<1>2. /\ line \in Seq(Reports) /\ frames \in Seq(Reports) /\ f \in Reports
      /\ turn \in Nat
  BY <1>1, Sizing, HeadTailProperties DEF FramingInv, TypeOK
<1>3. /\ 1 \in 1..Len(frames) /\ f = frames[1] /\ f.msg = turn
      /\ \A i \in 1..Len(frames') : i + 1 \in 1..Len(frames) /\ frames'[i] = frames[i + 1]
  BY <1>1, <1>2, Tailed DEF OrderInv
<1>4. InOrder(frames') /\ After(f.msg, frames')
  BY <1>1, <1>2, TailOrder DEF OrderInv
<1>5. \A i \in 1..Len(line) : Before(line[i].msg, f)
  BY <1>3 DEF OrderInv, After
<1>6. InOrder(line')
  BY <1>1, <1>2, <1>5, AppendOrder DEF OrderInv
<1>7. \A i \in 1..Len(line') : line'[i] = f \/ (i \in 1..Len(line) /\ line'[i] = line[i])
  <2> HIDE DEF f
  <2> QED BY <1>1, <1>2, Appended
<1>8. \A m : After(m, frames) => After(m, frames')
  BY <1>3 DEF After
<1>9. ASSUME NEW i \in 1..Len(line') PROVE line'[i].msg <= turn /\ After(line'[i].msg, frames')
  <2>1. CASE line'[i] = f
    BY <1>2, <1>3, <1>4, <2>1
  <2>2. CASE i \in 1..Len(line) /\ line'[i] = line[i]
    BY <1>8, <2>2 DEF OrderInv
  <2> QED BY <1>7, <2>1, <2>2
<1>10. After(of, line')
  BY <1>3, <1>7 DEF OrderInv, After
<1> QED BY <1>1, <1>3, <1>4, <1>6, <1>8, <1>9, <1>10 DEF OrderInv

\* What the reader takes is behind what it took before.
LEMMA ReaderOrder ==
  ASSUME FramingInv, OrderInv, SkipHeadless \/ ReadFirst \/ Collect
  PROVE  /\ OrderInv'
         /\ ReadFirst => of < of' /\ of' <= turn
<1> DEFINE r == Head(line)
<1>1. /\ line # <<>> /\ line' = Tail(line) /\ UNCHANGED <<frames, turn>>
      /\ of' = of \/ of' = r.msg
      /\ ReadFirst => of' = r.msg /\ r.header
  BY DEF SkipHeadless, ReadFirst, Collect, reader, builder
<1>2. line \in Seq(Reports)
  BY DEF FramingInv, TypeOK
<1>3. /\ 1 \in 1..Len(line) /\ r = line[1]
      /\ \A i \in 1..Len(line') : i + 1 \in 1..Len(line) /\ line'[i] = line[i + 1]
  BY <1>1, <1>2, Tailed
<1>4. InOrder(line') /\ After(r.msg, line')
  BY <1>1, <1>2, TailOrder DEF OrderInv
<1>5. r.msg <= turn /\ After(r.msg, frames) /\ Before(of, r)
  BY <1>3 DEF OrderInv, After
<1>6. After(of, line')
  BY <1>3 DEF OrderInv, After
<1>7. of' <= turn /\ After(of', line') /\ After(of', frames)
  BY <1>1, <1>4, <1>5, <1>6 DEF OrderInv
<1>8. \A i \in 1..Len(line') : line'[i].msg <= turn /\ After(line'[i].msg, frames)
  BY <1>3 DEF OrderInv
<1>9. OrderInv'
  BY <1>1, <1>4, <1>7, <1>8 DEF OrderInv, InOrder, After
<1> HIDE DEF r
<1> QED BY <1>1, <1>5, <1>9 DEF Before

LEMMA OrderInductive == Spec => []OrderInv
<1>1. Init => OrderInv
  BY DEF Init, OrderInv, InOrder, After
<1>2. ASSUME FramingInv, OrderInv, [Next]_vars PROVE OrderInv'
  <2>1. CASE UNCHANGED <<line, frames, turn, of>>
    BY <1>2, <2>1 DEF OrderInv, InOrder, After
  <2>2. Built \/ Recover \/ Call \/ Deadline \/ Return \/ UNCHANGED vars
          => UNCHANGED <<line, frames, turn, of>>
    BY DEF Built, Recover, Call, Deadline, Return, vars, builder, reader
  <2>3. CASE Next
    BY <1>2, <2>1, <2>2, <2>3, BeginOrder, BuildOrder, SendOrder, ReaderOrder DEF Next
  <2> QED BY <1>2, <2>1, <2>2, <2>3
<1> QED BY <1>1, <1>2, Inductive, PTL DEF Spec

\* read_response begins a payload it has not begun before, and a later one than
\* any it has begun: with RoundTrip, what the reader completes are payloads that
\* were sent, whole, in their order, and each at most once.
THEOREM InOrderAndOnce == Spec => EachPayloadOnce
<1>1. ASSUME FramingInv, OrderInv, [Next]_vars
      PROVE  [rpc = "first" /\ rpc' \in {"collect", "done"} => of < of' /\ of' <= turn]_vars
  <2> SUFFICES ASSUME Next, rpc = "first", rpc' \in {"collect", "done"}
               PROVE  of < of' /\ of' <= turn
    BY <1>1 DEF vars
  <2>1. ReadFirst
    BY DEF Next, BeginSingle, BeginShort, BeginMulti, BeginAny, Middle, Last, Spill, Build, Built,
           Send, Recover, Call, SkipHeadless, Collect, Deadline, Return, reader
  <2> QED BY <1>1, <2>1, ReaderOrder
<1> QED BY <1>1, Inductive, OrderInductive, PTL DEF Spec, EachPayloadOnce
=============================================================================
