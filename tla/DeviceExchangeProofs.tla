------------------------ MODULE DeviceExchangeProofs ------------------------
(***************************************************************************)
(* Proofs about DeviceExchange for every set of threads and requests,      *)
(* every sequence-number space, every pacing and every queue bound.        *)
(***************************************************************************)
EXTENDS DeviceExchange, SequenceTheorems, TLAPS

-----------------------------------------------------------------------------
(* Lemmas about the operators of the model *)

\* Forgetting the live marks keeps a queue a queue of the same length.
LEMMA StaleType ==
  ASSUME NEW S, NEW q \in Seq(S),
         \A x \in S : [x EXCEPT !.live = FALSE] \in S
  PROVE  /\ Stale(q) \in Seq(S)
         /\ Len(Stale(q)) = Len(q)
         /\ \A i \in 1..Len(q) : Stale(q)[i] = [q[i] EXCEPT !.live = FALSE]
<1>1. \A i \in 1..Len(q) : q[i] \in S
  BY ElementOfSeq
<1>2. Stale(q) \in [1..Len(q) -> S]
  BY <1>1 DEF Stale
<1>3. Len(q) \in Nat
  BY LenProperties
<1>4. Stale(q) \in Seq(S)
  BY <1>2, <1>3, IsASeq
<1>5. Len(Stale(q)) = Len(q)
  BY <1>2, <1>3, <1>4, LenProperties DEF Stale
<1> QED
  BY <1>4, <1>5 DEF Stale

\* The reply to a frame is a non-empty sequence of reports about its request.
LEMMA ReplyType ==
  ASSUME ExchangeAssumption, NEW f \in Frames
  PROVE  /\ ReplyPackets(f) \in Seq(Packets)
         /\ \A i \in 1..Len(ReplyPackets(f)) :
              /\ ReplyPackets(f)[i].live = f.live
              /\ ReplyPackets(f)[i].req = f.req
<1>1. f.req \in Requests /\ f.live \in BOOLEAN /\ f.req.packets \in Nat \ {0}
  BY DEF Frames, ExchangeAssumption
<1> DEFINE n == f.req.packets
           p(i) == [req |-> f.req, cont |-> i > 1, live |-> f.live]
<1>2. \A i \in 1..n : p(i) \in Packets
  BY <1>1 DEF Packets
<1>3. ReplyPackets(f) = [i \in 1..n |-> p(i)]
  BY DEF ReplyPackets
<1>4. ReplyPackets(f) \in [1..n -> Packets]
  BY <1>2, <1>3
<1>5. ReplyPackets(f) \in Seq(Packets)
  BY <1>1, <1>4, IsASeq
<1>6. Len(ReplyPackets(f)) = n
  BY <1>1, <1>4, <1>5, LenProperties
<1>7. ASSUME NEW i \in 1..Len(ReplyPackets(f))
      PROVE  ReplyPackets(f)[i].live = f.live /\ ReplyPackets(f)[i].req = f.req
  <2>1. ReplyPackets(f)[i] = p(i)
    BY <1>3, <1>6, <1>7
  <2> QED BY <2>1
<1> QED
  BY <1>5, <1>7

\* The sequence counter stays in its space, and writes use 0.
LEMMA SeqType ==
  ASSUME ExchangeAssumption, seq \in 0..(SeqMod - 1), NEW r
  PROVE  NextSeq(r) \in 0..(SeqMod - 1) /\ SeqFor(r) \in 0..(SeqMod - 1)
  BY DEF ExchangeAssumption, NextSeq, SeqFor

\* A framed report announces a natural number of continuations.
LEMMA AnnouncedType ==
  ASSUME ExchangeAssumption, NEW p \in Packets
  PROVE  Announced(p) \in Nat
  BY DEF ExchangeAssumption, Announced, Packets

\* Reading one report: the rest of the queue is the queue shifted by one.
LEMMA ReadReport ==
  ASSUME NEW S, NEW q \in Seq(S), q # <<>>
  PROVE  /\ Head(q) \in S
         /\ Head(q) = q[1]
         /\ 1 \in 1..Len(q)
         /\ Tail(q) \in Seq(S)
         /\ \A i \in 1..Len(Tail(q)) : i + 1 \in 1..Len(q) /\ Tail(q)[i] = q[i + 1]
  BY HeadTailProperties, LenProperties, EmptySeq

-----------------------------------------------------------------------------
(* The invariant is inductive *)

\* Device.__init__ establishes the invariant.
LEMMA InitInv == Init => ExchangeInv
  BY ExchangeAssumption
  DEF ExchangeAssumption, Init, ExchangeInv, TypeOK, Outcomes, CallShape, LockMeaning, InExchange,
      NoCloseUnderIO, OnWire, LiveIsHolders, OutcomeOnlyWhenDone, DirectionErrorIsLate

\* After an exchange has been left, nothing on the wire is live.
LEMMA StaleQueues ==
  ASSUME TypeOK
  PROVE  /\ Stale(devq) \in Seq(Frames)
         /\ Stale(inq) \in Seq(Packets)
         /\ \A i \in 1..Len(Stale(devq)) : ~Stale(devq)[i].live
         /\ \A i \in 1..Len(Stale(inq)) : ~Stale(inq)[i].live
<1>1. devq \in Seq(Frames) /\ inq \in Seq(Packets)
  BY DEF TypeOK
<1>2. \A x \in Frames : [x EXCEPT !.live = FALSE] \in Frames /\ ~[x EXCEPT !.live = FALSE].live
  BY DEF Frames
<1>3. \A x \in Packets : [x EXCEPT !.live = FALSE] \in Packets /\ ~[x EXCEPT !.live = FALSE].live
  BY DEF Packets
<1>4. /\ \A i \in 1..Len(devq) : devq[i] \in Frames
      /\ \A i \in 1..Len(inq) : inq[i] \in Packets
  BY <1>1, ElementOfSeq
<1>5. /\ Stale(devq) \in Seq(Frames)
      /\ Len(Stale(devq)) = Len(devq)
      /\ \A i \in 1..Len(devq) : Stale(devq)[i] = [devq[i] EXCEPT !.live = FALSE]
  BY <1>1, <1>2, StaleType
<1>6. /\ Stale(inq) \in Seq(Packets)
      /\ Len(Stale(inq)) = Len(inq)
      /\ \A i \in 1..Len(inq) : Stale(inq)[i] = [inq[i] EXCEPT !.live = FALSE]
  BY <1>1, <1>3, StaleType
<1>7. \A i \in 1..Len(devq) : ~Stale(devq)[i].live
  BY <1>2, <1>4, <1>5
<1>8. \A i \in 1..Len(inq) : ~Stale(inq)[i].live
  BY <1>3, <1>4, <1>6
<1> QED
  BY <1>5, <1>6, <1>7, <1>8

\* Leaving `with self._lock' by any path keeps the invariant, provided the
\* exception is a legal one and a direction error concerns a late reply.
LEMMA LeaveInv ==
  ASSUME ExchangeInv, NEW t \in Threads, InExchange(t),
         NEW how \in Outcomes, Leave(t, how),
         how = "wrongdir" => got[t] \in Packets /\ ~got[t].live,
         seq' \in 0..(SeqMod - 1), elapsed' \in 0..Pacing, raced' \in SUBSET Threads,
         UNCHANGED <<opened, req, nap, got, missing>>
  PROVE  ExchangeInv'
<1> USE DEF ExchangeInv
<1>1. TypeOK'
  BY StaleQueues DEF TypeOK, Leave
<1>2. CallShape' /\ OutcomeOnlyWhenDone' /\ DirectionErrorIsLate'
  BY DEF CallShape, OutcomeOnlyWhenDone, DirectionErrorIsLate, Leave, TypeOK, InExchange
<1>3. LockMeaning' /\ NoCloseUnderIO'
  BY ExchangeAssumption DEF ExchangeAssumption, LockMeaning, NoCloseUnderIO, InExchange, OnWire, Leave, TypeOK
<1>4. LiveIsHolders'
  BY StaleQueues DEF LiveIsHolders, Leave, TypeOK
<1> QED
  BY <1>1, <1>2, <1>3, <1>4

\* Every step of every thread, of the device and of the clock keeps it.
LEMMA StepInv == ExchangeInv /\ [Next]_vars => ExchangeInv'
<1> SUFFICES ASSUME ExchangeInv, [Next]_vars PROVE ExchangeInv'
  OBVIOUS
<1> USE ExchangeAssumption DEF ExchangeAssumption, ExchangeInv
<1>1. ASSUME NEW t \in Threads, NEW r \in Requests, BeginClosed(t, r)
       PROVE  ExchangeInv'
  <2>1. TypeOK'
    BY <1>1 DEF BeginClosed, TypeOK, CallShape, Outcomes
  <2>2. CallShape' /\ LockMeaning' /\ NoCloseUnderIO'
    BY <1>1 DEF BeginClosed, TypeOK, CallShape, LockMeaning, InExchange, NoCloseUnderIO, OnWire, OutcomeOnlyWhenDone
  <2>3. LiveIsHolders' /\ OutcomeOnlyWhenDone' /\ DirectionErrorIsLate'
    BY <1>1 DEF BeginClosed, TypeOK, CallShape, LockMeaning, InExchange, LiveIsHolders, OutcomeOnlyWhenDone, DirectionErrorIsLate
  <2> QED BY <2>1, <2>2, <2>3
<1>2. ASSUME NEW t \in Threads, NEW r \in Requests, Begin(t, r)
       PROVE  ExchangeInv'
  <2>1. TypeOK'
    BY <1>2 DEF Begin, TypeOK, CallShape, Outcomes, NapFor
  <2>2. CallShape' /\ LockMeaning' /\ NoCloseUnderIO'
    BY <1>2 DEF Begin, TypeOK, CallShape, LockMeaning, InExchange, NoCloseUnderIO, OnWire, OutcomeOnlyWhenDone, NapFor
  <2>3. LiveIsHolders' /\ OutcomeOnlyWhenDone' /\ DirectionErrorIsLate'
    BY <1>2 DEF Begin, TypeOK, CallShape, LockMeaning, InExchange, LiveIsHolders, OutcomeOnlyWhenDone, DirectionErrorIsLate, NapFor
  <2> QED BY <2>1, <2>2, <2>3
<1>3. ASSUME NEW t \in Threads, Acquire(t)
       PROVE  ExchangeInv'
  <2>1. TypeOK'
    BY <1>3 DEF Acquire, TypeOK, CallShape, Outcomes, LockFree
  <2>2. CallShape' /\ LockMeaning' /\ NoCloseUnderIO'
    BY <1>3 DEF Acquire, TypeOK, CallShape, LockMeaning, InExchange, NoCloseUnderIO, OnWire, OutcomeOnlyWhenDone, LockFree
  <2>3. LiveIsHolders' /\ OutcomeOnlyWhenDone' /\ DirectionErrorIsLate'
    BY <1>3 DEF Acquire, TypeOK, CallShape, LockMeaning, InExchange, LiveIsHolders, OutcomeOnlyWhenDone, DirectionErrorIsLate, LockFree
  <2> QED BY <2>1, <2>2, <2>3
<1>4. ASSUME NEW t \in Threads, SendOnNone(t)
       PROVE  ExchangeInv'
  BY <1>4, LeaveInv DEF SendOnNone, InExchange, TypeOK, NextSeq, Outcomes
<1>5. ASSUME NEW t \in Threads, SendError(t)
       PROVE  ExchangeInv'
  BY <1>5, LeaveInv DEF SendError, InExchange, TypeOK, NextSeq, Outcomes
<1>6. ASSUME NEW t \in Threads, Send(t)
       PROVE  ExchangeInv'
  <2>0. req[t] \in Requests /\ lock = t /\ opened
    BY <1>6 DEF Send, CallShape, LockMeaning, InExchange
  <2> DEFINE f == [req |-> req[t], seq |-> SeqFor(req[t]), live |-> TRUE]
  <2>f. f \in Frames
    BY <2>0, SeqType DEF Frames, TypeOK
  <2>d. /\ devq' \in Seq(Frames)
        /\ \A i \in 1..Len(devq') : devq'[i] = f \/ (i \in 1..Len(devq) /\ devq'[i] = devq[i])
    <3>1. CASE devq' = devq
      BY <3>1 DEF TypeOK
    <3>2. CASE devq' = Append(devq, f)
      <4>1. /\ Append(devq, f) \in Seq(Frames)
            /\ Len(Append(devq, f)) = Len(devq) + 1
            /\ \A i \in 1..Len(devq) : Append(devq, f)[i] = devq[i]
            /\ Append(devq, f)[Len(devq) + 1] = f
        BY <2>f, AppendProperties DEF TypeOK
      <4>2. Len(devq) \in Nat
        BY LenProperties DEF TypeOK
      <4> QED BY <3>2, <4>1, <4>2
    <3> QED BY <1>6, <3>1, <3>2 DEF Send
  <2>1. TypeOK'
    BY <1>6, <2>d, SeqType DEF Send, TypeOK
  <2>2. CallShape' /\ LockMeaning' /\ NoCloseUnderIO'
    BY <1>6, <2>0 DEF Send, TypeOK, CallShape, LockMeaning, InExchange, NoCloseUnderIO, OnWire
  <2>3. LiveIsHolders' /\ OutcomeOnlyWhenDone' /\ DirectionErrorIsLate'
    <3>1. \A i \in 1..Len(devq') : devq'[i].live => lock' \in Threads /\ devq'[i].req = req'[lock']
      BY <1>6, <2>0, <2>d DEF Send, LiveIsHolders
    <3> QED
      BY <1>6, <3>1 DEF Send, TypeOK, LiveIsHolders, OutcomeOnlyWhenDone, DirectionErrorIsLate
  <2> QED BY <2>1, <2>2, <2>3
<1>7. ASSUME NEW t \in Threads, SkipContinuation(t)
       PROVE  ExchangeInv'
  <2>1. TypeOK'
    BY <1>7 DEF SkipContinuation, TypeOK, CallShape, Outcomes
  <2>2. CallShape' /\ LockMeaning' /\ NoCloseUnderIO'
    BY <1>7 DEF SkipContinuation, TypeOK, CallShape, LockMeaning, InExchange, NoCloseUnderIO, OnWire, OutcomeOnlyWhenDone
  <2>3. LiveIsHolders' /\ OutcomeOnlyWhenDone' /\ DirectionErrorIsLate'
    BY <1>7 DEF SkipContinuation, TypeOK, CallShape, LockMeaning, InExchange, LiveIsHolders, OutcomeOnlyWhenDone, DirectionErrorIsLate
  <2> QED BY <2>1, <2>2, <2>3
<1>8. ASSUME NEW t \in Threads, ReadFirst(t)
       PROVE  ExchangeInv'
  <2>0. /\ Head(inq) \in Packets /\ Announced(Head(inq)) \in Nat /\ Head(inq) = inq[1]
        /\ Tail(inq) \in Seq(Packets) /\ 1 \in 1..Len(inq)
        /\ \A i \in 1..Len(Tail(inq)) : i + 1 \in 1..Len(inq) /\ Tail(inq)[i] = inq[i + 1]
    BY <1>8, ReadReport, AnnouncedType DEF ReadFirst, TypeOK
  <2>1. TypeOK'
    BY <1>8, <2>0 DEF ReadFirst, TypeOK
  <2>2. CallShape' /\ LockMeaning' /\ NoCloseUnderIO'
    BY <1>8, <2>0 DEF ReadFirst, TypeOK, CallShape, LockMeaning, InExchange, NoCloseUnderIO, OnWire
  <2>3. LiveIsHolders'
    <3>1. lock = t
      BY <1>8 DEF ReadFirst, LockMeaning, InExchange
    <3>2. Head(inq).live => Head(inq).req = req[t]
      BY <2>0, <3>1 DEF LiveIsHolders
    <3> QED
      BY <1>8, <2>0, <3>2 DEF ReadFirst, TypeOK, LiveIsHolders
  <2>4. OutcomeOnlyWhenDone' /\ DirectionErrorIsLate'
    BY <1>8 DEF ReadFirst, TypeOK, OutcomeOnlyWhenDone, DirectionErrorIsLate
  <2> QED BY <2>1, <2>2, <2>3, <2>4
<1>9. ASSUME NEW t \in Threads, Collect(t)
       PROVE  ExchangeInv'
  <2>1. TypeOK'
    BY <1>9 DEF Collect, TypeOK, CallShape, Outcomes
  <2>2. CallShape' /\ LockMeaning' /\ NoCloseUnderIO'
    BY <1>9 DEF Collect, TypeOK, CallShape, LockMeaning, InExchange, NoCloseUnderIO, OnWire, OutcomeOnlyWhenDone
  <2>3. LiveIsHolders' /\ OutcomeOnlyWhenDone' /\ DirectionErrorIsLate'
    BY <1>9 DEF Collect, TypeOK, CallShape, LockMeaning, InExchange, LiveIsHolders, OutcomeOnlyWhenDone, DirectionErrorIsLate
  <2> QED BY <2>1, <2>2, <2>3
<1>10. ASSUME NEW t \in Threads, CollectDeadline(t)
       PROVE  ExchangeInv'
  <2>1. TypeOK'
    BY <1>10 DEF CollectDeadline, TypeOK, CallShape, Outcomes
  <2>2. CallShape' /\ LockMeaning' /\ NoCloseUnderIO'
    BY <1>10 DEF CollectDeadline, TypeOK, CallShape, LockMeaning, InExchange, NoCloseUnderIO, OnWire, OutcomeOnlyWhenDone
  <2>3. LiveIsHolders' /\ OutcomeOnlyWhenDone' /\ DirectionErrorIsLate'
    BY <1>10 DEF CollectDeadline, TypeOK, CallShape, LockMeaning, InExchange, LiveIsHolders, OutcomeOnlyWhenDone, DirectionErrorIsLate
  <2> QED BY <2>1, <2>2, <2>3
<1>11. ASSUME NEW t \in Threads, Accept(t)
       PROVE  ExchangeInv'
  <2>1. got[t] \in Packets /\ InExchange(t)
    BY <1>11 DEF Accept, CallShape, InExchange
  <2>2. ~DirectionOK(got[t], req[t]) => ~got[t].live
    BY <1>11 DEF Accept, LiveIsHolders, DirectionOK
  <2>3. elapsed' \in 0..Pacing /\ seq' \in 0..(SeqMod - 1) /\ raced' \in SUBSET Threads
    BY <1>11 DEF Accept, TypeOK
  <2>4. CASE DirectionOK(got[t], req[t])
    <3>1. Leave(t, "reply")
      BY <1>11, <2>4 DEF Accept
    <3> QED
      BY <1>11, <2>1, <2>3, <3>1, LeaveInv DEF Accept, Outcomes
  <2>5. CASE ~DirectionOK(got[t], req[t])
    <3>1. Leave(t, "wrongdir")
      BY <1>11, <2>5 DEF Accept
    <3> QED
      BY <1>11, <2>1, <2>2, <2>3, <2>5, <3>1, LeaveInv DEF Accept, Outcomes
  <2> QED BY <2>4, <2>5
<1>12. ASSUME NEW t \in Threads, SkipStale(t)
       PROVE  ExchangeInv'
  <2>1. TypeOK'
    BY <1>12 DEF SkipStale, TypeOK, CallShape, Outcomes
  <2>2. CallShape' /\ LockMeaning' /\ NoCloseUnderIO'
    BY <1>12 DEF SkipStale, TypeOK, CallShape, LockMeaning, InExchange, NoCloseUnderIO, OnWire, OutcomeOnlyWhenDone
  <2>3. LiveIsHolders' /\ OutcomeOnlyWhenDone' /\ DirectionErrorIsLate'
    BY <1>12 DEF SkipStale, TypeOK, CallShape, LockMeaning, InExchange, LiveIsHolders, OutcomeOnlyWhenDone, DirectionErrorIsLate
  <2> QED BY <2>1, <2>2, <2>3
<1>13. ASSUME NEW t \in Threads, Timeout(t)
       PROVE  ExchangeInv'
  BY <1>13, LeaveInv DEF Timeout, InExchange, TypeOK, NextSeq, Outcomes
<1>14. ASSUME NEW t \in Threads, ReadError(t)
       PROVE  ExchangeInv'
  BY <1>14, LeaveInv DEF ReadError, InExchange, TypeOK, NextSeq, Outcomes
<1>15. ASSUME NEW t \in Threads, Return(t)
       PROVE  ExchangeInv'
  <2>1. TypeOK'
    BY <1>15 DEF Return, TypeOK, CallShape, Outcomes
  <2>2. CallShape' /\ LockMeaning' /\ NoCloseUnderIO'
    BY <1>15 DEF Return, TypeOK, CallShape, LockMeaning, InExchange, NoCloseUnderIO, OnWire, OutcomeOnlyWhenDone
  <2>3. LiveIsHolders' /\ OutcomeOnlyWhenDone' /\ DirectionErrorIsLate'
    BY <1>15 DEF Return, TypeOK, CallShape, LockMeaning, InExchange, LiveIsHolders, OutcomeOnlyWhenDone, DirectionErrorIsLate
  <2> QED BY <2>1, <2>2, <2>3
<1>16. ASSUME NEW t \in Threads, Close(t)
       PROVE  ExchangeInv'
  <2>1. TypeOK'
    BY <1>16, EmptySeq DEF Close, TypeOK
  <2>2. CallShape' /\ LockMeaning' /\ NoCloseUnderIO'
    BY <1>16 DEF Close, TypeOK, CallShape, LockMeaning, InExchange, NoCloseUnderIO, OnWire, OutcomeOnlyWhenDone, LockFree
  <2>3. LiveIsHolders' /\ OutcomeOnlyWhenDone' /\ DirectionErrorIsLate'
    BY <1>16 DEF Close, TypeOK, CallShape, LockMeaning, InExchange, LiveIsHolders, OutcomeOnlyWhenDone, DirectionErrorIsLate, LockFree
  <2> QED BY <2>1, <2>2, <2>3
<1>17. ASSUME DeviceAnswer
       PROVE  ExchangeInv'
  <2>0. /\ Head(devq) \in Frames /\ Head(devq) = devq[1] /\ 1 \in 1..Len(devq)
        /\ Tail(devq) \in Seq(Frames)
        /\ \A i \in 1..Len(Tail(devq)) : i + 1 \in 1..Len(devq) /\ Tail(devq)[i] = devq[i + 1]
    BY <1>17, ReadReport DEF DeviceAnswer, TypeOK
  <2> DEFINE r == ReplyPackets(Head(devq))
  <2>r. /\ r \in Seq(Packets)
        /\ \A i \in 1..Len(r) : r[i].live = Head(devq).live /\ r[i].req = Head(devq).req
    BY <2>0, ReplyType
  <2> HIDE DEF r
  <2>i. /\ inq' \in Seq(Packets)
        /\ \A i \in 1..Len(inq') :
             \/ i \in 1..Len(inq) /\ inq'[i] = inq[i]
             \/ \E j \in 1..Len(r) : inq'[i] = r[j]
    <3>1. CASE opened
      <4>1. inq' = inq \o r
        BY <1>17, <3>1 DEF DeviceAnswer, r
      <4> QED
        BY <4>1, <2>r, ConcatProperties, LenProperties DEF TypeOK
    <3>2. CASE ~opened
      BY <1>17, <3>2 DEF DeviceAnswer, TypeOK
    <3> QED BY <3>1, <3>2
  <2>1. TypeOK'
    BY <1>17, <2>0, <2>i DEF DeviceAnswer, TypeOK
  <2>2. CallShape' /\ LockMeaning' /\ NoCloseUnderIO'
    BY <1>17 DEF DeviceAnswer, TypeOK, CallShape, LockMeaning, InExchange, NoCloseUnderIO, OnWire
  <2>3. LiveIsHolders'
    <3>1. \A i \in 1..Len(inq') : inq'[i].live => lock \in Threads /\ inq'[i].req = req[lock]
      <4>1. Head(devq).live => lock \in Threads /\ Head(devq).req = req[lock]
        BY <2>0 DEF LiveIsHolders
      <4>2. \A j \in 1..Len(r) : r[j].live => lock \in Threads /\ r[j].req = req[lock]
        BY <2>r, <4>1
      <4>3. \A i \in 1..Len(inq) : inq[i].live => lock \in Threads /\ inq[i].req = req[lock]
        BY DEF LiveIsHolders
      <4> QED BY <2>i, <4>2, <4>3
    <3>2. \A i \in 1..Len(devq') : devq'[i].live => lock \in Threads /\ devq'[i].req = req[lock]
      BY <1>17, <2>0 DEF DeviceAnswer, LiveIsHolders
    <3> QED
      BY <1>17, <3>1, <3>2 DEF DeviceAnswer, LiveIsHolders
  <2>4. OutcomeOnlyWhenDone' /\ DirectionErrorIsLate'
    BY <1>17 DEF DeviceAnswer, OutcomeOnlyWhenDone, DirectionErrorIsLate
  <2> QED BY <2>1, <2>2, <2>3, <2>4
<1>18. ASSUME Tick
       PROVE  ExchangeInv'
  <2>1. TypeOK'
    BY <1>18 DEF Tick, TypeOK, CallShape, Outcomes
  <2>2. CallShape' /\ LockMeaning' /\ NoCloseUnderIO'
    BY <1>18 DEF Tick, TypeOK, CallShape, LockMeaning, InExchange, NoCloseUnderIO, OnWire, OutcomeOnlyWhenDone
  <2>3. LiveIsHolders' /\ OutcomeOnlyWhenDone' /\ DirectionErrorIsLate'
    BY <1>18 DEF Tick, TypeOK, CallShape, LockMeaning, InExchange, LiveIsHolders, OutcomeOnlyWhenDone, DirectionErrorIsLate
  <2> QED BY <2>1, <2>2, <2>3
<1>19. ASSUME UNCHANGED vars
       PROVE  ExchangeInv'
  <2>1. TypeOK'
    BY <1>19 DEF vars, TypeOK, CallShape, Outcomes
  <2>2. CallShape' /\ LockMeaning' /\ NoCloseUnderIO'
    BY <1>19 DEF vars, TypeOK, CallShape, LockMeaning, InExchange, NoCloseUnderIO, OnWire, OutcomeOnlyWhenDone
  <2>3. LiveIsHolders' /\ OutcomeOnlyWhenDone' /\ DirectionErrorIsLate'
    BY <1>19 DEF vars, TypeOK, CallShape, LockMeaning, InExchange, LiveIsHolders, OutcomeOnlyWhenDone, DirectionErrorIsLate
  <2> QED BY <2>1, <2>2, <2>3
<1> QED
  BY <1>1, <1>2, <1>3, <1>4, <1>5, <1>6, <1>7, <1>8, <1>9, <1>10, <1>11, <1>12, <1>13, <1>14, <1>15, <1>16, <1>17, <1>18, <1>19 DEF Next, Steps, Errors

-----------------------------------------------------------------------------
(* The theorems *)

\* The invariant holds throughout every behavior of the exchange layer.
LEMMA InvHolds == Spec => []ExchangeInv
  BY InitInv, StepInv, PTL DEF Spec

\* Every field of the Device and of its calls stays in its domain.
THEOREM TypeCorrect == Spec => []TypeOK
<1>1. ExchangeInv => TypeOK
  BY DEF ExchangeInv
<1> QED
  BY <1>1, InvHolds, PTL

\* Device._lock excludes: no two threads are inside _exchange's send-and-wait
\* section at once.
THEOREM MutualExclusion == Spec => []OneExchangeAtATime
<1>1. ExchangeInv => OneExchangeAtATime
  BY DEF ExchangeInv, LockMeaning, OneExchangeAtATime
<1> QED
  BY <1>1, InvHolds, PTL

\* Device.close() never drops the handle under a thread that is on the wire.
THEOREM CloseIsQuiet == Spec => []NoCloseUnderIO
<1>1. ExchangeInv => NoCloseUnderIO
  BY DEF ExchangeInv
<1> QED
  BY <1>1, InvHolds, PTL

\* "expected READ reply / WRITE ack" is raised for late replies only.
THEOREM DirectionErrors == Spec => []DirectionErrorIsLate
<1>1. ExchangeInv => DirectionErrorIsLate
  BY DEF ExchangeInv
<1> QED
  BY <1>1, InvHolds, PTL

-----------------------------------------------------------------------------
(* Pacing *)

\* The sleep of a thread keeps covering the pacing, whatever the others do.
LEMMA PacingStep == ExchangeInv /\ PacingInv /\ [Next]_vars => PacingInv'
<1> SUFFICES ASSUME ExchangeInv, PacingInv, [Next]_vars PROVE PacingInv'
  OBVIOUS
<1> USE ExchangeAssumption DEF ExchangeAssumption, ExchangeInv, TypeOK, PacingInv, SleepCovers, Paced
<1>1. ASSUME NEW t \in Threads, NEW r \in Requests, BeginClosed(t, r)
      PROVE  PacingInv'
  BY <1>1 DEF BeginClosed
<1>9. ASSUME NEW t \in Threads, NEW r \in Requests, Begin(t, r)
      PROVE  PacingInv'
  <2>1. elapsed' = elapsed /\ nap'[t] = Pacing - elapsed /\ pc'[t] = "pace"
    BY <1>9 DEF Begin, NapFor
  <2>2. ASSUME NEW u \in Threads, u # t
        PROVE  nap'[u] = nap[u] /\ pc'[u] = pc[u] /\ (u \in raced' <=> u \in raced)
    BY <1>9, <2>2 DEF Begin
  <2>3. nap'[t] + elapsed' >= Pacing
    BY <2>1
  <2>4. SleepCovers'
    BY <2>1, <2>2, <2>3
  <2>5. Paced'
    BY <2>1, <2>2
  <2> QED BY <2>4, <2>5
<1>2. ASSUME NEW t \in Threads, Acquire(t) \/ Return(t) \/ Close(t)
      PROVE  PacingInv'
  BY <1>2 DEF Acquire, Return, Close
<1>3. ASSUME NEW t \in Threads, SendOnNone(t) \/ SendError(t) \/ Send(t)
      PROVE  PacingInv'
  BY <1>3 DEF SendOnNone, SendError, Send, Leave
<1>4. ASSUME NEW t \in Threads,
             SkipContinuation(t) \/ ReadFirst(t) \/ Collect(t) \/ CollectDeadline(t) \/ SkipStale(t)
      PROVE  PacingInv'
  BY <1>4 DEF SkipContinuation, ReadFirst, Collect, CollectDeadline, SkipStale
<1>5. ASSUME NEW t \in Threads, Timeout(t) \/ ReadError(t)
      PROVE  PacingInv'
  BY <1>5 DEF Timeout, ReadError, Leave
<1>6. ASSUME NEW t \in Threads, Accept(t)
      PROVE  PacingInv'
  <2>1. \A u \in Threads : pc[u] = "send" => u = t
    BY <1>6 DEF Accept, LockMeaning, InExchange
  <2>2. pc' = [pc EXCEPT ![t] = "done"] /\ raced' = raced \cup {u \in Threads : pc[u] = "pace"}
    BY <1>6 DEF Accept, Leave
  <2>3. ASSUME NEW u \in Threads
        PROVE  pc'[u] # "send" /\ (pc'[u] = "pace" => u \in raced')
    BY <2>1, <2>2
  <2> QED BY <2>3
<1>7. ASSUME DeviceAnswer \/ UNCHANGED vars
      PROVE  PacingInv'
  BY <1>7 DEF DeviceAnswer, vars
<1>8. ASSUME Tick
      PROVE  PacingInv'
  BY <1>8 DEF Tick
<1> QED
  BY <1>9, <1>1, <1>2, <1>3, <1>4, <1>5, <1>6, <1>7, <1>8 DEF Next, Steps, Errors

\* _read_pacing_s is kept by every thread that no other thread's reply
\* overtook in its sleep.
THEOREM PacingKept == Spec => []Paced
<1>1. Init => PacingInv
  BY ExchangeAssumption DEF ExchangeAssumption, Init, PacingInv, SleepCovers, Paced
<1>2. PacingInv => Paced
  BY DEF PacingInv
<1> QED
  BY <1>1, <1>2, InvHolds, PacingStep, PTL DEF Spec

-----------------------------------------------------------------------------
(* A Device that one thread uses *)

LEMMA NothingBetweenStep ==
  ASSUME OneCaller, ExchangeInv, NothingBetween, [Next]_vars
  PROVE  NothingBetween'
<1> USE DEF OneCaller, ExchangeInv, TypeOK, NothingBetween, ClosedIsProtocolError
<1>1. ASSUME NEW t \in Threads, NEW r \in Requests, BeginClosed(t, r) \/ Begin(t, r)
      PROVE  NothingBetween'
  BY <1>1 DEF BeginClosed, Begin
<1>2. ASSUME NEW t \in Threads, Acquire(t) \/ Return(t) \/ Close(t)
      PROVE  NothingBetween'
  BY <1>2 DEF Acquire, Return, Close
<1>3. ASSUME NEW t \in Threads, SendOnNone(t) PROVE FALSE
  BY <1>3 DEF SendOnNone
<1>4. ASSUME NEW t \in Threads, SendError(t) \/ Send(t) PROVE NothingBetween'
  BY <1>4 DEF SendError, Send, Leave
<1>5. ASSUME NEW t \in Threads,
             SkipContinuation(t) \/ ReadFirst(t) \/ Collect(t) \/ CollectDeadline(t) \/ SkipStale(t)
      PROVE  NothingBetween'
  BY <1>5 DEF SkipContinuation, ReadFirst, Collect, CollectDeadline, SkipStale
<1>6. ASSUME NEW t \in Threads, Timeout(t) \/ ReadError(t) PROVE NothingBetween'
  BY <1>6 DEF Timeout, ReadError, Leave
<1>7. ASSUME NEW t \in Threads, Accept(t) PROVE NothingBetween'
  <2>1. {u \in Threads : pc[u] = "pace"} = {}
    BY <1>7 DEF Accept
  <2> QED BY <1>7, <2>1 DEF Accept, Leave
<1>8. CASE DeviceAnswer \/ Tick \/ UNCHANGED vars
  BY <1>8 DEF DeviceAnswer, Tick, vars
<1> QED
  BY <1>1, <1>2, <1>3, <1>4, <1>5, <1>6, <1>7, <1>8 DEF Next, Steps, Errors

LEMMA NothingBetweenHolds == ASSUME OneCaller PROVE Spec => []NothingBetween
<1>1. Init => NothingBetween
  BY DEF Init, NothingBetween, ClosedIsProtocolError
<1> QED BY <1>1, InvHolds, NothingBetweenStep, PTL DEF Spec

\* "every exchange is at least _read_pacing_s seconds after the last one"
\* (device.py:592): it is, for a Device that one thread uses.  A second thread
\* breaks it, as exchange_pacing_shared shows.
THEOREM PacedForOneCaller == ASSUME OneCaller PROVE Spec => []PacedAlways
<1>1. Paced /\ NothingBetween => PacedAlways
  BY DEF Paced, NothingBetween, PacedAlways
<1> QED BY <1>1, PacingKept, NothingBetweenHolds, PTL

\* _exchange's test of _t: a closed Device answers one thread with
\* ProtocolError, never with AttributeError; exchange_closed shows two threads.
THEOREM ClosedForOneCaller == ASSUME OneCaller PROVE Spec => []ClosedIsProtocolError
<1>1. NothingBetween => ClosedIsProtocolError
  BY DEF NothingBetween
<1> QED BY <1>1, NothingBetweenHolds, PTL

-----------------------------------------------------------------------------
(* The queues *)

\* A step that touches no queue and takes no thread to a new reading position.
LEMMA QueuesKept ==
  ASSUME QueueInv, UNCHANGED <<devq, inq>>,
         \A u \in Threads : pc'[u] \in {"send", "collect", "judge"} =>
           pc'[u] = pc[u] /\ got'[u] = got[u] /\ missing'[u] = missing[u]
  PROVE  QueueInv'
<1>1. WholeQueue'
  BY DEF QueueInv, WholeQueue, Continued, Announced
<1>2. RestIsNext'
  BY DEF QueueInv, RestIsNext, Continued
<1>3. LiveIsLast'
  BY DEF QueueInv, LiveIsLast, Announced
<1>4. ReaderInStep'
  BY DEF QueueInv, ReaderInStep, ReaderOf
<1> QED BY <1>1, <1>2, <1>3, <1>4 DEF QueueInv

\* Leaving the lock: the reports stay whole, and nothing is live.
LEMMA QueuesLeft ==
  ASSUME ExchangeInv, QueueInv, NEW t \in Threads, InExchange(t), NEW how, Leave(t, how)
  PROVE  QueueInv'
<1>1. TypeOK /\ devq \in Seq(Frames) /\ inq \in Seq(Packets)
  BY DEF ExchangeInv, TypeOK
<1>2. \A u \in Threads : pc'[u] \notin {"send", "collect", "judge"}
  BY <1>1 DEF ExchangeInv, TypeOK, LockMeaning, InExchange, Leave
<1>3. /\ \A i \in 1..Len(devq') : ~devq'[i].live
      /\ \A i \in 1..Len(inq') : ~inq'[i].live
  BY <1>1, StaleQueues DEF Leave
<1>4. /\ Len(inq') = Len(inq)
      /\ \A i \in 1..Len(inq) : inq'[i] = [inq[i] EXCEPT !.live = FALSE]
  <2>1. \A x \in Packets : [x EXCEPT !.live = FALSE] \in Packets
    BY DEF Packets
  <2> QED BY <1>1, <2>1, StaleType DEF Leave
<1>5. \A i \in 1..Len(inq) : inq'[i].cont = inq[i].cont /\ inq'[i].req = inq[i].req
  <2>1. \A x \in Packets : [x EXCEPT !.live = FALSE].cont = x.cont
                           /\ [x EXCEPT !.live = FALSE].req = x.req
    BY DEF Packets
  <2>2. \A i \in 1..Len(inq) : inq[i] \in Packets
    BY <1>1, ElementOfSeq
  <2> QED BY <1>4, <2>1, <2>2
<1>6. Len(inq) \in Nat /\ \A i \in 1..Len(inq) : Announced(inq[i]) \in Nat
  BY <1>1, ElementOfSeq, LenProperties, AnnouncedType, ExchangeAssumption
<1>7. WholeQueue'
  <2> SUFFICES ASSUME NEW i \in 1..Len(inq'), ~inq'[i].cont
               PROVE  /\ i + Announced(inq'[i]) <= Len(inq')
                      /\ \A j \in (i + 1)..(i + Announced(inq'[i])) :
                           inq'[j].cont /\ inq'[j].req = inq'[i].req /\ inq'[j].live = inq'[i].live
    BY DEF WholeQueue, Continued
  <2>1. Announced(inq'[i]) = Announced(inq[i]) /\ i \in 1..Len(inq) /\ ~inq[i].cont
    BY <1>4, <1>5 DEF Announced
  <2>2. Continued(i, Announced(inq[i]), inq[i])
    BY <2>1 DEF QueueInv, WholeQueue
  <2>3. \A j \in (i + 1)..(i + Announced(inq[i])) : j \in 1..Len(inq)
    BY <1>6, <2>1, <2>2 DEF Continued
  <2>4. \A j \in 1..Len(inq) : inq'[j].live = FALSE
    <3>1. inq' \in Seq(Packets)
      BY <1>1, StaleQueues DEF Leave
    <3>2. \A x \in Packets : x.live \in BOOLEAN
      BY DEF Packets
    <3> QED BY <1>3, <1>4, <3>1, <3>2, ElementOfSeq
  <2> QED BY <1>4, <1>5, <2>1, <2>2, <2>3, <2>4 DEF Continued
<1> QED BY <1>2, <1>3, <1>7 DEF QueueInv, RestIsNext, LiveIsLast, ReaderInStep, ReaderOf

\* Reading the head of the queue leaves the rest whole.
LEMMA QueueRead ==
  ASSUME ExchangeInv, QueueInv, inq # <<>>, inq' = Tail(inq), devq' = devq
  PROVE  /\ Len(inq') = Len(inq) - 1 /\ Len(inq) \in Nat
         /\ \A i \in 1..Len(inq') : i + 1 \in 1..Len(inq) /\ inq'[i] = inq[i + 1]
         /\ WholeQueue' /\ LiveIsLast'
<1>1. inq \in Seq(Packets) /\ Len(inq) \in Nat
  BY LenProperties DEF ExchangeInv, TypeOK
<1>2. /\ Len(inq') = Len(inq) - 1
      /\ \A i \in 1..Len(inq') : i + 1 \in 1..Len(inq) /\ inq'[i] = inq[i + 1]
  BY <1>1, ReadReport, HeadTailProperties
<1>3. \A i \in 1..Len(inq) : Announced(inq[i]) \in Nat
  BY <1>1, ElementOfSeq, AnnouncedType, ExchangeAssumption
<1>4. WholeQueue'
  <2> SUFFICES ASSUME NEW i \in 1..Len(inq'), ~inq'[i].cont
               PROVE  /\ i + Announced(inq'[i]) <= Len(inq')
                      /\ \A j \in (i + 1)..(i + Announced(inq'[i])) :
                           inq'[j].cont /\ inq'[j].req = inq'[i].req /\ inq'[j].live = inq'[i].live
    BY DEF WholeQueue, Continued
  <2>1. inq'[i] = inq[i + 1] /\ i + 1 \in 1..Len(inq)
    BY <1>2
  <2> DEFINE n == Announced(inq[i + 1])
  <2>2. n \in Nat /\ Announced(inq'[i]) = n
    BY <1>3, <2>1 DEF Announced
  <2>3. Continued(i + 1, n, inq[i + 1])
    BY <2>1 DEF QueueInv, WholeQueue
  <2> HIDE DEF n
  <2>4. i + n <= Len(inq')
    BY <1>1, <1>2, <2>2, <2>3 DEF Continued
  <2>5. ASSUME NEW j \in (i + 1)..(i + n)
        PROVE  inq'[j].cont /\ inq'[j].req = inq'[i].req /\ inq'[j].live = inq'[i].live
    <3>1. j \in 1..Len(inq') /\ j + 1 \in (i + 1 + 1)..(i + 1 + n)
      BY <1>1, <1>2, <2>2, <2>4
    <3> QED BY <1>2, <2>1, <2>3, <3>1 DEF Continued
  <2> QED BY <2>2, <2>4, <2>5
<1>5. LiveIsLast'
  <2>1. \A i \in 1..Len(devq') : devq'[i].live =>
          i = Len(devq') /\ \A j \in 1..Len(inq') : ~inq'[j].live
    BY <1>2 DEF QueueInv, LiveIsLast
  <2>2. ASSUME NEW i \in 1..Len(inq'), inq'[i].live
        PROVE  Len(devq') = 0 /\ (~inq'[i].cont => i + Announced(inq'[i]) = Len(inq'))
    <3>1. inq'[i] = inq[i + 1] /\ i + 1 \in 1..Len(inq) /\ Announced(inq[i + 1]) \in Nat
      BY <1>2, <1>3
    <3>2. Len(devq) = 0 /\ (~inq[i + 1].cont => i + 1 + Announced(inq[i + 1]) = Len(inq))
      BY <2>2, <3>1 DEF QueueInv, LiveIsLast
    <3> QED BY <1>1, <1>2, <3>1, <3>2 DEF Announced
  <2> QED BY <2>1, <2>2 DEF LiveIsLast
<1> QED BY <1>1, <1>2, <1>4, <1>5

\* The reads of read_response.
LEMMA QueueReaders ==
  ASSUME ExchangeInv, QueueInv, NEW t \in Threads,
         SkipContinuation(t) \/ ReadFirst(t) \/ Collect(t)
  PROVE  QueueInv'
<1>1. inq # <<>> /\ inq' = Tail(inq) /\ devq' = devq
  BY DEF SkipContinuation, ReadFirst, Collect
<1>2. /\ Len(inq') = Len(inq) - 1 /\ Len(inq) \in Nat
      /\ \A i \in 1..Len(inq') : i + 1 \in 1..Len(inq) /\ inq'[i] = inq[i + 1]
      /\ WholeQueue' /\ LiveIsLast'
  BY <1>1, QueueRead
<1>3. pc[t] \in {"await", "collect"} /\ TypeOK /\ CallShape
  BY DEF SkipContinuation, ReadFirst, Collect, ExchangeInv
<1>4. ASSUME NEW u \in Threads, u # t
      PROVE  pc'[u] = pc[u] /\ pc'[u] \notin {"send", "collect", "judge"}
  <2>1. pc'[u] = pc[u]
    BY <1>3, <1>4 DEF SkipContinuation, ReadFirst, Collect, TypeOK
  <2> QED BY <1>3, <1>4, <2>1 DEF ExchangeInv, LockMeaning, InExchange
<1>5. SUFFICES /\ pc'[t] = "collect" => Continued(0, missing[t], got[t])'
               /\ ReaderOf(t)'
  <2>1. RestIsNext' /\ ReaderInStep'
    BY <1>4, <1>5 DEF RestIsNext, ReaderInStep, ReaderOf
  <2> QED BY <1>2, <2>1 DEF QueueInv
<1>7. CASE SkipContinuation(t)
  BY <1>3, <1>7 DEF SkipContinuation, ReaderOf
<1>8. ASSUME ReadFirst(t)
      PROVE  /\ pc'[t] = "collect" => Continued(0, missing[t], got[t])'
             /\ ReaderOf(t)'
  <2>1. Head(inq) = inq[1] /\ inq[1] \in Packets /\ 1 \in 1..Len(inq)
    BY <1>1, <1>3, ReadReport DEF TypeOK
  <2>2. PICK h \in Packets : h = inq[1]
    BY <2>1
  <2>3. PICK n \in Nat : n = Announced(h)
    BY AnnouncedType, ExchangeAssumption
  <2>4. /\ got'[t] = h /\ missing'[t] = n /\ ~h.cont
        /\ pc'[t] = (IF n = 0 THEN "judge" ELSE "collect")
    BY <1>3, <1>8, <2>1, <2>2, <2>3 DEF ReadFirst, TypeOK
  <2>5. Continued(1, n, h)
    BY <2>1, <2>2, <2>3, <2>4 DEF QueueInv, WholeQueue
  <2>6. h.live => Len(devq) = 0 /\ 1 + n = Len(inq)
    BY <2>1, <2>2, <2>3, <2>4 DEF QueueInv, LiveIsLast
  <2>7. n <= Len(inq') /\ \A j \in 1..n : inq'[j].cont /\ inq'[j].req = h.req /\ inq'[j].live = h.live
    <3>1. n <= Len(inq') /\ \A j \in 1..n : j \in 1..Len(inq') /\ j + 1 \in (1 + 1)..(1 + n)
      BY <1>2, <2>5 DEF Continued
    <3> QED BY <1>2, <2>5, <3>1 DEF Continued
  <2>8. Continued(0, missing[t], got[t])'
    BY <2>4, <2>7 DEF Continued
  <2>9. ReaderOf(t)'
    BY <1>1, <1>2, <2>4, <2>6 DEF ReaderOf
  <2> QED BY <2>8, <2>9
<1>9. ASSUME Collect(t)
      PROVE  /\ pc'[t] = "collect" => Continued(0, missing[t], got[t])'
             /\ ReaderOf(t)'
  <2>1. /\ pc[t] = "collect" /\ missing[t] \in Nat /\ missing[t] >= 1
        /\ missing'[t] = missing[t] - 1 /\ got'[t] = got[t]
        /\ pc'[t] = (IF missing[t] = 1 THEN "judge" ELSE "collect")
    BY <1>3, <1>9 DEF Collect, TypeOK, CallShape
  <2>2. PICK n \in Nat : missing[t] = n + 1
    BY <2>1
  <2>3. Continued(0, n + 1, got[t]) /\ ReaderOf(t)
    BY <2>1, <2>2 DEF QueueInv, RestIsNext, ReaderInStep
  <2>4. n <= Len(inq') /\ \A j \in 1..n :
          inq'[j].cont /\ inq'[j].req = got[t].req /\ inq'[j].live = got[t].live
    <3>1. n <= Len(inq') /\ \A j \in 1..n : j \in 1..Len(inq') /\ j + 1 \in 1..(n + 1)
      BY <1>2, <2>3 DEF Continued
    <3>2. \A k \in 1..(n + 1) : inq[k].cont /\ inq[k].req = got[t].req /\ inq[k].live = got[t].live
      BY <2>3 DEF Continued
    <3>3. \A j \in 1..n : inq'[j] = inq[j + 1]
      BY <1>2, <3>1
    <3> QED BY <3>1, <3>2, <3>3
  <2>5. Continued(0, missing[t], got[t])'
    BY <2>1, <2>2, <2>4 DEF Continued
  <2>6. got[t].live => Len(devq) = 0 /\ missing[t] = Len(inq)
    BY <2>1, <2>3 DEF ReaderOf
  <2>7. ReaderOf(t)'
    BY <1>1, <1>2, <2>1, <2>6 DEF ReaderOf
  <2> QED BY <2>5, <2>7
<1> QED BY <1>7, <1>8, <1>9 DEF SkipContinuation

\* A frame is sent behind everything else.
LEMMA QueueSend ==
  ASSUME ExchangeInv, QueueInv, NEW t \in Threads, Send(t)
  PROVE  QueueInv'
<1> DEFINE f == [req |-> req[t], seq |-> SeqFor(req[t]), live |-> TRUE]
<1>1. /\ pc[t] = "send" /\ inq' = inq /\ UNCHANGED <<got, missing>> /\ pc' = [pc EXCEPT ![t] = "await"]
      /\ devq' = devq \/ devq' = Append(devq, f)
      /\ TypeOK /\ devq \in Seq(Frames) /\ inq \in Seq(Packets)
  BY DEF Send, ExchangeInv, TypeOK
<1>2. ReaderOf(t)
  BY DEF QueueInv, ReaderInStep
<1>3. \A u \in Threads : pc'[u] \notin {"send", "collect", "judge"}
  BY <1>1 DEF ExchangeInv, TypeOK, LockMeaning, InExchange
<1>4. \A i \in 1..Len(devq') : devq'[i].live => i = Len(devq')
  <2>1. CASE devq' = devq
    BY <1>1, <1>2, <2>1 DEF ReaderOf
  <2>2. CASE devq' = Append(devq, f)
    <3>1. /\ Len(Append(devq, f)) = Len(devq) + 1 /\ Len(devq) \in Nat
          /\ \A i \in 1..Len(devq) : Append(devq, f)[i] = devq[i]
      BY <1>1, LenProperties
    <3> QED BY <1>1, <1>2, <2>2, <3>1 DEF ReaderOf
  <2> QED BY <1>1, <2>1, <2>2
<1>5. WholeQueue' /\ LiveIsLast'
  BY <1>1, <1>2, <1>4 DEF QueueInv, WholeQueue, Continued, LiveIsLast, ReaderOf, Announced
<1> QED BY <1>3, <1>5 DEF QueueInv, RestIsNext, ReaderInStep, ReaderOf

\* One reply: a framed report and its continuations.
LEMMA OneReply ==
  ASSUME NEW f \in Frames
  PROVE  LET r == ReplyPackets(f) IN
         /\ r \in Seq(Packets) /\ Len(r) = f.req.packets /\ Len(r) \in Nat \ {0}
         /\ \A i \in 1..Len(r) : /\ r[i].req = f.req /\ r[i].live = f.live
                                 /\ r[i].cont <=> i > 1
<1>1. f.req \in Requests /\ f.live \in BOOLEAN /\ f.req.packets \in Nat \ {0}
  BY ExchangeAssumption DEF Frames, ExchangeAssumption
<1> DEFINE n == f.req.packets
           p(i) == [req |-> f.req, cont |-> i > 1, live |-> f.live]
<1>2. ReplyPackets(f) = [i \in 1..n |-> p(i)]
  BY DEF ReplyPackets
<1>3. ReplyPackets(f) \in Seq(Packets)
  BY ReplyType, ExchangeAssumption
<1>4. Len(ReplyPackets(f)) = n
  BY <1>1, <1>2, <1>3, LenProperties
<1>5. ASSUME NEW i \in 1..n
      PROVE  /\ ReplyPackets(f)[i].req = f.req /\ ReplyPackets(f)[i].live = f.live
             /\ ReplyPackets(f)[i].cont <=> i > 1
  <2>1. ReplyPackets(f)[i] = p(i)
    BY <1>2
  <2>2. p(i).req = f.req /\ p(i).live = f.live /\ p(i).cont = (i > 1)
    OBVIOUS
  <2> QED BY <2>1, <2>2
<1> QED BY <1>1, <1>3, <1>4, <1>5

\* The device puts a whole reply behind whole replies.
LEMMA QueueAnswer ==
  ASSUME ExchangeInv, QueueInv, DeviceAnswer
  PROVE  QueueInv'
<1>1. /\ devq \in Seq(Frames) /\ inq \in Seq(Packets) /\ Len(inq) \in Nat /\ Len(devq) \in Nat
      /\ devq # <<>> /\ devq' = Tail(devq) /\ UNCHANGED <<pc, got, missing>>
  BY LenProperties DEF ExchangeInv, TypeOK, DeviceAnswer
<1>2. /\ Head(devq) \in Frames /\ Head(devq) = devq[1] /\ 1 \in 1..Len(devq)
      /\ \A i \in 1..Len(devq') : i + 1 \in 1..Len(devq) /\ devq'[i] = devq[i + 1]
      /\ Len(devq') = Len(devq) - 1
  BY <1>1, ReadReport, HeadTailProperties
<1>a. /\ \A i \in 1..Len(devq) : devq[i].live => i = Len(devq)
      /\ \A i \in 1..Len(inq) : inq[i].live => Len(devq) = 0
  BY DEF QueueInv, LiveIsLast
<1>e. Len(devq) \in Nat /\ 1 \in 1..Len(devq)
  BY <1>1, <1>2
<1>f. Len(devq) # 0
  BY <1>e
<1>d. PICK depth \in Nat \ {0} : depth = Len(devq)
  BY <1>e, <1>f
<1>3. depth # 0 /\ \A i \in 1..Len(inq) : ~inq[i].live
  BY <1>a, <1>d
<1>b. \A i \in 1..Len(devq') : devq'[i].live => i = Len(devq') /\ ~Head(devq).live
  <2>1. ASSUME NEW i \in 1..Len(devq'), devq'[i].live PROVE i + 1 = Len(devq)
    BY <1>2, <1>a, <2>1
  <2>2. Head(devq).live => 1 = depth
    BY <1>2, <1>a, <1>d
  <2>3. Len(devq') = depth - 1
    BY <1>2, <1>d
  <2> QED BY <1>d, <2>1, <2>2, <2>3
<1>c. Head(devq).live => Len(devq') = 0
  <2>1. Head(devq).live => 1 = depth
    BY <1>2, <1>a, <1>d
  <2> QED BY <1>2, <1>d, <2>1
<1>4. CASE inq' = inq
  <2>1. WholeQueue' /\ RestIsNext'
    BY <1>1, <1>4 DEF QueueInv, WholeQueue, RestIsNext, Continued, Announced
  <2>2. LiveIsLast'
    BY <1>3, <1>4, <1>b DEF LiveIsLast
  <2>3. ReaderInStep'
    BY <1>1, <1>2, <1>3, <1>4 DEF QueueInv, ReaderInStep, ReaderOf
  <2> QED BY <2>1, <2>2, <2>3 DEF QueueInv
<1>5. CASE inq' = inq \o ReplyPackets(Head(devq))
  <2>1. PICK f \in Frames : f = Head(devq)
    BY <1>2
  <2>2. PICK r \in Seq(Packets) : r = ReplyPackets(f)
    BY OneReply
  <2>3. /\ Len(r) = f.req.packets /\ Len(r) \in Nat \ {0}
        /\ \A i \in 1..Len(r) : /\ r[i].req = f.req /\ r[i].live = f.live
                                /\ r[i].cont <=> i > 1
    BY <2>2, OneReply
  <2>4. /\ Len(inq') = Len(inq) + Len(r)
        /\ \A i \in 1..Len(inq) : inq'[i] = inq[i]
        /\ \A i \in 1..Len(r) : inq'[Len(inq) + i] = r[i]
    BY <1>1, <1>5, <2>1, <2>2, ConcatProperties
  <2>5. \A i \in 1..Len(inq') : i \in 1..Len(inq) \/ (i - Len(inq) \in 1..Len(r)
                                                      /\ inq'[i] = r[i - Len(inq)])
    BY <1>1, <2>3, <2>4
  <2>6. \A i \in 1..Len(inq) : Announced(inq[i]) \in Nat
    BY <1>1, ElementOfSeq, AnnouncedType, ExchangeAssumption
  <2>7. ASSUME NEW i \in Nat, i <= Len(inq), NEW n \in Nat, NEW p, Continued(i, n, p)
        PROVE  Continued(i, n, p)'
    <3>1. i + n <= Len(inq') /\ \A j \in (i + 1)..(i + n) : j \in 1..Len(inq)
      BY <1>1, <2>3, <2>4, <2>7 DEF Continued
    <3>2. \A j \in (i + 1)..(i + n) : inq'[j].cont /\ inq'[j].req = p.req /\ inq'[j].live = p.live
      BY <2>4, <2>7, <3>1 DEF Continued
    <3> QED BY <3>1, <3>2 DEF Continued
  <2>8. ASSUME NEW i \in 1..Len(inq'), ~inq'[i].cont
        PROVE  /\ Continued(i, Announced(inq[i]), inq[i])'
               /\ i \notin 1..Len(inq) => i + Announced(inq'[i]) = Len(inq')
    <3>1. CASE i \in 1..Len(inq)
      <4>1. PICK p \in Packets : p = inq[i] /\ inq'[i] = p
        BY <1>1, <2>4, <3>1, ElementOfSeq
      <4>2. PICK n \in Nat : n = Announced(p)
        BY AnnouncedType, ExchangeAssumption
      <4>3. Continued(i, n, p)
        BY <2>8, <3>1, <4>1, <4>2 DEF QueueInv, WholeQueue
      <4>4. Continued(i, n, p)'
        BY <1>1, <2>7, <3>1, <4>3
      <4>5. Announced(inq[i])' = n /\ inq'[i] = p
        BY <4>1, <4>2 DEF Announced
      <4> QED BY <3>1, <4>4, <4>5 DEF Continued
    <3>2. CASE i \notin 1..Len(inq)
      <4>1. inq'[i] = r[i - Len(inq)] /\ i - Len(inq) \in 1..Len(r)
        BY <2>5, <3>2
      <4>2. i = Len(inq) + 1 /\ inq'[i].req = f.req /\ inq'[i].live = f.live
        BY <1>1, <2>3, <2>8, <4>1
      <4>3. Announced(inq'[i]) = Len(r) - 1
        BY <2>3, <4>2 DEF Announced
      <4>4. \A j \in (i + 1)..(i + Len(r) - 1) :
              inq'[j].cont /\ inq'[j].req = inq'[i].req /\ inq'[j].live = inq'[i].live
        <5> TAKE j \in (i + 1)..(i + Len(r) - 1)
        <5>1. PICK k \in 2..Len(r) : j = Len(inq) + k
          <6>1. j - Len(inq) \in 2..Len(r) /\ j = Len(inq) + (j - Len(inq))
            BY <1>1, <2>3, <4>2
          <6> QED BY <6>1
        <5>2. k \in 1..Len(r) /\ k > 1
          BY <2>3, <5>1
        <5>3. inq'[j] = r[k]
          BY <2>4, <5>1, <5>2
        <5>4. r[k].cont /\ r[k].req = f.req /\ r[k].live = f.live
          BY <2>3, <5>2
        <5> QED BY <4>2, <5>3, <5>4
      <4>5. i + Announced(inq'[i]) = Len(inq') /\ i + (Len(r) - 1) = i + Len(r) - 1
        <5>1. Len(r) \in Nat /\ i = Len(inq) + 1 /\ Len(inq') = Len(inq) + Len(r)
          BY <2>3, <2>4, <4>2
        <5> QED BY <1>1, <4>3, <5>1
      <4>6. Announced(inq[i])' = Len(r) - 1
        BY <4>3 DEF Announced
      <4> QED BY <1>1, <2>3, <2>4, <3>2, <4>2, <4>4, <4>5, <4>6 DEF Continued
    <3> QED BY <3>1, <3>2
  <2>9. WholeQueue'
    BY <2>8 DEF WholeQueue
  <2>10. RestIsNext'
    <3> SUFFICES ASSUME NEW t \in Threads, pc[t] = "collect" PROVE Continued(0, missing[t], got[t])'
      BY <1>1 DEF RestIsNext
    <3>1. PICK n \in Nat : n = missing[t]
      BY DEF ExchangeInv, TypeOK
    <3>a. PICK p : p = got[t]
      OBVIOUS
    <3>2. Continued(0, n, p)
      BY <3>1, <3>a DEF QueueInv, RestIsNext
    <3>3. Continued(0, n, p)'
      BY <1>1, <2>7, <3>2
    <3> QED BY <1>1, <3>1, <3>a, <3>3 DEF Continued
  <2>11. LiveIsLast'
    <3>1. ASSUME NEW i \in 1..Len(inq'), inq'[i].live
          PROVE  f.live /\ i \notin 1..Len(inq)
      <4>1. i \notin 1..Len(inq)
        BY <1>3, <2>4, <3>1
      <4>2. inq'[i] = r[i - Len(inq)] /\ i - Len(inq) \in 1..Len(r)
        BY <2>5, <4>1
      <4> QED BY <2>3, <3>1, <4>1, <4>2
    <3>2. f.live => Len(devq') = 0
      BY <1>c, <2>1
    <3>3. ASSUME NEW i \in 1..Len(inq'), inq'[i].live
          PROVE  Len(devq') = 0 /\ (~inq'[i].cont => i + Announced(inq'[i]) = Len(inq'))
      BY <2>8, <3>1, <3>2, <3>3
    <3>4. ASSUME NEW i \in 1..Len(devq'), devq'[i].live
          PROVE  i = Len(devq') /\ \A j \in 1..Len(inq') : ~inq'[j].live
      <4>1. i = Len(devq') /\ ~f.live
        BY <1>b, <2>1, <3>4
      <4> QED BY <3>1, <4>1
    <3> QED BY <3>3, <3>4 DEF LiveIsLast, Announced
  <2>12. ReaderInStep'
    <3> SUFFICES ASSUME NEW t \in Threads PROVE ReaderOf(t)'
      BY DEF ReaderInStep
    <3>1. ReaderOf(t)
      BY DEF QueueInv, ReaderInStep
    <3>2. ASSUME pc[t] = "send"
          PROVE  /\ \A i \in 1..Len(devq') : ~devq'[i].live
                 /\ \A i \in 1..Len(inq') : ~inq'[i].live
      <4>1. \A i \in 1..Len(devq) : ~devq[i].live
        BY <3>1, <3>2 DEF ReaderOf
      <4>2. ~f.live
        BY <1>2, <2>1, <4>1
      <4>3. \A i \in 1..Len(inq') : ~inq'[i].live
        <5> TAKE i \in 1..Len(inq')
        <5>1. CASE i \in 1..Len(inq)
          BY <1>3, <2>4, <5>1
        <5>2. CASE i \notin 1..Len(inq)
          <6>1. inq'[i] = r[i - Len(inq)] /\ i - Len(inq) \in 1..Len(r)
            BY <2>5, <5>2
          <6> QED BY <2>3, <4>2, <6>1
        <5> QED BY <5>1, <5>2
      <4> QED BY <1>2, <4>1, <4>3
    <3> QED BY <1>1, <1>3, <3>1, <3>2 DEF ReaderOf
  <2> QED BY <2>9, <2>10, <2>11, <2>12 DEF QueueInv
<1> QED BY <1>4, <1>5 DEF DeviceAnswer

LEMMA QueueStep == ExchangeInv /\ QueueInv /\ [Next]_vars => QueueInv'
<1> SUFFICES ASSUME ExchangeInv, QueueInv, [Next]_vars PROVE QueueInv'
  OBVIOUS
<1>0. TypeOK /\ CallShape /\ LockMeaning /\ LiveIsHolders
  BY DEF ExchangeInv
<1>1. ASSUME NEW t \in Threads, \/ \E r \in Requests : BeginClosed(t, r) \/ Begin(t, r)
                                \/ Return(t) \/ SkipStale(t)
      PROVE  QueueInv'
  BY <1>0, <1>1, QueuesKept DEF BeginClosed, Begin, Return, SkipStale, TypeOK
<1>2. ASSUME Tick \/ UNCHANGED vars PROVE QueueInv'
  BY <1>2, QueuesKept DEF Tick, vars
<1>3. ASSUME NEW t \in Threads, SendOnNone(t) \/ SendError(t) \/ Timeout(t) \/ ReadError(t)
                                \/ Accept(t)
      PROVE  QueueInv'
  BY <1>3, QueuesLeft DEF SendOnNone, SendError, Timeout, ReadError, Accept, InExchange
<1>4. ASSUME NEW t \in Threads, Acquire(t) PROVE QueueInv'
  <2>1. /\ UNCHANGED <<devq, inq, got, missing>> /\ pc' = [pc EXCEPT ![t] = "send"] /\ lock = NoThread
    BY <1>4 DEF Acquire, LockFree
  <2>2. /\ \A i \in 1..Len(devq) : ~devq[i].live
        /\ \A i \in 1..Len(inq) : ~inq[i].live
    BY <1>0, <2>1, ExchangeAssumption DEF ExchangeAssumption, LiveIsHolders
  <2>3. WholeQueue' /\ LiveIsLast'
    BY <2>1, <2>2 DEF QueueInv, WholeQueue, LiveIsLast, Continued, Announced
  <2>4. RestIsNext' /\ ReaderInStep'
    BY <1>0, <2>1, <2>2 DEF QueueInv, RestIsNext, ReaderInStep, ReaderOf, Continued, TypeOK
  <2> QED BY <2>3, <2>4 DEF QueueInv
<1>5. ASSUME NEW t \in Threads, CollectDeadline(t) PROVE QueueInv'
  <2>1. /\ UNCHANGED <<devq, inq, got, missing>> /\ pc' = [pc EXCEPT ![t] = "judge"] /\ missing[t] >= 1
        /\ missing[t] \in Nat
    BY <1>0, <1>5 DEF CollectDeadline, CallShape, TypeOK
  <2>2. WholeQueue' /\ LiveIsLast'
    BY <2>1 DEF QueueInv, WholeQueue, LiveIsLast, Continued, Announced
  <2>3. RestIsNext' /\ ReaderInStep'
    BY <1>0, <2>1 DEF QueueInv, RestIsNext, ReaderInStep, ReaderOf, Continued, TypeOK
  <2> QED BY <2>2, <2>3 DEF QueueInv
<1>6. ASSUME NEW t \in Threads, SkipContinuation(t) \/ ReadFirst(t) \/ Collect(t) PROVE QueueInv'
  BY <1>6, QueueReaders
<1>7. ASSUME NEW t \in Threads, Send(t) PROVE QueueInv'
  BY <1>7, QueueSend
<1>8. ASSUME NEW t \in Threads, Close(t) PROVE QueueInv'
  <2>1. inq' = <<>> /\ devq' = devq /\ pc' = pc /\ lock = NoThread
    BY <1>8 DEF Close, LockFree
  <2>2. /\ \A i \in 1..Len(devq) : ~devq[i].live
        /\ \A u \in Threads : pc[u] \notin {"send", "collect", "judge"}
    BY <1>0, <2>1, ExchangeAssumption DEF ExchangeAssumption, LiveIsHolders, LockMeaning, InExchange
  <2> QED BY <2>1, <2>2 DEF QueueInv, WholeQueue, RestIsNext, LiveIsLast, ReaderInStep, ReaderOf
<1>9. ASSUME DeviceAnswer PROVE QueueInv'
  BY <1>9, QueueAnswer
<1> QED
  BY <1>1, <1>2, <1>3, <1>4, <1>5, <1>6, <1>7, <1>8, <1>9 DEF Next, Steps, Errors

LEMMA QueueHolds == Spec => [](ExchangeInv /\ QueueInv)
<1>1. Init => QueueInv
  BY DEF Init, QueueInv, WholeQueue, RestIsNext, LiveIsLast, ReaderInStep, ReaderOf
<1> QED BY <1>1, InvHolds, QueueStep, PTL DEF Spec

\* read_response never mixes two replies: the reports it will take are the
\* continuations of the reply it began, whatever earlier exchanges left.
THEOREM RepliesIntact == Spec => []ReassemblyIntact
<1>1. ExchangeInv /\ QueueInv => ReassemblyIntact
  <2> SUFFICES ASSUME ExchangeInv, QueueInv, NEW t \in Threads, pc[t] = "collect"
               PROVE  /\ missing[t] >= 1 /\ missing[t] <= Len(inq)
                      /\ \A i \in 1..missing[t] : /\ inq[i].cont
                                                  /\ inq[i].req = got[t].req
                                                  /\ inq[i].live = got[t].live
    BY DEF ReassemblyIntact
  <2>1. missing[t] >= 1 /\ missing[t] \in Nat /\ Continued(0, missing[t], got[t])
    BY DEF ExchangeInv, TypeOK, CallShape, QueueInv, RestIsNext
  <2> QED BY <2>1 DEF Continued
<1> QED BY <1>1, QueueHolds, PTL

\* _exchange heals itself: a complete answer to the caller's own request is
\* the last thing in the pipe.
THEOREM PipeIsEmptied == Spec => []OwnReplyEmptiesPipe
<1>1. ExchangeInv /\ QueueInv => OwnReplyEmptiesPipe
  BY EmptySeq, LenProperties DEF ExchangeInv, TypeOK, QueueInv, ReaderInStep, ReaderOf, OwnReplyEmptiesPipe
<1> QED BY <1>1, QueueHolds, PTL

-----------------------------------------------------------------------------
(* Refinement of SharedLink *)

\* The Device starts as an open link nobody uses.
LEMMA LinkInitRefined == Init => Link!LinkInit
  BY DEF Init, Link!LinkInit, OnWire

\* Every step of the Device is a step of SharedLink or invisible to it.
LEMMA LinkStepRefined ==
  ExchangeInv /\ ExchangeInv' /\ [Next]_vars => [Link!LinkNext]_(Link!linkVars)
<1> SUFFICES ASSUME ExchangeInv, ExchangeInv', [Next]_vars
             PROVE  [Link!LinkNext]_(Link!linkVars)
  OBVIOUS
<1> USE DEF Link!linkVars, OnWire
<1> DEFINE users == {t \in Threads : OnWire(t)}
<1>t. pc \in [Threads -> {"idle", "pace", "send", "await", "collect", "judge", "done"}]
  BY DEF ExchangeInv, TypeOK
<1>u. \A t \in users : lock = t
  BY DEF ExchangeInv, LockMeaning, InExchange
<1>1. ASSUME NEW t \in Threads, Send(t) PROVE Link!LinkNext
  <2>1. opened /\ lock = t /\ t \notin users
    BY <1>1 DEF Send, ExchangeInv, LockMeaning, InExchange
  <2>2. users = {}
    BY <2>1, <1>u
  <2>3. users' = {t} /\ opened' = opened
    BY <1>1, <2>2, <1>t DEF Send
  <2>4. Link!Enter(t)
    BY <2>1, <2>2, <2>3 DEF Link!Enter
  <2> QED BY <2>4 DEF Link!LinkNext
<1>2. ASSUME NEW t \in Threads, Accept(t) \/ Timeout(t) \/ ReadError(t) PROVE Link!LinkNext
  <2>1. t \in users
    BY <1>2 DEF Accept, Timeout, ReadError
  <2>2. users = {t}
    BY <2>1, <1>u
  <2>3. users' = {} /\ opened' = opened
    BY <1>2, <2>2, <1>t DEF Accept, Timeout, ReadError, Leave
  <2>4. Link!Exit(t)
    BY <2>2, <2>3 DEF Link!Exit
  <2> QED BY <2>4 DEF Link!LinkNext
<1>3. ASSUME NEW t \in Threads, Close(t) PROVE Link!LinkNext
  <2>1. users = {}
    BY <1>3, <1>u, ExchangeAssumption DEF Close, LockFree, ExchangeAssumption
  <2>2. users' = users /\ opened' = FALSE
    BY <1>3 DEF Close
  <2>3. Link!Shut
    BY <2>1, <2>2 DEF Link!Shut
  <2> QED BY <2>3 DEF Link!LinkNext
<1>4. ASSUME NEW t \in Threads, SendOnNone(t) \/ SendError(t)
      PROVE  UNCHANGED Link!linkVars
  BY <1>4, <1>t DEF SendOnNone, SendError, Leave
<1>5. ASSUME NEW t \in Threads, Acquire(t) \/ Return(t) PROVE UNCHANGED Link!linkVars
  BY <1>5, <1>t DEF Acquire, Return
<1>6. ASSUME NEW t \in Threads,
             \/ SkipContinuation(t) \/ ReadFirst(t) \/ Collect(t)
             \/ CollectDeadline(t) \/ SkipStale(t)
      PROVE  UNCHANGED Link!linkVars
  BY <1>6, <1>t DEF SkipContinuation, ReadFirst, Collect, CollectDeadline, SkipStale
<1>7. ASSUME NEW t \in Threads, NEW r \in Requests, BeginClosed(t, r) \/ Begin(t, r)
      PROVE  UNCHANGED Link!linkVars
  BY <1>7, <1>t DEF BeginClosed, Begin
<1>8. ASSUME DeviceAnswer \/ Tick \/ UNCHANGED vars PROVE UNCHANGED Link!linkVars
  BY <1>8 DEF DeviceAnswer, Tick, vars
<1> QED
  BY <1>1, <1>2, <1>3, <1>4, <1>5, <1>6, <1>7, <1>8 DEF Next, Steps, Errors

\* The Device implements SharedLink: one thread at a time on an open handle,
\* closed only when nobody is on the wire.
THEOREM Refinement == Spec => ImplementsSharedLink
  BY InvHolds, LinkInitRefined, LinkStepRefined, PTL DEF Spec, Link!LinkSpec, ImplementsSharedLink
=============================================================================
