-------------------------- MODULE WebSessionProofs --------------------------
(***************************************************************************)
(* Proofs about WebSession and the flasher it runs, for any number of      *)
(* callbacks and units and an image of any length.                         *)
(***************************************************************************)
EXTENDS WebSession, SequenceTheorems, TLAPS

-----------------------------------------------------------------------------
(* The blocks of an image *)

LEMMA BlocksNat == Blocks \in Nat
  BY FlasherAssumption, Z3 DEF FlasherAssumption, Blocks

\* The block that holds a byte is one of the image's.
LEMMA ByteInBlock ==
  ASSUME NEW b \in 0..(ImageBytes - 1)
  PROVE  b \div BlockSize \in Nat /\ b \div BlockSize < Blocks
<1> USE FlasherAssumption, BlocksNat DEF FlasherAssumption
<1> DEFINE q == b \div BlockSize
<1>1. q \in Nat /\ BlockSize * q <= b
  BY Z3
<1>2. ImageBytes + BlockSize - 1 < BlockSize * Blocks + BlockSize
  BY Z3 DEF Blocks
<1> HIDE DEF q
<1>3. ~(Blocks <= q)
  <2> SUFFICES ASSUME Blocks <= q PROVE FALSE
    OBVIOUS
  <2>1. BlockSize * Blocks <= BlockSize * q
    BY <1>1
  <2> QED BY <1>1, <1>2, <2>1
<1> QED
  BY <1>1, <1>3 DEF q

\* Appending the number of the next block.
LEMMA TakenGrows ==
  /\ Append(<<>>, 0) = Taken(0)
  /\ \A n \in Nat : Taken(n) \in Seq(Nat) /\ Append(Taken(n), n + 1) = Taken(n + 1)
<1>1. Append(<<>>, 0) = Taken(0)
  BY DEF Taken
<1>2. ASSUME NEW n \in Nat
      PROVE  Taken(n) \in Seq(Nat) /\ Append(Taken(n), n + 1) = Taken(n + 1)
  <2>1. Taken(n) \in Seq(Nat) /\ Len(Taken(n)) = n + 1
    BY DEF Taken
  <2>2. /\ Append(Taken(n), n + 1) \in Seq(Nat)
        /\ Len(Append(Taken(n), n + 1)) = n + 2
        /\ \A k \in 1..(n + 2) : Append(Taken(n), n + 1)[k] = k - 1
    BY <2>1, AppendProperties DEF Taken
  <2>3. /\ Taken(n + 1) \in Seq(Nat) /\ Len(Taken(n + 1)) = n + 2
        /\ \A k \in 1..(n + 2) : Taken(n + 1)[k] = k - 1
    BY DEF Taken
  <2>4. Append(Taken(n), n + 1) = Taken(n + 1)
    BY <2>2, <2>3, SeqEqual
  <2> QED BY <2>1, <2>4
<1> QED BY <1>1, <1>2

-----------------------------------------------------------------------------
(* flash_firmware *)

\* A step of flash_firmware keeps the flasher's part of the invariant.
LEMMA UploadKeeps ==
  ASSUME FlasherTypeOK, HandleInUse, UploadInOrder, FlashStep
  PROVE  FlasherTypeOK' /\ HandleInUse' /\ UploadInOrder' /\ fpc # "idle" /\ fpc' # "idle"
<1> USE BlocksNat, FlasherAssumption DEF FlasherAssumption, HandleInUse
<1>a. /\ hid \in [unit : Units \cup {NoUnit}, stale : BOOLEAN]
      /\ Closed \in [unit : Units \cup {NoUnit}, stale : BOOLEAN]
      /\ target \in Units => Opened(target) \in [unit : Units \cup {NoUnit}, stale : BOOLEAN]
  BY DEF FlasherTypeOK, Closed, Opened
<1>0. /\ fpc # "idle" /\ target \in Units /\ UNCHANGED target
      /\ tries \in Nat /\ sent \in Nat /\ received \in Seq(Nat)
  BY DEF FlashStep, FlashOpen, FlashEnter, FlashPrep, FlashUnheard, FlashReopen, FlashRetry,
         FlashMeta, FlashBlock, FlashApply, FlasherTypeOK
<1>1. CASE FlashOpen
  <2>1. /\ fpc = "open" /\ UNCHANGED <<mode, target, tries, sent, received>>
        /\ \/ fpc' = "enter" /\ hid' = Opened(target)
           \/ fpc' = "raised" /\ hid' = Closed
    BY <1>1 DEF FlashOpen, Raise
  <2>2. FlasherTypeOK'
    <3>1. hid' \in [unit : Units \cup {NoUnit}, stale : BOOLEAN]
      BY <1>0, <1>a, <2>1
    <3> QED BY <1>0, <2>1, <3>1 DEF FlasherTypeOK
  <2> QED BY <1>0, <2>1, <2>2 DEF UploadInOrder, Opened, Taken
<1>2. CASE FlashEnter
  <2>1. /\ fpc = "enter" /\ UNCHANGED <<target, tries, sent, received>>
        /\ \/ fpc' = "prep" /\ hid' = hid
           \/ fpc' = "raised" /\ hid' = Closed
        /\ mode' = mode \/ mode' = [mode EXCEPT ![target] = "armed"]
    BY <1>2 DEF FlashEnter, Raise
  <2>2. FlasherTypeOK'
    <3>1. hid' \in [unit : Units \cup {NoUnit}, stale : BOOLEAN]
      BY <1>0, <1>a, <2>1
    <3>2. mode' \in [Units -> {"gone", "normal", "armed", "leaving", "away", "boot"}]
      BY <1>0, <2>1 DEF FlasherTypeOK
    <3> QED BY <1>0, <2>1, <3>1, <3>2 DEF FlasherTypeOK
  <2> QED BY <1>0, <2>1, <2>2 DEF UploadInOrder, Taken
<1>3. CASE FlashPrep
  BY <1>0, <1>3 DEF FlashPrep, Closed, FlasherTypeOK, UploadInOrder
<1>4. CASE FlashUnheard
  BY <1>0, <1>4 DEF FlashUnheard, Raise, Closed, FlasherTypeOK, UploadInOrder
<1>5. CASE FlashReopen
  BY <1>0, <1>5 DEF FlashReopen, Opened, FlasherTypeOK, UploadInOrder
<1>6. CASE FlashRetry
  BY <1>0, <1>6 DEF FlashRetry, FlasherTypeOK, UploadInOrder
<1>7. CASE FlashMeta
  <2>1. received' = Taken(0) /\ received' \in Seq(Nat) /\ sent' = 0
    BY <1>7, TakenGrows DEF FlashMeta, UploadInOrder
  <2>2. fpc' \in {"blocks", "raised"} /\ hid' = (IF fpc' = "blocks" THEN hid ELSE Closed)
        /\ UNCHANGED <<mode, tries>> /\ fpc = "meta"
    BY <1>7 DEF FlashMeta, Raise
  <2>3. FlasherTypeOK'
    BY <1>0, <2>1, <2>2 DEF FlasherTypeOK, Closed
  <2>4. HandleInUse' /\ UploadInOrder'
    BY <1>0, <2>1, <2>2 DEF Closed, UploadInOrder
  <2> QED BY <1>0, <2>2, <2>3, <2>4
<1>8. CASE FlashBlock
  <2>1. /\ fpc = "blocks" /\ sent < Blocks /\ UNCHANGED <<mode, tries>>
        /\ received' = Append(received, sent + 1)
        /\ \/ sent' = sent + 1 /\ fpc' = "blocks" /\ hid' = hid
           \/ fpc' = "raised" /\ hid' = Closed /\ sent' = sent
    BY <1>8 DEF FlashBlock, Raise
  <2>2. received = Taken(sent)
    BY <2>1 DEF UploadInOrder
  <2>3. received' = Taken(sent + 1) /\ received' \in Seq(Nat)
    <3>1. sent \in Nat /\ sent + 1 \in Nat
      BY <1>0
    <3>2. received' = Append(Taken(sent), sent + 1)
      BY <2>1, <2>2
    <3> HIDE DEF HandleInUse, FlasherAssumption
    <3> QED BY <3>1, <3>2, TakenGrows
  <2>4. FlasherTypeOK'
    <3>1. hid' \in [unit : Units \cup {NoUnit}, stale : BOOLEAN]
      BY <1>a, <2>1
    <3>2. sent' \in Nat /\ fpc' \in {"blocks", "raised"}
      BY <1>0, <2>1
    <3> QED BY <2>1, <2>3, <3>1, <3>2, <1>0 DEF FlasherTypeOK
  <2>5. HandleInUse' /\ UploadInOrder'
    BY <1>0, <2>1, <2>3 DEF Closed, UploadInOrder
  <2> QED BY <1>0, <2>1, <2>4, <2>5
<1>9. CASE FlashApply
  <2>1. /\ fpc = "blocks" /\ sent = Blocks /\ UNCHANGED <<target, tries, sent, received>>
        /\ fpc' \in {"returned", "raised"} /\ hid' = Closed
        /\ mode' = mode \/ mode' = [mode EXCEPT ![target] = "gone"]
    BY <1>9 DEF FlashApply, Raise
  <2>2. FlasherTypeOK'
    <3>1. hid' \in [unit : Units \cup {NoUnit}, stale : BOOLEAN]
      BY <1>0, <1>a, <2>1
    <3>2. mode' \in [Units -> {"gone", "normal", "armed", "leaving", "away", "boot"}]
      BY <1>0, <2>1 DEF FlasherTypeOK
    <3> QED BY <1>0, <2>1, <3>1, <3>2 DEF FlasherTypeOK
  <2> QED BY <1>0, <2>1, <2>2 DEF UploadInOrder, Taken
<1> QED
  BY <1>1, <1>2, <1>3, <1>4, <1>5, <1>6, <1>7, <1>8, <1>9 DEF FlashStep

\* What the units do by themselves changes their modes and makes handles stale.
LEMMA UnitKeeps ==
  ASSUME FlasherTypeOK, HandleInUse, UploadInOrder, NEW u \in Units, UnitStep(u)
  PROVE  FlasherTypeOK' /\ HandleInUse' /\ UploadInOrder'
<1> USE FlasherAssumption DEF FlasherAssumption
<1>1. /\ \E m \in {"gone", "away", "boot", "normal"} : mode' = [mode EXCEPT ![u] = m]
      /\ hid' = hid \/ (hid.unit = u /\ hid' = [hid EXCEPT !.stale = TRUE])
      /\ UNCHANGED <<fpc, target, tries, sent, received>>
  BY DEF UnitStep, Unplug, Reenumerate, Return, Leaves
<1>2. FlasherTypeOK'
  <2>1. mode' \in [Units -> {"gone", "normal", "armed", "leaving", "away", "boot"}]
    BY <1>1 DEF FlasherTypeOK
  <2>2. hid' \in [unit : Units \cup {NoUnit}, stale : BOOLEAN]
    <3>1. hid \in [unit : Units \cup {NoUnit}, stale : BOOLEAN]
      BY DEF FlasherTypeOK
    <3> QED BY <1>1, <3>1
  <2>3. /\ fpc' \in {"idle", "open", "enter", "prep", "reopen", "meta", "blocks", "raised", "returned"}
        /\ target' \in Units \cup {NoUnit} /\ tries' \in 0..ReopenTries
        /\ sent' \in Nat /\ received' \in Seq(Nat)
    BY <1>1 DEF FlasherTypeOK
  <2> QED BY <2>1, <2>2, <2>3 DEF FlasherTypeOK
<1>3. HandleInUse'
  BY <1>1 DEF HandleInUse, FlasherTypeOK, Closed
<1> QED
  BY <1>1, <1>2, <1>3 DEF UploadInOrder, Taken

-----------------------------------------------------------------------------
(* The session *)

\* What a selector resolves to is on the bus, under a name it may have meant.
LEMMA CandidatesMean ==
  ASSUME NEW sel, NEW u \in Candidates(sel)
  PROVE  u \in Units /\ Present(u) /\ Means(sel, u)
<1> DEFINE S == {v \in Units : Present(v)}
           bus == BusOf(S)
<1>1. /\ u \in D!Resolved(bus, sel)
      /\ \A v \in Units : bus[v] = IF v \in S THEN v ELSE NoUnit
  BY DEF Candidates, BusOf
<1>2. \A v \in D!Plugged(bus) : v \in S /\ bus[v] = v
  BY <1>1, FlasherAssumption DEF FlasherAssumption, D!Plugged
<1> HIDE DEF bus
<1>3. u \in D!Plugged(bus)
  BY <1>1 DEF D!Resolved, D!At, D!First
<1>4. u \in S /\ bus[u] = u /\ u \in Units /\ Present(u)
  BY <1>2, <1>3
<1>5. \/ sel = D!NoSelector \/ sel \in DOMAIN Digits
      \/ D!FriendlyName(bus, u) = sel \/ D!DisplayId(bus, u) = sel
      \/ D!Name("serial", Serial[bus[u]], 0) = sel \/ D!Name("path", NoSerial, u) = sel
  BY <1>1, <1>3 DEF D!Resolved, D!First
<1>6. sel \in {D!FriendlyName(bus, u), D!DisplayId(bus, u)} => sel \in Names(u)
  <2>1. S \in {R \in SUBSET Units : u \in R}
    BY <1>4
  <2> QED BY <2>1 DEF Names, bus
<1>7. sel = D!Name("serial", Serial[u], 0) \/ sel = D!Name("path", NoSerial, u) => sel \in Names(u)
  BY DEF Names
<1> HIDE DEF S
<1> QED BY <1>4, <1>5, <1>6, <1>7 DEF Means

LEMMA InitSession == Init => SessionInv
<1> SUFFICES ASSUME Init PROVE SessionInv
  OBVIOUS
<1> USE FlasherAssumption, SessionAssumption
        DEF FlasherAssumption, SessionAssumption, Init, FlasherInit, Closed, NoDevice
<1>1. TypeOK
  <2>1. FlasherTypeOK
    BY DEF FlasherTypeOK
  <2>2. selector \in Labels
    BY DEF Labels
  <2> QED BY <2>1, <2>2 DEF TypeOK
<1>2. HandleInUse /\ UploadInOrder
  BY DEF HandleInUse, UploadInOrder
<1>3. LockHeld /\ FlagMeaning
  BY DEF LockHeld, FlagMeaning
<1>4. DevMeaning /\ RetryMeaning
  BY DEF DevMeaning, RetryMeaning
<1> QED BY <1>1, <1>2, <1>3, <1>4 DEF SessionInv

\* The flasher runs only inside flash_lock, which is nobody's calm.
LEMMA UploadSession == SessionInv /\ Upload => SessionInv'
<1> SUFFICES ASSUME SessionInv, Upload PROVE SessionInv'
  OBVIOUS
<1>1. FlasherTypeOK' /\ HandleInUse' /\ UploadInOrder' /\ fpc # "idle" /\ fpc' # "idle"
  BY UploadKeeps DEF SessionInv, TypeOK, Upload
<1>2. UNCHANGED <<dev, selector, flashing, lock, pc, attempt, wish, calm>>
  BY DEF Upload, session, frames
<1>3. TypeOK' /\ LockHeld' /\ FlagMeaning'
  BY <1>1, <1>2 DEF SessionInv, TypeOK, LockHeld, FlagMeaning, NoDevice
<1>4. flashing /\ dev = NoDevice
  BY <1>1 DEF SessionInv, FlagMeaning
<1>5. DevMeaning'
  BY <1>2, <1>4 DEF SessionInv, DevMeaning, NoDevice, Free
<1>6. RetryMeaning'
  BY <1>2, <1>4 DEF SessionInv, RetryMeaning
<1> QED BY <1>1, <1>3, <1>5, <1>6 DEF SessionInv

\* A unit that comes or goes makes the session's handle stale.
LEMMA UnitSession == ASSUME SessionInv, NEW u \in Units, UnitStep(u) PROVE SessionInv'
<1> USE SessionAssumption, FlasherAssumption DEF SessionAssumption, FlasherAssumption
<1>1. FlasherTypeOK' /\ HandleInUse' /\ UploadInOrder'
  BY UnitKeeps DEF SessionInv, TypeOK
<1>2. /\ UNCHANGED <<fpc, selector, flashing, lock, pc, attempt, wish>>
      /\ \A t \in Callers : ~calm'[t]
      /\ calm' \in [Callers -> BOOLEAN]
  BY DEF UnitStep, NobodyCalm
<1>3. dev \in [unit : Units \cup {NoUnit}, stale : BOOLEAN, connected : BOOLEAN]
  BY DEF SessionInv, TypeOK
<1>4. \/ dev' = dev
      \/ dev.unit = u /\ dev' = [dev EXCEPT !.stale = TRUE]
  BY DEF UnitStep, Stale
<1>5. \A v \in Units : Present(v) /\ ~Present(v)' => v = u /\ (dev.unit = u => dev'.stale)
  <2>1. \E m \in {"gone", "away", "boot", "normal"} : mode' = [mode EXCEPT ![u] = m]
    BY DEF UnitStep, Unplug, Reenumerate, Return, Leaves
  <2>2. mode \in [Units -> {"gone", "normal", "armed", "leaving", "away", "boot"}]
    BY DEF SessionInv, TypeOK, FlasherTypeOK
  <2>3. CASE Return(u)
    BY <2>2, <2>3 DEF Return, Present
  <2>4. CASE Stale(u)
    BY <1>3, <2>1, <2>2, <2>4 DEF Stale, Present
  <2> QED BY <2>3, <2>4 DEF UnitStep
<1>6. /\ dev' \in [unit : Units \cup {NoUnit}, stale : BOOLEAN, connected : BOOLEAN]
      /\ dev'.unit = dev.unit /\ dev'.connected = dev.connected
      /\ dev' = NoDevice <=> dev = NoDevice
      /\ dev.stale => dev'.stale
  <2>1. CASE dev' = dev
    BY <1>3, <2>1
  <2>2. CASE dev.unit = u /\ dev' = [dev EXCEPT !.stale = TRUE]
    <3>1. dev'.unit = u /\ dev'.stale /\ dev'.connected = dev.connected
      BY <1>3, <2>2
    <3>2. dev # NoDevice /\ dev' # NoDevice
      BY <2>2, <3>1 DEF NoDevice
    <3> QED BY <1>3, <2>2, <3>1, <3>2
  <2> QED BY <1>4, <2>1, <2>2
<1>7. TypeOK'
  BY <1>1, <1>2, <1>6 DEF SessionInv, TypeOK
<1>8. LockHeld' /\ FlagMeaning'
  BY <1>2, <1>6 DEF SessionInv, LockHeld, FlagMeaning
<1>9. DevMeaning'
  <2>1. \A v \in Units : mode'[v] # mode[v] => v = u /\ (~Present(u) \/ (dev.unit = u => dev'.stale))
    <3>1. \E m \in {"gone", "away", "boot", "normal"} : mode' = [mode EXCEPT ![u] = m]
      BY DEF UnitStep, Unplug, Reenumerate, Return, Leaves
    <3>2. mode \in [Units -> {"gone", "normal", "armed", "leaving", "away", "boot"}]
      BY DEF SessionInv, TypeOK, FlasherTypeOK
    <3>3. Return(u) => ~Present(u)
      BY DEF Return, Present
    <3>4. Stale(u) => (dev.unit = u => dev'.stale)
      BY <1>3 DEF Stale
    <3> QED BY <3>1, <3>2, <3>3, <3>4 DEF UnitStep
  <2>2. dev' # NoDevice =>
          /\ dev'.unit \in Units
          /\ Means(selector', dev'.unit)
          /\ dev'.stale \/ Present(dev.unit)'
          /\ Free' => dev'.connected
    BY <1>2, <1>3, <1>5, <1>6 DEF SessionInv, DevMeaning, Free
  <2>3. dev' # NoDevice /\ dev'.connected => dev'.stale \/ mode'[dev'.unit] = "normal"
    BY <1>6, <2>1 DEF SessionInv, DevMeaning
  <2>4. \A t \in Callers :
          /\ pc'[t] = "open" => dev' = NoDevice
          /\ pc'[t] \in {"connect", "fn"} => dev' # NoDevice
          /\ pc'[t] = "fn" => dev'.connected
    BY <1>2, <1>6 DEF SessionInv, DevMeaning
  <2> HIDE DEF NoDevice
  <2> QED BY <2>2, <2>3, <2>4 DEF DevMeaning, NoDevice
<1>10. RetryMeaning'
  BY <1>2 DEF RetryMeaning
<1> QED BY <1>1, <1>7, <1>8, <1>9, <1>10 DEF SessionInv

-----------------------------------------------------------------------------
(* The callbacks *)

\* A callback leaves flash_firmware alone.
LEMMA Quiet ==
  ASSUME SessionInv, UNCHANGED <<mode, flasher>>
  PROVE  /\ FlasherTypeOK' /\ HandleInUse' /\ UploadInOrder'
         /\ UNCHANGED <<fpc, target, Blocks>>
         /\ \A sel : Candidates(sel)' = Candidates(sel)
         /\ \A sel : Well(sel)' <=> Well(sel)
         /\ \A u : Present(u)' <=> Present(u)
<1>1. FlasherTypeOK' /\ HandleInUse' /\ UploadInOrder'
  BY DEF flasher, SessionInv, TypeOK, FlasherTypeOK, HandleInUse, UploadInOrder, Taken
<1>2. \A u : Present(u)' <=> Present(u)
  BY DEF Present
<1>3. \A sel : Candidates(sel)' = Candidates(sel)
  BY <1>2 DEF Candidates
<1>4. \A sel : Well(sel)' <=> Well(sel)
  BY <1>3 DEF Well
<1> QED BY <1>1, <1>2, <1>3, <1>4 DEF flasher

\* A callback begins.
LEMMA CallSession == ASSUME SessionInv, NEW t \in Callers, Call(t) PROVE SessionInv'
<1> USE SessionAssumption, FlasherAssumption DEF SessionAssumption, FlasherAssumption
<1>1. UNCHANGED <<mode, flasher>>
  BY DEF Call
<1>2. TypeOK'
  BY <1>1, Quiet DEF Call, Begin, Goto, session, SessionInv, TypeOK, NoDevice
<1>3. LockHeld' /\ FlagMeaning'
  BY <1>1, Quiet DEF Call, Begin, Goto, session, SessionInv, TypeOK, LockHeld, FlagMeaning, NoDevice
<1>4. DevMeaning'
  BY <1>1, Quiet DEF Call, Begin, Goto, session, SessionInv, TypeOK, LockHeld, FlagMeaning, DevMeaning, NoDevice, Free
<1>5. RetryMeaning'
  BY <1>1, Quiet DEF Call, Begin, Goto, session, SessionInv, TypeOK, LockHeld, FlagMeaning, DevMeaning, RetryMeaning, NoDevice, Free
<1> QED BY <1>1, <1>2, <1>3, <1>4, <1>5, Quiet DEF SessionInv

\* It takes the lock.
LEMMA AttemptSession == ASSUME SessionInv, NEW t \in Callers, Attempt(t) PROVE SessionInv'
<1> USE SessionAssumption, FlasherAssumption DEF SessionAssumption, FlasherAssumption
<1>1. UNCHANGED <<mode, flasher>>
  BY DEF Attempt
<1>2. TypeOK'
  BY <1>1, Quiet DEF Attempt, Goto, Free, SessionInv, TypeOK, NoDevice
<1>3. LockHeld' /\ FlagMeaning'
  BY <1>1, Quiet DEF Attempt, Goto, Free, SessionInv, TypeOK, LockHeld, FlagMeaning, NoDevice
<1>4. DevMeaning'
  BY <1>1, Quiet DEF Attempt, Goto, Free, SessionInv, TypeOK, LockHeld, FlagMeaning, DevMeaning, NoDevice, Free
<1>5. RetryMeaning'
  BY <1>1, Quiet DEF Attempt, Goto, Free, SessionInv, TypeOK, LockHeld, FlagMeaning, DevMeaning, RetryMeaning, NoDevice, Free
<1> QED BY <1>1, <1>2, <1>3, <1>4, <1>5, Quiet DEF SessionInv

\* It opens the unit.
LEMMA OpenSession == ASSUME SessionInv, NEW t \in Callers, Open(t) PROVE SessionInv'
<1> USE SessionAssumption, FlasherAssumption DEF SessionAssumption, FlasherAssumption
<1>1. PICK u \in Candidates(selector) :
        dev' = [unit |-> u, stale |-> FALSE, connected |-> FALSE]
  BY DEF Open
<1>2. u \in Units /\ Present(u) /\ Means(selector, u)
  BY CandidatesMean
<1>3. /\ pc' = [pc EXCEPT ![t] = "connect"] /\ pc[t] = "open"
      /\ UNCHANGED <<mode, flasher, selector, flashing, lock, attempt, wish, calm>>
  BY DEF Open, Goto
<1>4. /\ dev' \in [unit : Units \cup {NoUnit}, stale : BOOLEAN, connected : BOOLEAN]
      /\ dev' # NoDevice /\ dev'.unit = u /\ ~dev'.stale /\ ~dev'.connected
  BY <1>1, <1>2 DEF NoDevice
<1>5. TypeOK'
  BY <1>3, <1>4, Quiet DEF SessionInv, TypeOK
<1>6. pc = [c \in Callers |-> pc[c]] /\ lock = t /\ ~flashing /\ ~Free
  BY <1>3 DEF SessionInv, TypeOK, LockHeld, FlagMeaning, Free
<1>7. \A c \in Callers : c # t => pc[c] \notin {"open", "connect", "fn", "flash"}
  BY <1>6 DEF SessionInv, LockHeld
<1>8. LockHeld' /\ FlagMeaning'
  BY <1>3, <1>6, Quiet DEF SessionInv, LockHeld, FlagMeaning
<1>9. DevMeaning'
  <2>1. Present(dev.unit)' /\ ~Free'
    BY <1>2, <1>3, <1>4, <1>6, Quiet DEF Free
  <2> QED BY <1>2, <1>3, <1>4, <1>6, <1>7, <2>1 DEF DevMeaning
<1>10. RetryMeaning'
  <2>1. (dev.unit \in Candidates(selector))' /\ (Well(selector)' <=> Well(selector))
    BY <1>3, <1>4, Quiet
  <2> QED BY <1>3, <1>4, <1>6, <1>7, <2>1 DEF SessionInv, RetryMeaning
<1> QED BY <1>3, <1>5, <1>8, <1>9, <1>10, Quiet DEF SessionInv

\* Not while the unit is well.
LEMMA OpenFailsSession == ASSUME SessionInv, NEW t \in Callers, OpenFails(t) PROVE SessionInv'
<1> USE SessionAssumption, FlasherAssumption DEF SessionAssumption, FlasherAssumption
<1>1. UNCHANGED <<mode, flasher>>
  BY DEF OpenFails
<1>2. TypeOK'
  BY <1>1, Quiet DEF OpenFails, Failed, NotCalm, Goto, SessionInv, TypeOK, NoDevice
<1>3. LockHeld' /\ FlagMeaning'
  BY <1>1, Quiet DEF OpenFails, Failed, NotCalm, Goto, SessionInv, TypeOK, LockHeld, FlagMeaning, NoDevice
<1>4. DevMeaning'
  BY <1>1, Quiet DEF OpenFails, Failed, NotCalm, Goto, SessionInv, TypeOK, LockHeld, FlagMeaning, DevMeaning, NoDevice, Free
<1>5. RetryMeaning'
  <2>1. /\ dev' = NoDevice /\ ~dev'.stale
        /\ pc' = [pc EXCEPT ![t] = "nap"]
        /\ pc[t] = "open"
        /\ UNCHANGED <<selector, flashing, attempt>>
    BY DEF OpenFails, Failed, Goto, NoDevice
  <2>2. calm \in [Callers -> BOOLEAN] /\ pc = [c \in Callers |-> pc[c]] /\ attempt[t] \in {1, 2}
    BY DEF SessionInv, TypeOK
  <2>3. ~calm'[t] /\ \A c \in Callers : calm'[c] => calm[c]
    BY <2>2 DEF OpenFails, NotCalm, SessionInv, RetryMeaning, Well
  <2>4. Well(selector)' <=> Well(selector)
    BY <1>1, <2>1, Quiet
  <2>5. \A c \in Callers : pc'[c] # "connect"
    BY <2>1, <2>2 DEF SessionInv, LockHeld
  <2> QED BY <2>1, <2>2, <2>3, <2>4, <2>5 DEF SessionInv, RetryMeaning
<1> QED BY <1>1, <1>2, <1>3, <1>4, <1>5, Quiet DEF SessionInv

\* It connects.
LEMMA ConnectSession == ASSUME SessionInv, NEW t \in Callers, Connect(t) PROVE SessionInv'
<1> USE SessionAssumption, FlasherAssumption DEF SessionAssumption, FlasherAssumption
<1>1. UNCHANGED <<mode, flasher>>
  BY DEF Connect
<1>2. TypeOK'
  BY <1>1, Quiet DEF Connect, Answers, Goto, SessionInv, TypeOK, NoDevice
<1>3. LockHeld' /\ FlagMeaning'
  BY <1>1, Quiet DEF Connect, Answers, Goto, SessionInv, TypeOK, LockHeld, FlagMeaning, NoDevice
<1>4. DevMeaning'
  BY <1>1, Quiet DEF Connect, Answers, Goto, SessionInv, TypeOK, LockHeld, FlagMeaning, DevMeaning, NoDevice, Free
<1>5. RetryMeaning'
  BY <1>1, Quiet DEF Connect, Answers, Goto, SessionInv, TypeOK, LockHeld, FlagMeaning, DevMeaning, RetryMeaning, NoDevice, Free
<1> QED BY <1>1, <1>2, <1>3, <1>4, <1>5, Quiet DEF SessionInv

\* A well unit fails an exchange only on a stale handle, which is dropped.
LEMMA ExchangeFailsSession == ASSUME SessionInv, NEW t \in Callers, ExchangeFails(t) PROVE SessionInv'
<1> USE SessionAssumption, FlasherAssumption DEF SessionAssumption, FlasherAssumption
<1>1. UNCHANGED <<mode, flasher>>
  BY DEF ExchangeFails
<1>2. TypeOK'
  BY <1>1, Quiet DEF ExchangeFails, Failed, NotCalm, Goto, SessionInv, TypeOK, NoDevice
<1>3. LockHeld' /\ FlagMeaning'
  BY <1>1, Quiet DEF ExchangeFails, Failed, NotCalm, Goto, SessionInv, TypeOK, LockHeld, FlagMeaning, NoDevice
<1>4. DevMeaning'
  BY <1>1, Quiet DEF ExchangeFails, Failed, NotCalm, Goto, SessionInv, TypeOK, LockHeld, FlagMeaning, DevMeaning, NoDevice, Free
<1>5. RetryMeaning'
  <2>1. /\ dev' = NoDevice /\ ~dev'.stale
        /\ pc' = [pc EXCEPT ![t] = "nap"]
        /\ pc[t] \in {"connect", "fn"}
        /\ UNCHANGED <<selector, flashing, attempt>>
    BY DEF ExchangeFails, Failed, Goto, NoDevice
  <2>2. calm \in [Callers -> BOOLEAN] /\ pc = [c \in Callers |-> pc[c]] /\ attempt[t] \in {1, 2}
    BY DEF SessionInv, TypeOK
  <2>3. calm'[t] => attempt[t] = 1
    <3> SUFFICES ASSUME calm'[t], attempt[t] = 2 PROVE FALSE
      BY <2>2
    <3>1. ~Answers /\ calm[t]
      BY <2>2 DEF ExchangeFails, NotCalm
    <3>2. ~dev.stale /\ Well(selector)
      BY <2>1, <3>1 DEF SessionInv, RetryMeaning
    <3>3. pc[t] = "connect" => mode[dev.unit] = "normal"
      BY <3>1, <3>2 DEF SessionInv, RetryMeaning, Well
    <3>4. pc[t] = "fn" => mode[dev.unit] = "normal"
      BY <3>2 DEF SessionInv, DevMeaning
    <3> QED BY <2>1, <3>1, <3>2, <3>3, <3>4 DEF Answers
  <2>4. \A c \in Callers : calm'[c] => calm[c]
    BY <2>2 DEF ExchangeFails, NotCalm
  <2>5. Well(selector)' <=> Well(selector)
    BY <1>1, <2>1, Quiet
  <2>6. \A c \in Callers : pc'[c] # "connect"
    BY <2>1, <2>2 DEF SessionInv, LockHeld
  <2> QED BY <2>1, <2>2, <2>3, <2>4, <2>5, <2>6 DEF SessionInv, RetryMeaning
<1> QED BY <1>1, <1>2, <1>3, <1>4, <1>5, Quiet DEF SessionInv

\* The Device is left connected.
LEMMA FinishSession == ASSUME SessionInv, NEW t \in Callers, Finish(t) PROVE SessionInv'
<1> USE SessionAssumption, FlasherAssumption DEF SessionAssumption, FlasherAssumption
<1>1. UNCHANGED <<mode, flasher>>
  BY DEF Finish
<1>2. TypeOK'
  BY <1>1, Quiet DEF Finish, Goto, SessionInv, TypeOK, NoDevice
<1>3. LockHeld' /\ FlagMeaning'
  BY <1>1, Quiet DEF Finish, Goto, SessionInv, TypeOK, LockHeld, FlagMeaning, NoDevice
<1>4. DevMeaning'
  BY <1>1, Quiet DEF Finish, Goto, SessionInv, TypeOK, LockHeld, FlagMeaning, DevMeaning, NoDevice, Free
<1>5. RetryMeaning'
  BY <1>1, Quiet DEF Finish, Goto, SessionInv, TypeOK, LockHeld, FlagMeaning, DevMeaning, RetryMeaning, NoDevice, Free
<1> QED BY <1>1, <1>2, <1>3, <1>4, <1>5, Quiet DEF SessionInv

\* The second attempt.
LEMMA NapSession == ASSUME SessionInv, NEW t \in Callers, Nap(t) PROVE SessionInv'
<1> USE SessionAssumption, FlasherAssumption DEF SessionAssumption, FlasherAssumption
<1>1. UNCHANGED <<mode, flasher>>
  BY DEF Nap
<1>2. TypeOK'
  BY <1>1, Quiet DEF Nap, Goto, session, SessionInv, TypeOK, NoDevice
<1>3. LockHeld' /\ FlagMeaning'
  BY <1>1, Quiet DEF Nap, Goto, session, SessionInv, TypeOK, LockHeld, FlagMeaning, NoDevice
<1>4. DevMeaning'
  BY <1>1, Quiet DEF Nap, Goto, session, SessionInv, TypeOK, LockHeld, FlagMeaning, DevMeaning, NoDevice, Free
<1>5. RetryMeaning'
  BY <1>1, Quiet DEF Nap, Goto, session, SessionInv, TypeOK, LockHeld, FlagMeaning, DevMeaning, RetryMeaning, NoDevice, Free
<1> QED BY <1>1, <1>2, <1>3, <1>4, <1>5, Quiet DEF SessionInv

\* The error is shown.
LEMMA ReportSession == ASSUME SessionInv, NEW t \in Callers, Report(t) PROVE SessionInv'
<1> USE SessionAssumption, FlasherAssumption DEF SessionAssumption, FlasherAssumption
<1>1. UNCHANGED <<mode, flasher>>
  BY DEF Report
<1>2. TypeOK'
  BY <1>1, Quiet DEF Report, Goto, session, SessionInv, TypeOK, NoDevice
<1>3. LockHeld' /\ FlagMeaning'
  BY <1>1, Quiet DEF Report, Goto, session, SessionInv, TypeOK, LockHeld, FlagMeaning, NoDevice
<1>4. DevMeaning'
  BY <1>1, Quiet DEF Report, Goto, session, SessionInv, TypeOK, LockHeld, FlagMeaning, DevMeaning, NoDevice, Free
<1>5. RetryMeaning'
  BY <1>1, Quiet DEF Report, Goto, session, SessionInv, TypeOK, LockHeld, FlagMeaning, DevMeaning, RetryMeaning, NoDevice, Free
<1> QED BY <1>1, <1>2, <1>3, <1>4, <1>5, Quiet DEF SessionInv

\* do_flash reads the current path.
LEMMA FlashSession == ASSUME SessionInv, NEW t \in Callers, Flash(t) PROVE SessionInv'
<1> USE SessionAssumption, FlasherAssumption DEF SessionAssumption, FlasherAssumption
<1>1. UNCHANGED <<mode, flasher>>
  BY DEF Flash
<1>2. TypeOK'
  BY <1>1, Quiet DEF Flash, Goto, Free, session, SessionInv, TypeOK, NoDevice
<1>3. LockHeld' /\ FlagMeaning'
  <2>1. /\ pc' = [pc EXCEPT ![t] = IF dev = NoDevice THEN "resolve" ELSE "wait"]
        /\ wish' = [wish EXCEPT ![t] = dev.unit]
        /\ pc[t] = "idle"
        /\ UNCHANGED <<dev, flashing, lock>>
    BY DEF Flash, Goto, session
  <2>2. dev # NoDevice => dev.unit \in Units
    BY DEF SessionInv, DevMeaning
  <2>3. wish \in [Callers -> Units \cup {NoUnit}] /\ pc = [c \in Callers |-> pc[c]]
    BY DEF SessionInv, TypeOK
  <2>4. fpc' = fpc
    BY <1>1, Quiet
  <2> QED BY <2>1, <2>2, <2>3, <2>4 DEF SessionInv, LockHeld, FlagMeaning
<1>4. DevMeaning'
  BY <1>1, Quiet DEF Flash, Goto, Free, session, SessionInv, TypeOK, LockHeld, FlagMeaning, DevMeaning, NoDevice, Free
<1>5. RetryMeaning'
  BY <1>1, Quiet DEF Flash, Goto, Free, session, SessionInv, TypeOK, LockHeld, FlagMeaning, DevMeaning, RetryMeaning, NoDevice, Free
<1> QED BY <1>1, <1>2, <1>3, <1>4, <1>5, Quiet DEF SessionInv

\* do_flash resolves the selector.
LEMMA ResolveSession == ASSUME SessionInv, NEW t \in Callers, Resolve(t) PROVE SessionInv'
<1> USE SessionAssumption, FlasherAssumption DEF SessionAssumption, FlasherAssumption
<1>1. UNCHANGED <<mode, flasher>>
  BY DEF Resolve
<1>2. TypeOK'
  BY <1>1, CandidatesMean, Quiet DEF Resolve, Goto, Free, session, SessionInv, TypeOK, NoDevice
<1>3. LockHeld' /\ FlagMeaning'
  BY <1>1, CandidatesMean, Quiet DEF Resolve, Goto, Free, session, SessionInv, TypeOK, LockHeld, FlagMeaning, NoDevice
<1>4. DevMeaning'
  BY <1>1, Quiet DEF Resolve, Goto, Free, session, SessionInv, TypeOK, LockHeld, FlagMeaning, DevMeaning, NoDevice, Free
<1>5. RetryMeaning'
  BY <1>1, Quiet DEF Resolve, Goto, Free, session, SessionInv, TypeOK, LockHeld, FlagMeaning, DevMeaning, RetryMeaning, NoDevice, Free
<1> QED BY <1>1, <1>2, <1>3, <1>4, <1>5, Quiet DEF SessionInv

\* Another unit is picked: what is open is dropped.
LEMMA PickSession ==
  ASSUME SessionInv, NEW t \in Callers, NEW sel \in Labels, Pick(t, sel) PROVE SessionInv'
<1> USE SessionAssumption, FlasherAssumption DEF SessionAssumption, FlasherAssumption
<1>1. UNCHANGED <<mode, flasher>>
  BY DEF Pick
<1>2. /\ pc[t] = "idle" /\ pc' = [pc EXCEPT ![t] = "try"]
      /\ attempt' = [attempt EXCEPT ![t] = 1]
      /\ dev' = IF sel = selector THEN dev ELSE NoDevice
      /\ selector' = sel /\ calm' = [c \in Callers |-> c = t /\ Well(sel)]
      /\ UNCHANGED <<flashing, lock, wish>> /\ Free
  BY DEF Pick, Begin, Goto
<1>3. TypeOK'
  BY <1>1, <1>2, Quiet DEF SessionInv, TypeOK, NoDevice
<1>4. LockHeld' /\ FlagMeaning' /\ ~flashing
  BY <1>1, <1>2, Quiet DEF SessionInv, TypeOK, LockHeld, FlagMeaning, NoDevice, Free
<1>5. DevMeaning'
  <2>1. \A v : Present(v)' <=> Present(v)
    BY <1>1, Quiet
  <2>2. dev' # NoDevice => dev' = dev /\ sel = selector
    BY <1>2
  <2>3. pc = [c \in Callers |-> pc[c]]
    BY DEF SessionInv, TypeOK
  <2>4. \A c \in Callers : pc'[c] \notin {"open", "connect", "fn"}
    BY <1>2, <2>3 DEF SessionInv, LockHeld, Free
  <2>5. Free' /\ UNCHANGED mode
    BY <1>1, <1>2 DEF Free
  <2> QED BY <1>2, <2>1, <2>2, <2>4, <2>5 DEF SessionInv, DevMeaning, Free
<1>6. RetryMeaning'
  BY <1>1, <1>2, <1>4, Quiet DEF SessionInv, TypeOK, RetryMeaning
<1> QED BY <1>1, <1>3, <1>4, <1>5, <1>6, Quiet DEF SessionInv

\* flash_lock is entered: nobody is inside safe_call.
LEMMA FlashLockSession ==
  ASSUME SessionInv, NEW t \in Callers, FlashLock(t) PROVE SessionInv'
<1> USE SessionAssumption, FlasherAssumption, BlocksNat DEF SessionAssumption, FlasherAssumption
<1>1. /\ pc[t] = "wait" /\ pc' = [pc EXCEPT ![t] = "flash"]
      /\ lock = NoCaller /\ lock' = t /\ dev' = NoDevice /\ flashing' = TRUE
      /\ calm' = [c \in Callers |-> FALSE]
      /\ UNCHANGED <<selector, attempt, wish>>
      /\ fpc = "idle" /\ fpc' = "open" /\ target' = wish[t]
      /\ tries' = 0 /\ sent' = 0 /\ received' = <<>> /\ UNCHANGED <<mode, hid>>
  BY DEF FlashLock, FlashStart, Goto, NobodyCalm, Free
<1>2. wish[t] \in Units
  BY <1>1 DEF SessionInv, FlagMeaning
<1>3. FlasherTypeOK'
  BY <1>1, <1>2 DEF SessionInv, TypeOK, FlasherTypeOK
<1>4. HandleInUse' /\ UploadInOrder'
  BY <1>1, <1>2 DEF SessionInv, HandleInUse, UploadInOrder, Closed
<1>5. TypeOK'
  BY <1>1, <1>3 DEF SessionInv, TypeOK, NoDevice
<1>6. LockHeld' /\ FlagMeaning'
  BY <1>1 DEF SessionInv, TypeOK, LockHeld, FlagMeaning
<1>7. DevMeaning'
  BY <1>1 DEF SessionInv, TypeOK, LockHeld, DevMeaning
<1>8. RetryMeaning'
  BY <1>1 DEF RetryMeaning
<1> QED BY <1>4, <1>5, <1>6, <1>7, <1>8 DEF SessionInv

\* flash_lock is left: the flasher's handle is closed.
LEMMA FlashUnlockSession ==
  ASSUME SessionInv, NEW t \in Callers, FlashUnlock(t) PROVE SessionInv'
<1> USE SessionAssumption, FlasherAssumption DEF SessionAssumption, FlasherAssumption
<1>1. /\ pc[t] = "flash" /\ pc' = [pc EXCEPT ![t] = "idle"]
      /\ lock' = NoCaller /\ flashing' = FALSE
      /\ wish' = [wish EXCEPT ![t] = NoUnit]
      /\ UNCHANGED <<dev, selector, attempt, calm>>
      /\ fpc \in {"raised", "returned"} /\ fpc' = "idle" /\ target' = NoUnit
      /\ UNCHANGED <<mode, hid, tries, sent, received>>
  BY DEF FlashUnlock, Goto
<1>2. FlasherTypeOK'
  BY <1>1 DEF SessionInv, TypeOK, FlasherTypeOK
<1>3. HandleInUse' /\ UploadInOrder'
  BY <1>1 DEF SessionInv, HandleInUse, UploadInOrder, Closed
<1>4. TypeOK'
  BY <1>1, <1>2 DEF SessionInv, TypeOK
<1>5. LockHeld' /\ FlagMeaning' /\ dev = NoDevice /\ flashing
  <2>1. \A c \in Callers : pc[c] = "flash" => c = t
    BY <1>1 DEF SessionInv, LockHeld
  <2>2. pc = [c \in Callers |-> pc[c]] /\ wish \in [Callers -> Units \cup {NoUnit}]
    BY DEF SessionInv, TypeOK
  <2> QED BY <1>1, <2>1, <2>2 DEF SessionInv, LockHeld, FlagMeaning
<1>6. DevMeaning' /\ RetryMeaning'
  BY <1>1, <1>5 DEF SessionInv, TypeOK, DevMeaning, RetryMeaning, NoDevice, Present
<1> QED BY <1>3, <1>4, <1>5, <1>6 DEF SessionInv

-----------------------------------------------------------------------------
(* The theorems *)

\* The invariant is inductive.
LEMMA SessionStep == SessionInv /\ [Next]_vars => SessionInv'
<1> SUFFICES ASSUME SessionInv, [Next]_vars PROVE SessionInv'
  OBVIOUS
<1>1. ASSUME UNCHANGED vars PROVE SessionInv'
  <2>1. UNCHANGED <<mode, flasher, session, frames>>
    BY <1>1 DEF vars
  <2>2. TypeOK'
    BY <2>1, Quiet DEF session, frames, SessionInv, TypeOK
  <2>3. LockHeld' /\ FlagMeaning' /\ DevMeaning' /\ RetryMeaning'
    BY <2>1, Quiet DEF session, frames, SessionInv, LockHeld, FlagMeaning, DevMeaning, Free,
                       NoDevice, RetryMeaning
  <2> QED BY <2>1, <2>2, <2>3, Quiet DEF SessionInv
<1>2. ASSUME NEW t \in Callers, Inside(t) PROVE SessionInv'
  BY <1>2, OpenSession, OpenFailsSession, ConnectSession, ExchangeFailsSession, FinishSession,
     FlashUnlockSession DEF Inside
<1> QED
  BY <1>1, <1>2, CallSession, AttemptSession, NapSession, ReportSession, PickSession,
     FlashSession, ResolveSession, FlashLockSession, UploadSession, UnitSession DEF Next

LEMMA SessionAlways == Spec => []SessionInv
  BY InitSession, SessionStep, PTL DEF Spec

\* Every variable of the session and of the flasher stays in its domain.
THEOREM TypeCorrect == Spec => []TypeOK
  BY SessionAlways, PTL DEF SessionInv

\* flash_lock: whatever the other callbacks and the units do, nobody has the
\* USB handle, or is inside safe_call, while the flasher runs.
THEOREM FlasherIsAlone == Spec => []FlashIsExclusive
<1>1. SessionInv => FlashIsExclusive
  <2> SUFFICES ASSUME SessionInv, hid # Closed \/ flashing PROVE FlashIsExclusive
    BY DEF FlashIsExclusive
  <2>1. flashing
    BY DEF SessionInv, HandleInUse, FlagMeaning
  <2>2. PICK t \in Callers : pc[t] = "flash"
    BY <2>1 DEF SessionInv, FlagMeaning
  <2>3. \A c \in Callers : pc[c] \in {"open", "connect", "fn"} => c = t
    BY <2>2 DEF SessionInv, LockHeld
  <2> QED BY <2>1, <2>2, <2>3 DEF SessionInv, FlagMeaning, FlashIsExclusive
<1> QED BY <1>1, SessionAlways, PTL

\* safe_call: between callbacks, what is open is connected and a unit the selector
\* of the moment may mean.
THEOREM OpenIsPicked == Spec => []DevIsPicked
<1>1. SessionInv => DevIsPicked
  BY DEF SessionInv, DevMeaning, DevIsPicked
<1> QED BY <1>1, SessionAlways, PTL

\* safe_call's one retry is enough against a handle gone stale.
THEOREM RetryHeals == Spec => []OneRetryHeals
<1>1. SessionInv => OneRetryHeals
  BY DEF SessionInv, RetryMeaning, OneRetryHeals
<1> QED BY <1>1, SessionAlways, PTL

\* flash_firmware: no image is reported written that is not, at any length.
THEOREM WholeImage == Spec => []SuccessIsWhole
<1>1. SessionInv => SuccessIsWhole
  <2> SUFFICES ASSUME SessionInv, fpc = "returned" PROVE SuccessIsWhole
    BY DEF SuccessIsWhole
  <2>1. received = Taken(Blocks)
    BY DEF SessionInv, UploadInOrder
  <2>2. Len(received) = 1 + Blocks /\ \A k \in 1..(Blocks + 1) : received[k] = k - 1
    BY <2>1, BlocksNat DEF Taken
  <2>3. ASSUME NEW b \in 0..(ImageBytes - 1) PROVE Written(b)
    <3>1. b \div BlockSize \in Nat /\ b \div BlockSize < Blocks
      BY ByteInBlock
    <3>2. 2 + b \div BlockSize \in 1..(Blocks + 1)
      BY <3>1, BlocksNat
    <3> QED BY <2>2, <3>1, <3>2, BlocksNat DEF Written
  <2> QED BY <2>2, <2>3, BlocksNat DEF SuccessIsWhole
<1> QED BY <1>1, SessionAlways, PTL
=============================================================================
