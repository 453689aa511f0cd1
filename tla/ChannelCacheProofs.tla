------------------------- MODULE ChannelCacheProofs -------------------------
(***************************************************************************)
(* Proofs about ChannelCache, for any channels, gains, delays, roles and   *)
(* calls.  Types hold for every program; what the cache says about the     *)
(* device needs calls of different threads to be about different channels  *)
(* (Separate): runs show that it fails otherwise.                          *)
(***************************************************************************)
EXTENDS ChannelCache, TLAPS

-----------------------------------------------------------------------------
(* Records and arguments *)

\* _channel_payload's clamp.
LEMMA ClampType ==
  /\ \A db \in Int : R!Clamped(db) \in MinDb..MaxDb
  /\ \A db \in MinDb..MaxDb : R!Clamped(db) = db
  BY RegisterAssumption DEF RegisterAssumption, R!Clamped

\* A call in progress is one the thread may make.
LEMMA CallTypes ==
  ASSUME TypeOK, NEW t \in Threads, call[t] # NoCall
  PROVE  call[t] \in Calls[t] /\ WellFormed(call[t])
  BY CallAssumption DEF CallAssumption, TypeOK

LEMMA EntryTypes ==
  /\ R!Records \subseteq Entries
  /\ \A ch \in Channels : DefaultEntry(ch) \in R!Records
  /\ \A ch \in Channels, s \in Subidxs : R!Role(ch, s) \in Subidxs
<1> USE RegisterAssumption DEF RegisterAssumption
<1>1. \A ch \in Channels, s \in Subidxs : R!Role(ch, s) \in Subidxs
  BY DEF R!Role
<1>2. \A ch \in Channels : DefaultEntry(ch) \in R!Records
  BY DEF DefaultEntry, R!Records
<1>3. R!Records \subseteq Entries
  BY DEF R!Records, Entries
<1> QED BY <1>1, <1>2, <1>3

\* What the callers of set_channel take from a cache entry.
LEMMA PickedTypes ==
  ASSUME NEW c, WellFormed(c), c.op \in SingleField \cup {"template"}, NEW e \in Entries
  PROVE  PickedArgs(c, e) \in Args
<1> USE RegisterAssumption DEF RegisterAssumption, WellFormed, Args, Entries
<1>1. CASE c.op = "volume"
  BY <1>1 DEF PickedArgs
<1>2. CASE c.op = "mute"
  BY <1>2 DEF PickedArgs
<1>3. CASE c.op = "polar"
  BY <1>3 DEF PickedArgs
<1>4. CASE c.op = "ch_delay"
  BY <1>4 DEF PickedArgs
<1>5. CASE c.op = "template"
  BY <1>5 DEF PickedArgs
<1> QED BY <1>1, <1>2, <1>3, <1>4, <1>5 DEF SingleField, Wrappers

\* What set_channel sends.
LEMMA WireTypes ==
  ASSUME NEW a \in Args, NEW s \in Subidxs, NEW p \in BOOLEAN
  PROVE  WireRecord(a, s, p) \in R!Records
  BY ClampType DEF WireRecord, R!Records, Args

\* The role and the phase set_channel takes from the cache.
LEMMA EffectiveTypes ==
  ASSUME cache \in [Channels -> Entries], NEW ch \in Channels, NEW p \in BOOLEAN \cup {Keep}
  PROVE  EffectiveSubidx(ch) \in Subidxs /\ EffectivePolar(ch, p) \in BOOLEAN
  BY EntryTypes DEF EffectiveSubidx, EffectivePolar, Entries

-----------------------------------------------------------------------------
(* Types *)

\* Only channels are left behind.
LEMMA BehindTypes ==
  ASSUME TypeOK, NEW chs \in SUBSET Channels, NEW event
  PROVE  Behind(chs, event) \in SUBSET Channels
  BY DEF TypeOK, Behind

LEMMA InitTypes == Init => TypeOK /\ CallShape
<1> SUFFICES ASSUME Init PROVE TypeOK /\ CallShape
  OBVIOUS
<1> USE CacheAssumption, CallAssumption DEF CacheAssumption, CallAssumption, Init
<1>1. cache \in [Channels -> Entries]
  BY EntryTypes
<1>2. fw \in [Channels -> R!Records]
  OBVIOUS
<1>3. TypeOK
  <2> HIDE DEF CallAssumption
  <2> QED BY <1>1, <1>2 DEF TypeOK
<1>4. CallShape
  BY DEF CallShape, ShapeOf
<1> QED BY <1>3, <1>4

\* Other threads' calls stay where they are.
LEMMA Frame ==
  ASSUME TypeOK, NEW t \in Threads,
         Step(t) \/ Fault(t) \/ \E c \in Calls[t] : Call(t, c),
         NEW s \in Threads, s # t
  PROVE  /\ pc'[s] = pc[s] /\ call'[s] = call[s] /\ stage'[s] = stage[s] /\ args'[s] = args[s]
         /\ blob'[s] = blob[s] /\ attempts'[s] = attempts[s] /\ payload'[s] = payload[s]
<1> USE DEF shared, local, Goto, TypeOK
<1>1. CASE Prime(t)
  BY <1>1 DEF Prime
<1>2. CASE Read(t)
  BY <1>2 DEF Read
<1>3. CASE Store(t)
  BY <1>3 DEF Store
<1>4. CASE Pick(t)
  BY <1>4 DEF Pick
<1>5. CASE Compose(t)
  BY <1>5 DEF Compose
<1>6. CASE Write(t)
  BY <1>6 DEF Write
<1>7. CASE Update(t)
  BY <1>7 DEF Update
<1>8. CASE Load(t)
  BY <1>8 DEF Load
<1>9. CASE Magic(t)
  BY <1>9 DEF Magic
<1>10. CASE Forget(t)
  BY <1>10 DEF Forget
<1>11. CASE Return(t)
  BY <1>11 DEF Return
<1>12. CASE ReadUnusable(t)
  BY <1>12 DEF ReadUnusable
<1>13. CASE WriteFails(t)
  BY <1>13 DEF WriteFails
<1>14. CASE ResetFails(t)
  BY <1>14 DEF ResetFails
<1>16. CASE WriteDropped(t)
  BY <1>16 DEF WriteDropped
<1>15. ASSUME NEW c \in Calls[t], Call(t, c)
      PROVE  /\ pc'[s] = pc[s] /\ call'[s] = call[s] /\ stage'[s] = stage[s] /\ args'[s] = args[s]
             /\ blob'[s] = blob[s] /\ attempts'[s] = attempts[s] /\ payload'[s] = payload[s]
  BY <1>15 DEF Call
<1> QED BY <1>1, <1>2, <1>3, <1>4, <1>5, <1>6, <1>7, <1>8, <1>9, <1>10, <1>11, <1>12, <1>13, <1>14, <1>15, <1>16 DEF Step, Fault

\* Every step keeps the types and the shape of the call that makes it.
LEMMA TypesStep ==
  ASSUME TypeOK, CallShape, NEW t \in Threads,
         Step(t) \/ Fault(t) \/ \E c \in Calls[t] : Call(t, c)
  PROVE  TypeOK' /\ CallShape'
<1> USE DEF shared, local, Goto
<1>0. /\ pc[t] # "idle" => call[t] \in Calls[t] /\ WellFormed(call[t]) /\ call[t].ch \in Channels
      /\ ShapeOf(t)
  BY CallTypes DEF CallShape, ShapeOf, WellFormed
<1>a. After("wrapper") = "pick" /\ After("setter") = "compose" /\ After("get") = "return"
  BY DEF After
<1>1. ASSUME NEW c \in Calls[t], Call(t, c) PROVE TypeOK' /\ ShapeOf(t)'
  <2>1. WellFormed(c)
    BY CallAssumption DEF CallAssumption
  <2>2. c.op = "set" => c.val \in Args
    BY <2>1, RegisterAssumption DEF RegisterAssumption, WellFormed, Args
  <2>3. c.op = "full" => c.val \in R!Records
    BY <2>1 DEF WellFormed
  <2>4. FirstPc(c.op) \in {"idle", "prime", "read", "store", "pick", "compose", "write", "update",
                           "load", "magic", "forget", "return"}
    BY <2>1 DEF FirstPc, WellFormed
  <2>5. FirstStage(c.op) \in {"wrapper", "setter", "get"}
    BY DEF FirstStage
  <2>6. TypeOK'
    BY <1>1, <2>2, <2>3, <2>4, <2>5, CacheAssumption DEF CacheAssumption, Call, TypeOK
  <2>7. ShapeOf(t)'
    BY <1>1, <2>1, <2>2, <2>3, CallAssumption, CacheAssumption
       DEF CallAssumption, CacheAssumption, Call, TypeOK, ShapeOf, FirstPc, FirstStage, WellFormed, SingleField, Wrappers
  <2> QED BY <2>6, <2>7
<1>2. ASSUME Prime(t) PROVE TypeOK' /\ ShapeOf(t)'
  <2>1. TypeOK'
    BY <1>0, <1>2, CacheAssumption DEF CacheAssumption, Prime, After, TypeOK, ShapeOf
  <2>2. pc'[t] \in {"read", "pick", "compose"} /\ (stage[t] = "wrapper" => pc'[t] # "compose")
        /\ (stage[t] = "setter" => pc'[t] # "pick") /\ pc[t] = "prime" /\ attempts'[t] = 0
        /\ UNCHANGED <<call, stage, args, payload>> /\ stage[t] \in {"wrapper", "setter"}
    BY <1>0, <1>a, <1>2 DEF Prime, TypeOK, ShapeOf
  <2>3. ShapeOf(t)'
    BY <1>0, <2>2, CacheAssumption DEF CacheAssumption, ShapeOf, SingleField
  <2> QED BY <2>1, <2>3
<1>3. ASSUME Read(t) PROVE TypeOK' /\ ShapeOf(t)'
  <2>1. TypeOK'
    BY <1>0, <1>3, EntryTypes, CacheAssumption DEF CacheAssumption, Read, TypeOK, ShapeOf
  <2>2. ShapeOf(t)'
    BY <1>0, <1>3, EntryTypes, CacheAssumption DEF CacheAssumption, Read, TypeOK, ShapeOf
  <2> QED BY <2>1, <2>2
<1>4. ASSUME Store(t) PROVE TypeOK' /\ ShapeOf(t)'
  <2>1. TypeOK'
    BY <1>0, <1>4, EntryTypes, CacheAssumption DEF CacheAssumption, Store, StoreEntry, After, TypeOK, ShapeOf
  <2>2. pc'[t] = After(stage[t]) /\ UNCHANGED <<call, stage, args, payload>> /\ pc[t] = "store"
        /\ stage[t] \in {"wrapper", "setter", "get"}
    BY <1>4 DEF Store, TypeOK
  <2>3. ShapeOf(t)'
    BY <1>0, <1>a, <2>2 DEF ShapeOf, SingleField
  <2> QED BY <2>1, <2>3
<1>5. ASSUME Pick(t) PROVE TypeOK' /\ ShapeOf(t)'
  <2>1. pc[t] = "pick" /\ call[t].op \in SingleField \cup {"template"} /\ call[t].ch \in Channels
    BY <1>0, <1>5 DEF Pick, ShapeOf
  <2>2. cache[call[t].ch] \in Entries
    BY <2>1 DEF TypeOK
  <2>3. PickedArgs(call[t], cache[call[t].ch]) \in Args
    BY <1>0, <2>1, <2>2, PickedTypes
  <2>4. /\ pc' = [pc EXCEPT ![t] = "prime"] /\ stage' = [stage EXCEPT ![t] = "setter"]
        /\ args' = [args EXCEPT ![t] = PickedArgs(call[t], cache[call[t].ch])]
        /\ cache' = cache \/ (call[t].op = "template" /\ cache' = [cache EXCEPT ![call[t].ch].subidx = call[t].val])
        /\ UNCHANGED <<fw, primed, bypassed, call, blob, attempts, payload>>
    BY <1>5 DEF Pick
  <2>5. cache' \in [Channels -> Entries]
    <3>1. call[t].op = "template" => call[t].val \in Subidxs
      BY <1>0, <2>1 DEF WellFormed
    <3> QED BY <2>1, <2>2, <2>4, <3>1 DEF TypeOK, Entries
  <2>6. TypeOK'
    BY <2>3, <2>4, <2>5 DEF TypeOK
  <2>7. pc'[t] = "prime" /\ stage'[t] = "setter" /\ args'[t] \in Args /\ call' = call
    BY <2>3, <2>4 DEF TypeOK
  <2>8. ShapeOf(t)'
    BY <1>0, <2>1, <2>7 DEF ShapeOf
  <2> QED BY <2>6, <2>8
<1>6. ASSUME Compose(t) PROVE TypeOK' /\ ShapeOf(t)'
  <2>1. pc[t] = "compose" /\ args[t] \in Args /\ call[t].ch \in Channels
    BY <1>0, <1>6 DEF Compose, ShapeOf
  <2>2. EffectiveSubidx(call[t].ch) \in Subidxs /\ EffectivePolar(call[t].ch, args[t].polar) \in BOOLEAN
    BY <2>1, EffectiveTypes DEF TypeOK, Args
  <2>3. WireRecord(args[t], EffectiveSubidx(call[t].ch), EffectivePolar(call[t].ch, args[t].polar)) \in R!Records
    BY <2>1, <2>2, WireTypes
  <2>4. /\ pc' = [pc EXCEPT ![t] = "write"]
        /\ payload' = [payload EXCEPT ![t] =
              WireRecord(args[t], EffectiveSubidx(call[t].ch), EffectivePolar(call[t].ch, args[t].polar))]
        /\ UNCHANGED <<fw, cache, primed, bypassed, call, stage, args, blob, attempts>>
    BY <1>6 DEF Compose
  <2>5. TypeOK'
    BY <2>3, <2>4 DEF TypeOK
  <2>6. ShapeOf(t)'
    BY <1>0, <2>1, <2>3, <2>4 DEF TypeOK, ShapeOf
  <2> QED BY <2>5, <2>6
<1>7. ASSUME Write(t) PROVE TypeOK' /\ ShapeOf(t)'
  <2>1. TypeOK'
    BY <1>0, <1>7, BehindTypes DEF Write, AfterWrite, TypeOK, ShapeOf
  <2>2. ShapeOf(t)'
    BY <1>0, <1>7, EntryTypes, CacheAssumption DEF CacheAssumption, Write, AfterWrite, TypeOK, ShapeOf
  <2> QED BY <2>1, <2>2
<1>8. ASSUME Update(t) PROVE TypeOK' /\ ShapeOf(t)'
  <2>1. pc[t] = "update" /\ args[t] \in Args /\ payload[t] \in R!Records /\ call[t].ch \in Channels
    BY <1>0, <1>8 DEF Update, ShapeOf
  <2>2. EntryAfterSet(t, call[t].ch) \in Entries
    BY <2>1 DEF EntryAfterSet, Args, Entries, R!Records
  <2>3. TypeOK'
    BY <1>8, <2>1, <2>2 DEF Update, TypeOK
  <2>4. ShapeOf(t)'
    BY <1>0, <1>8 DEF Update, TypeOK, ShapeOf
  <2> QED BY <2>3, <2>4
<1>9. ASSUME Load(t) PROVE TypeOK' /\ ShapeOf(t)'
  <2>1. fw' \in [Channels -> R!Records]
    BY <1>9, CallAssumption DEF CallAssumption, Load, TypeOK
  <2>2. TypeOK'
    BY <1>9, <2>1, BehindTypes DEF Load, TypeOK
  <2>3. ShapeOf(t)'
    BY <1>0, <1>9 DEF Load, TypeOK, ShapeOf
  <2> QED BY <2>2, <2>3
<1>10. ASSUME Magic(t) PROVE TypeOK' /\ ShapeOf(t)'
  <2>1. TypeOK'
    BY <1>0, <1>10, EntryTypes, BehindTypes DEF Magic, TypeOK, ShapeOf
  <2>2. ShapeOf(t)'
    BY <1>0, <1>10, EntryTypes, CacheAssumption DEF CacheAssumption, Magic, TypeOK, ShapeOf
  <2> QED BY <2>1, <2>2
<1>11. ASSUME Forget(t) PROVE TypeOK' /\ ShapeOf(t)'
  <2>1. TypeOK'
    BY <1>0, <1>11, EntryTypes, CacheAssumption DEF CacheAssumption, Forget, TypeOK, ShapeOf
  <2>2. ShapeOf(t)'
    BY <1>0, <1>11, EntryTypes, CacheAssumption DEF CacheAssumption, Forget, TypeOK, ShapeOf
  <2> QED BY <2>1, <2>2
<1>12. ASSUME Return(t) PROVE TypeOK' /\ ShapeOf(t)'
  <2>1. TypeOK'
    BY <1>0, <1>12, EntryTypes, CacheAssumption DEF CacheAssumption, Return, TypeOK, ShapeOf
  <2>2. ShapeOf(t)'
    BY <1>0, <1>12, EntryTypes, CacheAssumption DEF CacheAssumption, Return, TypeOK, ShapeOf
  <2> QED BY <2>1, <2>2
<1>13. ASSUME ReadUnusable(t) PROVE TypeOK' /\ ShapeOf(t)'
  <2>1. pc'[t] = After(stage[t]) /\ UNCHANGED <<call, stage, args, payload>> /\ pc[t] = "read"
        /\ stage[t] \in {"wrapper", "setter", "get"}
    BY <1>13 DEF ReadUnusable, TypeOK
  <2>2. TypeOK'
    BY <1>0, <1>13 DEF ReadUnusable, After, TypeOK
  <2>3. ShapeOf(t)'
    BY <1>0, <1>a, <2>1 DEF ShapeOf, SingleField
  <2> QED BY <2>2, <2>3
<1>14. ASSUME WriteFails(t) PROVE TypeOK' /\ ShapeOf(t)'
  <2>1. TypeOK'
    BY <1>0, <1>14, BehindTypes DEF WriteFails, TypeOK, ShapeOf
  <2>2. ShapeOf(t)'
    BY <1>0, <1>14, EntryTypes, CacheAssumption DEF CacheAssumption, WriteFails, TypeOK, ShapeOf
  <2> QED BY <2>1, <2>2
<1>15. ASSUME ResetFails(t) PROVE TypeOK' /\ ShapeOf(t)'
  <2>1. TypeOK'
    BY <1>0, <1>15, EntryTypes, CacheAssumption DEF CacheAssumption, ResetFails, TypeOK, ShapeOf
  <2>2. ShapeOf(t)'
    BY <1>0, <1>15, EntryTypes, CacheAssumption DEF CacheAssumption, ResetFails, TypeOK, ShapeOf
  <2> QED BY <2>1, <2>2
<1>18. ASSUME WriteDropped(t) PROVE TypeOK' /\ ShapeOf(t)'
  <2>1. TypeOK'
    BY <1>0, <1>18, BehindTypes DEF WriteDropped, AfterWrite, TypeOK
  <2>2. ShapeOf(t)'
    BY <1>0, <1>18 DEF WriteDropped, AfterWrite, TypeOK, ShapeOf
  <2> QED BY <2>1, <2>2
<1>16. TypeOK' /\ ShapeOf(t)'
  BY <1>1, <1>2, <1>3, <1>4, <1>5, <1>6, <1>7, <1>8, <1>9, <1>10, <1>11, <1>12, <1>13, <1>14, <1>15, <1>18
     DEF Step, Fault
<1>17. \A s \in Threads \ {t} : ShapeOf(s)'
  BY Frame DEF CallShape, ShapeOf
<1> QED BY <1>16, <1>17 DEF CallShape
-----------------------------------------------------------------------------
(* The cache and the device *)

\* Threads that are inside a call are on different channels, and none of them
\* loads a preset or resets the device.
LEMMA Own ==
  ASSUME Separate, TypeOK, CallShape, NEW s \in Threads, NEW t \in Threads, s # t,
         pc[s] # "idle", pc[t] # "idle"
  PROVE  call[s].ch # call[t].ch /\ call[t].op \notin {"load", "reset"}
<1>1. call[s] \in Calls[s] /\ call[t] \in Calls[t]
  BY CallTypes DEF CallShape, ShapeOf
<1> QED BY <1>1 DEF Separate

\* Of another thread's channel a step changes nothing.
LEMMA OthersStay ==
  ASSUME Separate, TypeOK, CallShape, NEW t \in Threads,
         Step(t) \/ Fault(t) \/ \E c \in Calls[t] : Call(t, c),
         NEW ch \in Channels, NEW s \in Threads, s # t, pc[s] # "idle", call[s].ch = ch
  PROVE  fw'[ch] = fw[ch] /\ cache'[ch] = cache[ch]
         /\ (ch \in primed' <=> ch \in primed) /\ (ch \in bypassed' <=> ch \in bypassed)
<1>1. pc[t] # "idle" => call[t].ch # ch /\ call[t].op \notin {"load", "reset"}
  BY Own
<1>2. pc[t] \notin {"load", "magic", "forget"}
  BY <1>1 DEF CallShape, ShapeOf
<1> QED
  BY <1>1, <1>2 DEF Step, Fault, Call, shared, local, Goto, Prime, Read, Store, StoreEntry, Pick,
     Compose, Write, WriteDropped, Behind, Update, Load, Magic, Forget, Return, ReadUnusable, WriteFails,
     ResetFails, TypeOK

\* What is true of the record of a channel nobody else is at.
LEMMA RecordStands ==
  ASSUME NEW r \in R!Records PROVE StandsFor(r, r)
  BY ClampType DEF StandsFor, R!Records

\* The thread's own channel, and the channels of no thread.
LEMMA MineInSync ==
  ASSUME Separate, EventsExcused, CacheInv, NEW t \in Threads,
         Step(t) \/ Fault(t) \/ \E c \in Calls[t] : Call(t, c),
         NEW ch \in primed' \ bypassed',
         ~\E s \in Threads \ {t} : pc[s] # "idle" /\ call[s].ch = ch
  PROVE  Current(ch)'
<1> USE DEF shared, local, Goto
<1>0. /\ TypeOK /\ CallShape /\ ShapeOf(t) /\ SyncOf(t)
      /\ TypeOK' /\ ch \in Channels
      /\ pc[t] # "idle" => call[t].ch \in Channels
  BY TypesStep, CallTypes DEF CacheInv, CacheInSync, CallShape, ShapeOf, TypeOK, WellFormed
<1>1. ch \in primed \ bypassed => StandsFor(cache[ch], fw[ch]) \/ Changing(t, ch)
  BY <1>0 DEF CacheInv, CacheInSync, Current, Changing
<1>2. StandsFor(cache'[ch], fw'[ch]) \/ Changing(t, ch)' => Current(ch)'
  BY DEF Current, StandsFor
<1>3. ASSUME UNCHANGED <<fw, cache, primed, bypassed>>, Changing(t, ch) => Changing(t, ch)'
      PROVE  Current(ch)'
  BY <1>1, <1>2, <1>3
<1>4. ASSUME NEW c \in Calls[t], Call(t, c) PROVE Current(ch)'
  <2>1. ~Changing(t, ch) /\ UNCHANGED <<fw, cache, primed, bypassed>>
    BY <1>4 DEF Call, Changing
  <2> QED BY <1>3, <2>1
<1>5. ASSUME Prime(t) \/ Read(t) \/ Compose(t) \/ ReadUnusable(t) PROVE Current(ch)'
  <2>1. UNCHANGED <<fw, cache, primed, bypassed, call>>
    BY <1>5 DEF Prime, Read, Compose, ReadUnusable
  <2>2. call[t].op = "template" /\ pc[t] \in {"prime", "read"} => stage[t] = "setter"
    BY <1>0 DEF TypeOK, ShapeOf, Wrappers
  <2>3. After("setter") = "compose"
    BY DEF After
  <2>4. call[t].op = "template" => pc'[t] \notin {"idle", "pick", "return"}
    BY <1>0, <1>5, <2>2, <2>3 DEF Prime, Read, Compose, ReadUnusable, TypeOK
  <2>5. pc[t] # "update"
    BY <1>5 DEF Prime, Read, Compose, ReadUnusable
  <2> QED BY <1>3, <2>1, <2>4, <2>5 DEF Changing
<1>6. ASSUME Store(t) PROVE Current(ch)'
  <2>1. CASE ch = call[t].ch
    <3>1. cache'[ch] = fw[ch] /\ fw' = fw
      BY <1>0, <1>6, <2>1 DEF Store, StoreEntry, SyncOf, TypeOK
    <3>2. StandsFor(cache'[ch], fw'[ch])
      BY <1>0, <3>1, RecordStands DEF TypeOK
    <3> QED BY <1>2, <3>2
  <2>2. CASE ch # call[t].ch
    <3>1. cache'[ch] = cache[ch] /\ fw' = fw /\ ch \in primed \ bypassed /\ ~Changing(t, ch)
      BY <1>0, <1>6, <2>2 DEF Store, StoreEntry, TypeOK, Changing
    <3> QED BY <1>1, <1>2, <3>1
  <2> QED BY <2>1, <2>2
<1>7. ASSUME Pick(t) PROVE Current(ch)'
  <2>1. UNCHANGED <<fw, primed, bypassed, call>> /\ ~Changing(t, ch) /\ pc'[t] = "prime"
    BY <1>0, <1>7 DEF Pick, Changing, TypeOK
  <2>2. CASE ch = call[t].ch /\ call[t].op = "template"
    BY <1>2, <2>1, <2>2 DEF Changing
  <2>3. CASE ~(ch = call[t].ch /\ call[t].op = "template")
    <3>1. cache'[ch] = cache[ch]
      BY <1>0, <1>7, <2>3 DEF Pick, TypeOK
    <3> QED BY <1>1, <1>2, <2>1, <3>1
  <2> QED BY <2>2, <2>3
<1>8. ASSUME Write(t) \/ WriteDropped(t) \/ WriteFails(t) PROVE Current(ch)'
  <2>1. UNCHANGED <<cache, primed, call>> /\ pc[t] = "write"
    BY <1>8 DEF Write, WriteDropped, WriteFails
  <2>2. call[t] \in Calls[t] /\ call[t].ch \in Channels
    BY <1>0, <2>1, CallTypes DEF ShapeOf
  <2>3. ASSUME NEW event \in Excused, ch = call[t].ch PROVE ch \in Behind({call[t].ch}, event)
    BY <2>3 DEF Behind
  <2>4. CASE ch = call[t].ch /\ Write(t)
    <3>1. call[t].op # "full"
      BY <2>2, <2>3, <2>4 DEF Write, EventsExcused
    <3>2. pc'[t] = "update"
      BY <1>0, <2>4, <3>1 DEF Write, AfterWrite, TypeOK
    <3> QED BY <1>2, <2>1, <2>4, <3>2 DEF Changing
  <2>5. CASE ch = call[t].ch /\ WriteDropped(t)
    BY <2>3, <2>5 DEF WriteDropped, EventsExcused
  <2>6. CASE ch = call[t].ch /\ WriteFails(t)
    <3>1. CASE bypassed' = Behind({call[t].ch}, IF call[t].op = "full" THEN "full" ELSE "acklost")
               /\ "acklost" \in Faults
      BY <2>2, <2>3, <2>6, <3>1 DEF EventsExcused
    <3>2. CASE call[t].op = "template" /\ bypassed' = Behind({call[t].ch}, "template")
      BY <2>2, <2>3, <2>6, <3>2 DEF EventsExcused
    <3>3. CASE call[t].op # "template" /\ bypassed' = bypassed /\ fw' = fw
      <4>1. ~Changing(t, ch)
        BY <2>1, <3>3 DEF Changing
      <4> QED BY <1>3, <2>1, <3>3, <4>1
    <3> QED BY <2>6, <3>1, <3>2, <3>3 DEF WriteFails
  <2>7. CASE ch # call[t].ch
    <3>1. fw'[ch] = fw[ch] /\ ch \notin bypassed /\ ~Changing(t, ch)
      BY <1>0, <1>8, <2>7 DEF Write, WriteDropped, WriteFails, Behind, TypeOK, Changing
    <3> QED BY <1>1, <1>2, <2>1, <3>1
  <2> QED BY <1>8, <2>4, <2>5, <2>6, <2>7
<1>9. ASSUME Update(t) PROVE Current(ch)'
  <2>1. CASE ch = call[t].ch
    <3>1. cache'[ch] = EntryAfterSet(t, ch) /\ fw' = fw /\ payload[t] = fw[ch] /\ AsAsked(t)
      BY <1>0, <1>9, <2>1 DEF Update, SyncOf, TypeOK
    <3>2. StandsFor(EntryAfterSet(t, ch), fw[ch])
      BY <3>1 DEF StandsFor, EntryAfterSet, AsAsked
    <3> QED BY <1>2, <3>1, <3>2
  <2>2. CASE ch # call[t].ch
    <3>1. cache'[ch] = cache[ch] /\ fw' = fw /\ ch \in primed \ bypassed /\ ~Changing(t, ch)
      BY <1>0, <1>9, <2>2 DEF Update, TypeOK, Changing
    <3> QED BY <1>1, <1>2, <3>1
  <2> QED BY <2>1, <2>2
<1>10. ASSUME Load(t) \/ Magic(t) \/ Forget(t) PROVE Current(ch)'
  <2>1. pc[t] # "idle" /\ call[t] \in Calls[t]
    BY <1>0, <1>10, CallTypes DEF Load, Magic, Forget, ShapeOf
  <2>2. ch \notin primed' \/ ch \in bypassed'
    BY <1>0, <1>10, <2>1 DEF Load, Magic, Forget, Behind, EventsExcused, ShapeOf
  <2> QED BY <2>2
<1>11. ASSUME Return(t) \/ ResetFails(t) PROVE Current(ch)'
  <2>1. ~Changing(t, ch) /\ UNCHANGED <<fw, cache, primed, bypassed>>
    BY <1>0, <1>11 DEF Return, ResetFails, Changing, ShapeOf
  <2> QED BY <1>3, <2>1
<1> QED
  BY <1>4, <1>5, <1>6, <1>7, <1>8, <1>9, <1>10, <1>11 DEF Step, Fault

\* A channel another thread is busy with.
LEMMA OthersInSync ==
  ASSUME Separate, CacheInv, NEW t \in Threads,
         Step(t) \/ Fault(t) \/ \E c \in Calls[t] : Call(t, c),
         NEW ch \in primed' \ bypassed', NEW s \in Threads \ {t}, pc[s] # "idle", call[s].ch = ch
  PROVE  Current(ch)'
<1>0. TypeOK /\ CallShape /\ TypeOK' /\ ch \in Channels
  BY TypesStep DEF CacheInv, TypeOK
<1>1. fw'[ch] = fw[ch] /\ cache'[ch] = cache[ch] /\ ch \in primed \ bypassed
  BY <1>0, OthersStay
<1>2. CASE StandsFor(cache[ch], fw[ch])
  BY <1>1, <1>2 DEF Current, StandsFor
<1>3. ASSUME NEW u \in Threads, Changing(u, ch) PROVE Current(ch)'
  <2>1. u # t
    BY <1>0, <1>3, Own DEF Changing
  <2>2. pc'[u] = pc[u] /\ call'[u] = call[u]
    BY <1>0, <2>1, Frame
  <2> QED BY <1>3, <2>2 DEF Changing, Current
<1> QED BY <1>1, <1>2, <1>3 DEF CacheInv, CacheInSync, Current

\* What the locals of the calls say about the device.
LEMMA LocalsInSync ==
  ASSUME Separate, EventsExcused, CacheInv, NEW t \in Threads,
         Step(t) \/ Fault(t) \/ \E c \in Calls[t] : Call(t, c),
         NEW s \in Threads
  PROVE  SyncOf(s)'
<1> USE DEF shared, local, Goto
<1>0. /\ TypeOK /\ CallShape /\ ShapeOf(t) /\ SyncOf(t) /\ SyncOf(s)
      /\ \A u \in Threads : pc[u] # "idle" => call[u].ch \in Channels
  BY CallTypes DEF CacheInv, CacheInSync, CallShape, ShapeOf, WellFormed
<1>1. CASE s # t
  <2>1. /\ pc'[s] = pc[s] /\ call'[s] = call[s] /\ args'[s] = args[s]
        /\ blob'[s] = blob[s] /\ payload'[s] = payload[s]
    BY <1>0, <1>1, Frame
  <2>2. pc[s] # "idle" => /\ fw'[call[s].ch] = fw[call[s].ch]
                          /\ call[s].ch \in bypassed' <=> call[s].ch \in bypassed
    BY <1>0, <1>1, OthersStay
  <2> QED BY <1>0, <2>1, <2>2 DEF SyncOf, AsAsked
<1>2. ASSUME pc'[t] \notin {"store", "write", "update"} PROVE SyncOf(t)'
  BY <1>2 DEF SyncOf
<1>3. ASSUME NEW c \in Calls[t], Call(t, c) PROVE SyncOf(t)'
  <2>1. WellFormed(c)
    BY CallAssumption DEF CallAssumption
  <2>2. pc'[t] = FirstPc(c.op) /\ call'[t] = c
    BY <1>0, <1>3 DEF Call, TypeOK
  <2>3. FirstPc(c.op) \notin {"store", "update"} /\ (FirstPc(c.op) = "write" => c.op = "full")
    BY <2>1 DEF FirstPc, WellFormed, Wrappers
  <2> QED BY <2>2, <2>3 DEF SyncOf
<1>4. ASSUME Read(t) PROVE SyncOf(t)'
  <2>1. pc'[t] \in {"read", "store"} /\ blob'[t] = fw[call[t].ch] /\ fw' = fw /\ call' = call
    BY <1>0, <1>4 DEF Read, TypeOK
  <2> QED BY <2>1 DEF SyncOf
<1>5. ASSUME Compose(t) PROVE SyncOf(t)'
  <2>1. /\ pc'[t] = "write" /\ UNCHANGED args
        /\ payload'[t] = WireRecord(args[t], EffectiveSubidx(call[t].ch),
                                    EffectivePolar(call[t].ch, args[t].polar))
    BY <1>0, <1>5 DEF Compose, TypeOK
  <2> QED BY <2>1 DEF SyncOf, AsAsked, WireRecord
<1>6. ASSUME Write(t) PROVE SyncOf(t)'
  <2>1. /\ pc[t] = "write" /\ pc'[t] = AfterWrite(call[t].op) /\ fw'[call[t].ch] = payload[t]
        /\ UNCHANGED <<call, args, payload>>
    BY <1>0, <1>6 DEF Write, TypeOK
  <2>2. CASE call[t].op = "full"
    BY <1>2, <2>1, <2>2 DEF AfterWrite
  <2>3. CASE call[t].op # "full"
    BY <1>0, <2>1, <2>3 DEF AfterWrite, SyncOf, AsAsked
  <2> QED BY <2>2, <2>3
<1>9. ASSUME WriteDropped(t) PROVE SyncOf(t)'
  <2>1. /\ pc[t] = "write" /\ pc'[t] = "update" /\ call[t].op # "full"
        /\ call[t].ch \in bypassed' /\ UNCHANGED <<call, args, payload>>
    BY <1>0, <1>9 DEF WriteDropped, AfterWrite, Behind, EventsExcused, TypeOK
  <2> QED BY <1>0, <2>1 DEF SyncOf, AsAsked
<1>7. ASSUME Prime(t) \/ Store(t) \/ ReadUnusable(t) PROVE SyncOf(t)'
  <2>1. pc'[t] \in {"read", After("wrapper"), After("setter"), After("get")}
    BY <1>0, <1>7 DEF Prime, Store, ReadUnusable, TypeOK
  <2> QED BY <1>2, <2>1 DEF After
<1>8. ASSUME Pick(t) \/ Update(t) \/ Load(t) \/ Magic(t) \/ Forget(t) \/ Return(t)
             \/ WriteFails(t) \/ ResetFails(t)
      PROVE  SyncOf(t)'
  <2>1. pc'[t] \in {"prime", "return", "forget", "idle"}
    BY <1>0, <1>8 DEF Pick, Update, Load, Magic, Forget, Return, WriteFails, ResetFails, TypeOK
  <2> QED BY <1>2, <2>1
<1> QED BY <1>1, <1>3, <1>4, <1>5, <1>6, <1>7, <1>8, <1>9 DEF Step, Fault

LEMMA CacheStep ==
  ASSUME Separate, EventsExcused, CacheInv, [Next]_vars
  PROVE  CacheInv'
<1>1. CASE UNCHANGED vars
  BY <1>1 DEF vars, CacheInv, TypeOK, CallShape, ShapeOf, CacheInSync, Current, StandsFor,
     Changing, SyncOf, AsAsked
<1>2. ASSUME NEW t \in Threads, Step(t) \/ Fault(t) \/ \E c \in Calls[t] : Call(t, c)
      PROVE  CacheInv'
  <2>1. TypeOK' /\ CallShape'
    BY <1>2, TypesStep DEF CacheInv
  <2>2. \A ch \in primed' \ bypassed' : Current(ch)'
    <3> TAKE ch \in primed' \ bypassed'
    <3>1. CASE \E s \in Threads \ {t} : pc[s] # "idle" /\ call[s].ch = ch
      BY <1>2, <3>1, OthersInSync
    <3>2. CASE ~\E s \in Threads \ {t} : pc[s] # "idle" /\ call[s].ch = ch
      BY <1>2, <3>2, MineInSync
    <3> QED BY <3>1, <3>2
  <2>3. \A s \in Threads : SyncOf(s)'
    BY <1>2, LocalsInSync
  <2> QED BY <2>1, <2>2, <2>3 DEF CacheInv, CacheInSync
<1> QED BY <1>1, <1>2 DEF Next

-----------------------------------------------------------------------------
(* Theorems *)

\* Every variable keeps its type, whatever the threads call and in any order.
THEOREM TypeCorrect == Spec => []TypeOK
<1>1. Init => TypeOK /\ CallShape
  BY InitTypes
<1>2. TypeOK /\ CallShape /\ [Next]_vars => (TypeOK /\ CallShape)'
  <2>1. ASSUME TypeOK, CallShape, UNCHANGED vars PROVE (TypeOK /\ CallShape)'
    BY <2>1 DEF vars, TypeOK, CallShape, ShapeOf
  <2> QED BY <2>1, TypesStep DEF Next
<1> QED BY <1>1, <1>2, PTL DEF Spec

\* _channel_cache_primed means what its comment says (device.py:1187) as long
\* as no two threads work on one channel, but for the events that are excused,
\* which are those that can happen: with none excused it means so strictly, and
\* then no write loses its acknowledgement or is dropped after it, and nobody
\* writes a full state or a template, loads a preset or resets the device.
THEOREM AuthorityKept ==
  ASSUME Separate, EventsExcused
  PROVE  Spec => []PrimedIsAuthoritative
<1>1. Init => CacheInv
  <2>1. ASSUME Init PROVE CacheInSync
    BY <2>1 DEF Init, CacheInSync, SyncOf
  <2> QED BY <2>1, InitTypes DEF CacheInv
<1>2. CacheInv /\ [Next]_vars => CacheInv'
  BY CacheStep
<1>3. CacheInv => PrimedIsAuthoritative
  BY DEF CacheInv, CacheInSync, Current, Changing, PrimedIsAuthoritative
<1> QED BY <1>1, <1>2, <1>3, PTL DEF Spec

-----------------------------------------------------------------------------
(* The speaker template *)

\* apply_speaker_template takes the device's record from a trusted entry.
LEMMA TemplatePicked ==
  ASSUME Separate, CacheInv, NEW t \in Threads, Pick(t), call[t].op = "template"
  PROVE  PlantedOf(t)'
<1> USE DEF CacheInv
<1> DEFINE ch == call[t].ch
<1>1. /\ pc[t] = "pick" /\ pc' = [pc EXCEPT ![t] = "prime"]
      /\ args' = [args EXCEPT ![t] = PickedArgs(call[t], cache[ch])]
      /\ cache' = [cache EXCEPT ![ch].subidx = call[t].val]
      /\ UNCHANGED <<fw, primed, bypassed, call>>
  BY DEF Pick, Goto
<1>2. call[t] \in Calls[t] /\ ch \in Channels
  BY <1>1, CallTypes DEF CallShape, ShapeOf, WellFormed
<1>3. ASSUME ch \in primed \ bypassed PROVE StandsFor(cache[ch], fw[ch])
  <2>1. \A s \in Threads : ~Changing(s, ch)
    BY <1>1, Own DEF Changing
  <2> QED BY <1>3, <2>1 DEF CacheInSync, Current
<1>4. args'[t] = PickedArgs(call[t], cache[ch]) /\ pc'[t] = "prime"
  BY <1>1 DEF TypeOK
<1>5. PickedArgs(call[t], cache[ch]) =
        [db |-> cache[ch].db, muted |-> cache[ch].muted, delay |-> cache[ch].delay, polar |-> cache[ch].polar]
  BY DEF PickedArgs
<1>6. cache'[ch].subidx = call[t].val
  BY <1>1, <1>2 DEF TypeOK, Entries
<1>7. ASSUME ch \in primed \ bypassed
      PROVE  /\ R!Clamped(args'[t].db) = fw[ch].db
             /\ args'[t].muted = fw[ch].muted /\ args'[t].polar = fw[ch].polar
             /\ args'[t].delay = fw[ch].delay
  BY <1>3, <1>4, <1>5, <1>7 DEF StandsFor
<1> QED BY <1>1, <1>4, <1>6, <1>7 DEF PlantedOf

\* ... and set_channel sends it with the role that was planted.
LEMMA TemplateComposed ==
  ASSUME CacheInv, NEW t \in Threads, PlantedOf(t), Compose(t), call[t].op = "template"
  PROVE  PlantedOf(t)'
<1> USE DEF CacheInv
<1> DEFINE ch == call[t].ch
<1>1. /\ pc[t] = "compose" /\ pc'[t] = "write"
      /\ payload'[t] = WireRecord(args[t], EffectiveSubidx(ch), EffectivePolar(ch, args[t].polar))
      /\ UNCHANGED <<fw, cache, primed, bypassed, call, args, attempts>>
  BY DEF Compose, Goto, shared, TypeOK
<1>2. /\ call[t].val \in Subidxs /\ ch \in Channels
  BY <1>1, CallTypes DEF CallShape, ShapeOf, WellFormed
<1>3. ASSUME attempts[t] = 0, ch \in primed \ bypassed
      PROVE  /\ EffectiveSubidx(ch) = R!Role(ch, call[t].val)
             /\ EffectivePolar(ch, args[t].polar) = args[t].polar
  <2>1. cache[ch].subidx = call[t].val /\ args[t].polar = fw[ch].polar
    BY <1>1, <1>3 DEF PlantedOf
  <2>2. fw[ch].polar \in BOOLEAN
    BY <1>2 DEF TypeOK, R!Records
  <2> QED BY <1>2, <2>1, <2>2, CacheAssumption
          DEF CacheAssumption, EffectiveSubidx, EffectivePolar, R!Role
<1> QED BY <1>1, <1>3 DEF PlantedOf

\* Every step of any thread keeps what a template's locals say.
LEMMA PlantedStep ==
  ASSUME Separate, CacheInv, Planted, NEW t \in Threads,
         Step(t) \/ Fault(t) \/ \E c \in Calls[t] : Call(t, c), NEW s \in Threads
  PROVE  PlantedOf(s)'
<1> USE DEF CacheInv
<1>1. CASE s # t
  <2>1. /\ pc'[s] = pc[s] /\ call'[s] = call[s] /\ args'[s] = args[s]
        /\ attempts'[s] = attempts[s] /\ payload'[s] = payload[s]
    BY <1>1, Frame
  <2>2. ASSUME pc[s] # "idle"
        PROVE  /\ fw'[call[s].ch] = fw[call[s].ch] /\ cache'[call[s].ch] = cache[call[s].ch]
               /\ call[s].ch \in primed' <=> call[s].ch \in primed
               /\ call[s].ch \in bypassed' <=> call[s].ch \in bypassed
    <3>1. call[s].ch \in Channels
      BY <2>2, CallTypes DEF CallShape, ShapeOf, WellFormed
    <3> QED BY <1>1, <2>2, <3>1, OthersStay
  <2>3. PlantedOf(s)
    BY DEF Planted
  <2> QED BY <2>1, <2>2, <2>3 DEF PlantedOf
<1>2. CASE s = t
  <2> SUFFICES ASSUME pc'[t] # "idle", call'[t].op = "template" PROVE PlantedOf(t)'
    BY <1>2 DEF PlantedOf
  <2> USE DEF shared, local, Goto
  <2>1. PlantedOf(t) /\ ShapeOf(t)
    BY DEF Planted, CallShape
  <2>2. ASSUME NEW c \in Calls[t], Call(t, c) PROVE PlantedOf(t)'
    <3>1. pc'[t] = FirstPc(c.op) /\ call'[t] = c
      BY <2>2 DEF Call, TypeOK
    <3>2. pc'[t] = "pick"
      BY <3>1 DEF FirstPc, Wrappers
    <3> QED BY <3>2 DEF PlantedOf
  <2>3. CASE Prime(t) \/ Read(t) \/ Store(t) \/ ReadUnusable(t)
    <3>1. call' = call /\ call[t].op = "template" /\ pc[t] # "idle" /\ stage[t] = "setter"
      BY <2>1, <2>3 DEF Prime, Read, Store, ReadUnusable, ShapeOf, Wrappers, TypeOK
    <3>2. After(stage[t]) = "compose"
      BY <3>1 DEF After
    <3>3. CASE Prime(t)
      BY <2>1, <3>1, <3>2, <3>3 DEF Prime, MustRead, PlantedOf, TypeOK
    <3>4. CASE Read(t)
      <4>1. /\ pc[t] = "read" /\ pc'[t] \in {"read", "store"} /\ attempts'[t] = attempts[t] + 1
            /\ primed' = primed
        BY <3>4 DEF Read, TypeOK
      <4>2. attempts[t] \in Nat
        BY CacheAssumption DEF TypeOK, CacheAssumption
      <4> QED BY <2>1, <3>1, <4>1, <4>2 DEF PlantedOf
    <3>5. CASE Store(t)
      BY <2>1, <3>1, <3>2, <3>5 DEF Store, PlantedOf, TypeOK
    <3>6. CASE ReadUnusable(t)
      BY <2>1, <3>1, <3>2, <3>6 DEF ReadUnusable, PlantedOf, TypeOK
    <3> QED BY <2>3, <3>3, <3>4, <3>5, <3>6
  <2>4. CASE Pick(t)
    BY <2>4, TemplatePicked DEF Pick
  <2>5. CASE Compose(t)
    BY <2>1, <2>5, TemplateComposed DEF Compose
  <2>6. CASE Write(t) \/ WriteDropped(t) \/ WriteFails(t) \/ Update(t) \/ Load(t) \/ Magic(t) \/ Forget(t)
             \/ Return(t) \/ ResetFails(t)
    <3>1. pc'[t] \in {"update", "return", "idle", "forget"}
      BY <2>6 DEF Write, WriteDropped, WriteFails, Update, Load, Magic, Forget, Return, ResetFails, AfterWrite, TypeOK
    <3> QED BY <3>1 DEF PlantedOf
  <2> QED BY <2>2, <2>3, <2>4, <2>5, <2>6 DEF Step, Fault
<1> QED BY <1>1, <1>2

\* A template's write that changes the device changes the role only.
LEMMA TemplateWritten ==
  ASSUME CacheInv, Planted, Next, NEW t \in Threads,
         Writes(t), call[t].op = "template", Trusted(t)
  PROVE  fw'[call[t].ch] = [fw[call[t].ch] EXCEPT !.subidx = R!Role(call[t].ch, call[t].val)]
<1> USE DEF CacheInv, Writes
<1> DEFINE ch == call[t].ch
<1>1. PICK u \in Threads : Step(u) \/ Fault(u) \/ \E c \in Calls[u] : Call(u, c)
  BY DEF Next
<1>2. u = t
  BY <1>1, Frame
<1>3. Write(t) \/ (WriteFails(t) /\ fw' = [fw EXCEPT ![ch] = payload[t]])
  BY <1>1, <1>2 DEF Step, Fault, Call, Prime, Read, Store, Pick, Compose, Update, Load, Magic, Forget,
     Return, ReadUnusable, WriteDropped, WriteFails, ResetFails, Goto, TypeOK
<1>4. ch \in Channels
  BY CallTypes DEF CallShape, ShapeOf, WellFormed
<1>5. fw'[ch] = payload[t]
  BY <1>3, <1>4 DEF Write, TypeOK
<1>6. /\ payload[t] = WireRecord(args[t], R!Role(ch, call[t].val), args[t].polar)
      /\ R!Clamped(args[t].db) = fw[ch].db
      /\ args[t].muted = fw[ch].muted /\ args[t].polar = fw[ch].polar /\ args[t].delay = fw[ch].delay
  BY DEF Planted, PlantedOf, Trusted
<1>7. fw[ch] \in R!Records
  BY <1>4 DEF TypeOK
<1> QED BY <1>5, <1>6, <1>7 DEF WireRecord, R!Records

\* apply_speaker_template: a template whose channel has an authoritative entry
\* gives it the role the caller named (the table's for "none") and nothing else,
\* as long as no two threads work on one channel; a write that is dropped or
\* fails changes nothing.
THEOREM TemplateApplies ==
  ASSUME Separate, EventsExcused
  PROVE  Spec => TrustedTemplateApplies
<1>1. Init => CacheInv /\ Planted
  <2>1. ASSUME Init PROVE CacheInSync /\ Planted
    BY <2>1 DEF Init, CacheInSync, SyncOf, Planted, PlantedOf
  <2> QED BY <2>1, InitTypes DEF CacheInv
<1>2. CacheInv /\ Planted /\ [Next]_vars => (CacheInv /\ Planted)'
  <2>1. ASSUME CacheInv, Planted, UNCHANGED vars PROVE Planted'
    BY <2>1 DEF vars, Planted, PlantedOf
  <2>2. ASSUME CacheInv, Planted, Next PROVE Planted'
    <3>1. \A s \in Threads : PlantedOf(s)'
      BY <2>2, PlantedStep DEF Next
    <3> QED BY <3>1 DEF Planted
  <2> QED BY <2>1, <2>2, CacheStep
<1>3. CacheInv /\ Planted /\ [Next]_vars => [OnlyTheRoleChanges]_vars
  <2> SUFFICES ASSUME CacheInv, Planted, Next PROVE OnlyTheRoleChanges
    OBVIOUS
  <2> QED BY TemplateWritten DEF OnlyTheRoleChanges
<1> QED BY <1>1, <1>2, <1>3, PTL DEF Spec, TrustedTemplateApplies

-----------------------------------------------------------------------------
(* What the setters do to the device *)

\* Only gets and the setters are called: the other actions never happen.
LEMMA OnlySetters ==
  ASSUME Preserving, TypeOK, CallShape, NEW t \in Threads
  PROVE  /\ pc[t] # "idle" => call[t].op \in Wrappers \cup {"get", "set"}
         /\ ~Load(t) /\ ~Magic(t) /\ ~Forget(t) /\ ~ReadUnusable(t) /\ ~WriteDropped(t)
         /\ ~ResetFails(t)
         /\ WriteFails(t) => fw' = fw
<1>1. pc[t] # "idle" => call[t].op \in Wrappers \cup {"get", "set"}
  BY CallTypes DEF Preserving, CallShape, ShapeOf
<1> QED
  BY <1>1 DEF Preserving, CallShape, ShapeOf, Wrappers, Load, Magic, Forget, ReadUnusable,
     WriteDropped, ResetFails, WriteFails

\* No event has to be excused.
LEMMA NothingToExcuse == Preserving => EventsExcused
  BY DEF Preserving, EventsExcused, Wrappers

\* Nothing happens that an entry could be excused for.
LEMMA NothingBypassed ==
  ASSUME Preserving, TypeOK, CallShape, bypassed = {}, NEW t \in Threads,
         Step(t) \/ Fault(t) \/ \E c \in Calls[t] : Call(t, c)
  PROVE  bypassed' = {}
<1>1. pc[t] = "write" => call[t].op \notin {"full", "template"}
  BY OnlySetters DEF Wrappers
<1>2. "acklost" \notin Faults
  BY DEF Preserving
<1> QED
  BY <1>1, <1>2, OnlySetters DEF Step, Fault, Call, shared, Prime, Read, Store, StoreEntry, Pick,
     Compose, Write, WriteFails, Update, Return

\* Where a call takes its arguments from the cache, the entry stands for the
\* device's record.
LEMMA EntryStands ==
  ASSUME Separate, Preserving, CacheInv, ArgsFollow, NEW t \in Threads,
         pc[t] \in {"pick", "compose", "write"}
  PROVE  StandsFor(cache[call[t].ch], fw[call[t].ch])
<1>1. call[t].ch \in primed /\ Current(call[t].ch)
  BY DEF ArgsFollow, FollowsOf, CacheInv, CacheInSync
<1>2. ASSUME NEW u \in Threads, Changing(u, call[t].ch) PROVE FALSE
  <2>1. CASE u = t
    <3>1. call[t].op # "template"
      BY OnlySetters DEF CacheInv, Wrappers
    <3> QED BY <1>2, <2>1, <3>1 DEF Changing
  <2>2. CASE u # t
    BY <1>2, <2>2, Own DEF Changing, CacheInv
  <2> QED BY <2>1, <2>2
<1> QED BY <1>1, <1>2 DEF Current

LEMMA FollowsStep ==
  ASSUME Separate, Preserving, CacheInv, ArgsFollow, NEW t \in Threads,
         Step(t) \/ Fault(t) \/ \E c \in Calls[t] : Call(t, c),
         NEW s \in Threads
  PROVE  FollowsOf(s)'
<1> USE DEF shared, local, Goto
<1>0. /\ TypeOK /\ CallShape /\ ShapeOf(t) /\ FollowsOf(t) /\ FollowsOf(s) /\ TypeOK'
      /\ \A u \in Threads : pc[u] # "idle" =>
           call[u].ch \in Channels /\ call[u].op \in Wrappers \cup {"get", "set"}
  BY TypesStep, OnlySetters, CallTypes DEF CacheInv, ArgsFollow, CallShape, ShapeOf, WellFormed
<1>1. CASE s # t
  <2>1. /\ pc'[s] = pc[s] /\ call'[s] = call[s] /\ args'[s] = args[s]
        /\ stage'[s] = stage[s] /\ payload'[s] = payload[s]
    BY <1>0, <1>1, Frame
  <2>2. pc[s] # "idle" => cache'[call[s].ch] = cache[call[s].ch]
                          /\ (call[s].ch \in primed' <=> call[s].ch \in primed)
    BY <1>0, <1>1, OthersStay
  <2> QED BY <1>0, <2>1, <2>2 DEF FollowsOf, EffectiveSubidx, EffectivePolar
<1>2. ASSUME pc'[t] \in {"update", "return"}, UNCHANGED <<call, stage>> PROVE FollowsOf(t)'
  BY <1>0, <1>2 DEF FollowsOf
<1>3. ASSUME NEW c \in Calls[t], Call(t, c) PROVE FollowsOf(t)'
  <2>1. c.op \in Wrappers \cup {"get", "set"}
    BY DEF Preserving
  <2>2. pc'[t] = FirstPc(c.op) /\ call'[t] = c /\ stage'[t] = FirstStage(c.op)
        /\ (c.op = "set" => args'[t] = c.val)
    BY <1>0, <1>3 DEF Call, TypeOK
  <2>3. /\ FirstPc(c.op) \in {"prime", "read"}
        /\ FirstStage(c.op) = "setter" => c.op = "set"
    BY <2>1 DEF FirstPc, FirstStage, Wrappers
  <2> QED BY <2>2, <2>3 DEF FollowsOf
<1>4. ASSUME Prime(t) PROVE FollowsOf(t)'
  <2>1. /\ pc[t] = "prime" /\ stage[t] \in {"wrapper", "setter"}
        /\ UNCHANGED <<call, stage, args, payload, cache, primed>>
        /\ pc'[t] = (IF call[t].ch \notin primed THEN "read" ELSE After(stage[t]))
    BY <1>0, <1>4 DEF Prime, MustRead, TypeOK, ShapeOf
  <2>2. CASE call[t].ch \notin primed
    BY <1>0, <2>1, <2>2 DEF FollowsOf
  <2>3. CASE call[t].ch \in primed /\ stage[t] = "wrapper"
    <3>1. pc'[t] = "pick" /\ stage'[t] # "setter" /\ call'[t].op # "set"
      BY <1>0, <2>1, <2>3 DEF After, ShapeOf, Wrappers
    <3> QED BY <2>1, <2>3, <3>1 DEF FollowsOf
  <2>4. CASE call[t].ch \in primed /\ stage[t] = "setter"
    <3>1. pc'[t] = "compose"
      BY <2>1, <2>4 DEF After
    <3> QED BY <1>0, <2>1, <2>4, <3>1 DEF FollowsOf
  <2> QED BY <2>1, <2>2, <2>3, <2>4
<1>5. ASSUME Read(t) PROVE FollowsOf(t)'
  <2>1. pc[t] = "read" /\ pc'[t] \in {"read", "store"} /\ UNCHANGED <<call, stage, args, payload>>
    BY <1>0, <1>5 DEF Read, TypeOK
  <2> QED BY <1>0, <2>1 DEF FollowsOf
<1>6. ASSUME Store(t) PROVE FollowsOf(t)'
  <2>1. /\ pc[t] = "store" /\ pc'[t] = After(stage[t]) /\ UNCHANGED <<call, stage, args, payload>>
        /\ stage[t] \in {"wrapper", "setter", "get"} /\ call[t].ch \in primed'
    BY <1>0, <1>6 DEF Store, StoreEntry, TypeOK
  <2>2. stage[t] = "wrapper" => call[t].op # "set"
    BY <1>0, <2>1 DEF ShapeOf, Wrappers
  <2>3. stage[t] = "setter" => call[t].op = "set"
    BY <1>0, <2>1 DEF FollowsOf
  <2>4. CASE stage[t] = "wrapper"
    BY <2>1, <2>2, <2>4 DEF FollowsOf, After
  <2>5. CASE stage[t] = "setter"
    BY <1>0, <2>1, <2>3, <2>5 DEF FollowsOf, After
  <2>6. CASE stage[t] = "get"
    BY <2>1, <2>6 DEF FollowsOf, After
  <2> QED BY <2>1, <2>4, <2>5, <2>6
<1>7. ASSUME Pick(t) PROVE FollowsOf(t)'
  <2>1. /\ pc[t] = "pick" /\ call[t].op \in Wrappers /\ UNCHANGED <<call, cache, primed>>
        /\ pc'[t] = "prime" /\ stage'[t] = "setter"
        /\ args'[t] = PickedArgs(call[t], cache[call[t].ch])
    BY <1>0, <1>7 DEF Pick, TypeOK, ShapeOf, SingleField, Wrappers
  <2>2. call[t].op \notin {"get", "set"} /\ call[t].ch \in primed
    BY <1>0, <2>1 DEF Wrappers, FollowsOf
  <2> QED BY <2>1, <2>2 DEF FollowsOf
<1>8. ASSUME Compose(t) PROVE FollowsOf(t)'
  <2>1. /\ pc[t] = "compose" /\ pc'[t] = "write" /\ UNCHANGED <<call, stage, args, cache, primed>>
        /\ payload'[t] = WireRecord(args[t], EffectiveSubidx(call[t].ch),
                                    EffectivePolar(call[t].ch, args[t].polar))
    BY <1>0, <1>8 DEF Compose, TypeOK
  <2> QED BY <1>0, <2>1 DEF FollowsOf, EffectiveSubidx, EffectivePolar
<1>9. ASSUME Write(t) PROVE FollowsOf(t)'
  <2>1. pc'[t] \in {"update", "return"} /\ UNCHANGED <<call, stage>>
    BY <1>0, <1>9 DEF Write, AfterWrite, TypeOK
  <2> QED BY <1>2, <2>1
<1>10. ASSUME Update(t) \/ WriteFails(t) PROVE FollowsOf(t)'
  <2>1. pc'[t] = "return" /\ UNCHANGED <<call, stage>>
    BY <1>0, <1>10 DEF Update, WriteFails, TypeOK
  <2> QED BY <1>2, <2>1
<1>11. ASSUME Return(t) PROVE FollowsOf(t)'
  <2>1. pc'[t] = "idle" /\ stage'[t] = "get"
    BY <1>0, <1>11 DEF Return, TypeOK
  <2> QED BY <2>1 DEF FollowsOf
<1> QED
  BY <1>0, <1>1, <1>3, <1>4, <1>5, <1>6, <1>7, <1>8, <1>9, <1>10, <1>11, OnlySetters DEF Step, Fault

LEMMA RegisterInv ==
  ASSUME Separate, Preserving
  PROVE  Spec => [](CacheInv /\ ArgsFollow)
<1>1. Init => CacheInv /\ ArgsFollow
  <2>1. ASSUME Init PROVE CacheInSync /\ ArgsFollow
    BY <2>1 DEF Init, CacheInSync, SyncOf, ArgsFollow, FollowsOf
  <2> QED BY <2>1, InitTypes DEF CacheInv
<1>2. CacheInv /\ ArgsFollow /\ [Next]_vars => (CacheInv /\ ArgsFollow)'
  <2>1. ASSUME CacheInv, ArgsFollow, UNCHANGED vars PROVE (CacheInv /\ ArgsFollow)'
    <3>1. CacheInv'
      BY <2>1, CacheStep, NothingToExcuse
    <3>2. ArgsFollow'
      BY <2>1 DEF vars, ArgsFollow, FollowsOf, Current, StandsFor, Changing, EffectiveSubidx,
         EffectivePolar
    <3> QED BY <3>1, <3>2
  <2>2. ASSUME CacheInv, ArgsFollow, NEW t \in Threads,
               Step(t) \/ Fault(t) \/ \E c \in Calls[t] : Call(t, c)
        PROVE  (CacheInv /\ ArgsFollow)'
    <3>1. CacheInv'
      BY <2>2, CacheStep, NothingToExcuse DEF Next
    <3>2. bypassed' = {}
      BY <2>2, NothingBypassed DEF CacheInv, ArgsFollow
    <3>3. \A s \in Threads : FollowsOf(s)'
      BY <2>2, FollowsStep
    <3> QED BY <3>1, <3>2, <3>3 DEF ArgsFollow
  <2> QED BY <2>1, <2>2 DEF Next
<1> QED BY <1>1, <1>2, PTL DEF Spec

\* The record a setter sends, in terms of the one it replaces.
LEMMA WriteLands ==
  ASSUME Separate, Preserving, CacheInv, ArgsFollow, NEW t \in Threads, Write(t)
  PROVE  LET c == call[t]
             old == fw[c.ch]
             sent == payload[t]
         IN  /\ c \in Calls[t] /\ WellFormed(c) /\ c.op \in Wrappers \cup {"set"}
             /\ fw' = [fw EXCEPT ![c.ch] = sent]
             /\ old \in R!Records
             /\ sent = [db |-> sent.db, muted |-> sent.muted, polar |-> sent.polar,
                        delay |-> sent.delay, subidx |-> sent.subidx]
             /\ sent.subidx = R!Role(c.ch, old.subidx)
             /\ sent.db = (IF c.op = "volume" THEN R!Clamped(c.val)
                           ELSE IF c.op = "set" THEN R!Clamped(c.val.db) ELSE old.db)
             /\ sent.muted = (IF c.op = "mute" THEN c.val
                              ELSE IF c.op = "set" THEN c.val.muted ELSE old.muted)
             /\ sent.delay = (IF c.op = "set" THEN c.val.delay ELSE old.delay)
             /\ sent.polar = (IF c.op = "polar" THEN c.val
                              ELSE IF c.op = "set" /\ c.val.polar # Keep THEN c.val.polar
                              ELSE old.polar)
<1> DEFINE c == call[t]
<1> DEFINE e == cache[c.ch]
<1>1. /\ pc[t] = "write" /\ c \in Calls[t] /\ WellFormed(c) /\ c.op \in Wrappers \cup {"get", "set"}
      /\ c.ch \in Channels /\ fw' = [fw EXCEPT ![c.ch] = payload[t]] /\ TypeOK /\ FollowsOf(t)
      /\ fw[c.ch] \in R!Records /\ e \in Entries
  BY OnlySetters, CallTypes DEF Write, CacheInv, CallShape, ShapeOf, WellFormed, ArgsFollow, TypeOK
<1>2. /\ StandsFor(e, fw[c.ch]) /\ c.op \in Wrappers \cup {"set"}
      /\ c.op # "set" => args[t] = PickedArgs(c, e)
      /\ c.op = "set" => args[t] = c.val
      /\ payload[t] = WireRecord(args[t], R!Role(c.ch, e.subidx), EffectivePolar(c.ch, args[t].polar))
  BY <1>1, EntryStands DEF FollowsOf, EffectiveSubidx, Wrappers
<1>3. c.op \in {"mute", "polar"} => c.val \in BOOLEAN /\ c.val # Keep
  BY <1>1, CacheAssumption DEF CacheAssumption, WellFormed
<1>4. payload[t] = [db |-> R!Clamped(args[t].db), muted |-> args[t].muted,
                    polar |-> EffectivePolar(c.ch, args[t].polar), delay |-> args[t].delay,
                    subidx |-> R!Role(c.ch, fw[c.ch].subidx)]
  BY <1>2 DEF WireRecord, StandsFor
<1>5. CASE c.op = "volume"
  <2>1. args[t] = [db |-> c.val, muted |-> e.muted, delay |-> e.delay, polar |-> Keep]
    BY <1>2, <1>5 DEF PickedArgs
  <2> QED BY <1>1, <1>2, <1>4, <1>5, <2>1 DEF EffectivePolar, StandsFor
<1>6. CASE c.op = "mute"
  <2>1. args[t] = [db |-> e.db, muted |-> c.val, delay |-> e.delay, polar |-> Keep]
    BY <1>2, <1>6 DEF PickedArgs
  <2> QED BY <1>1, <1>2, <1>4, <1>6, <2>1 DEF EffectivePolar, StandsFor
<1>7. CASE c.op = "polar"
  <2>1. args[t] = [db |-> e.db, muted |-> e.muted, delay |-> e.delay, polar |-> c.val]
    BY <1>2, <1>7 DEF PickedArgs
  <2> QED BY <1>1, <1>2, <1>3, <1>4, <1>7, <2>1 DEF EffectivePolar, StandsFor
<1>8. CASE c.op = "set"
  BY <1>1, <1>2, <1>4, <1>8 DEF EffectivePolar, StandsFor
<1> QED BY <1>2, <1>5, <1>6, <1>7, <1>8 DEF Wrappers

\* The only steps that change the device are the setters' writes.
LEMMA OnlyWrites ==
  ASSUME Separate, Preserving, CacheInv, ArgsFollow, NEW t \in Threads,
         Step(t) \/ Fault(t) \/ \E c \in Calls[t] : Call(t, c)
  PROVE  Write(t) \/ fw' = fw
BY OnlySetters DEF CacheInv, shared, Step, Fault, Call, Prime, Read, Store, Pick, Compose, Update,
   Return, WriteFails

LEMMA OnlyTheField ==
  ASSUME Separate, Preserving, CacheInv, ArgsFollow, [Next]_vars
  PROVE  OnlyTheFieldChanges
<1> SUFFICES ASSUME NEW s \in Threads, Writes(s), call[s].op \in SingleField,
                    NEW f \in DOMAIN fw[call[s].ch] \ {FieldOf(call[s].op)}
             PROVE  fw'[call[s].ch][f] = IF f = "subidx" THEN R!Role(call[s].ch, fw[call[s].ch][f])
                                         ELSE fw[call[s].ch][f]
  BY DEF OnlyTheFieldChanges
<1>1. PICK t \in Threads : Step(t) \/ Fault(t) \/ \E c \in Calls[t] : Call(t, c)
  BY DEF Writes, vars, Next
<1>2. t = s
  BY <1>1, Frame DEF Writes, CacheInv
<1>3. Write(s)
  BY <1>1, <1>2, OnlyWrites DEF Writes
<1>4. call[s].op \in Wrappers
  BY <1>3, OnlySetters DEF CacheInv, Write, SingleField, Wrappers
<1>5. fw'[call[s].ch] = payload[s] /\ call[s].ch \in Channels
  BY <1>3, WriteLands DEF CacheInv, TypeOK, WellFormed
<1>6. f \in {"db", "muted", "polar", "delay", "subidx"}
  BY <1>3, WriteLands DEF R!Records
<1>7. CASE call[s].op = "volume"
  BY <1>3, <1>5, <1>6, <1>7, WriteLands DEF FieldOf
<1>8. CASE call[s].op = "mute"
  BY <1>3, <1>5, <1>6, <1>8, WriteLands DEF FieldOf
<1>9. CASE call[s].op = "polar"
  BY <1>3, <1>5, <1>6, <1>9, WriteLands DEF FieldOf
<1> QED BY <1>4, <1>7, <1>8, <1>9 DEF Wrappers

\* What ChannelRegister's updates leave in a record.
LEMMA Updated ==
  ASSUME NEW n, NEW a, NEW b, NEW c, NEW e, NEW s,
         n = [db |-> a, muted |-> b, polar |-> c, delay |-> e, subidx |-> s],
         NEW d, NEW m, NEW p, NEW l, NEW r
  PROVE  /\ [n EXCEPT !.db = d]
              = [db |-> d, muted |-> b, polar |-> c, delay |-> e, subidx |-> s]
         /\ [n EXCEPT !.muted = m]
              = [db |-> a, muted |-> m, polar |-> c, delay |-> e, subidx |-> s]
         /\ [n EXCEPT !.polar = p]
              = [db |-> a, muted |-> b, polar |-> p, delay |-> e, subidx |-> s]
         /\ [n EXCEPT !.delay = l]
              = [db |-> a, muted |-> b, polar |-> c, delay |-> l, subidx |-> s]
         /\ [n EXCEPT !.subidx = r]
              = [db |-> a, muted |-> b, polar |-> c, delay |-> e, subidx |-> r]
  OBVIOUS

\* A write of `sent' is ChannelRegister's Set of `new'.
LEMMA SentIsSet ==
  ASSUME NEW ch, NEW new, NEW sent, NEW s,
         new = [db |-> sent.db, muted |-> sent.muted, polar |-> sent.polar,
                delay |-> sent.delay, subidx |-> s],
         sent = [db |-> sent.db, muted |-> sent.muted, polar |-> sent.polar,
                 delay |-> sent.delay, subidx |-> R!Role(ch, s)],
         fw' = [fw EXCEPT ![ch] = sent]
  PROVE  R!Set(ch, new)
<1>1. new.subidx = s
  OBVIOUS
<1>2. [new EXCEPT !.subidx = R!Role(ch, s)] = sent
  BY Updated
<1> QED BY <1>1, <1>2 DEF R!Set

\* A setter's write is what ChannelRegister promises of the call that is made.
LEMMA WriteIsEffect ==
  ASSUME Separate, Preserving, CacheInv, ArgsFollow, NEW t \in Threads, Write(t)
  PROVE  R!Effect(call[t])
<1> DEFINE c == call[t]
<1> DEFINE old == fw[c.ch]
<1> DEFINE sent == payload[t]
<1>1. /\ WellFormed(c) /\ c.ch \in Channels /\ c.op \in Wrappers \cup {"set"}
      /\ fw' = [fw EXCEPT ![c.ch] = sent] /\ old \in R!Records
  BY WriteLands DEF WellFormed
<1>2. sent = [db |-> sent.db, muted |-> sent.muted, polar |-> sent.polar,
              delay |-> sent.delay, subidx |-> R!Role(c.ch, old.subidx)]
  BY WriteLands
<1>3. old = [db |-> old.db, muted |-> old.muted, polar |-> old.polar, delay |-> old.delay,
             subidx |-> old.subidx]
  BY <1>1 DEF R!Records
<1>4. ASSUME NEW new, new = [db |-> sent.db, muted |-> sent.muted, polar |-> sent.polar,
                            delay |-> sent.delay, subidx |-> old.subidx]
      PROVE  R!Set(c.ch, new)
  BY <1>1, <1>2, <1>4, SentIsSet
<1>5. CASE c.op = "volume"
  <2> DEFINE new == [old EXCEPT !.db = R!Clamped(c.val)]
  <2>1. /\ sent.db = R!Clamped(c.val) /\ sent.muted = old.muted /\ sent.polar = old.polar
        /\ sent.delay = old.delay
    BY <1>5, WriteLands
  <2>2. new = [db |-> sent.db, muted |-> sent.muted, polar |-> sent.polar,
               delay |-> sent.delay, subidx |-> old.subidx]
    BY <1>3, <2>1, Updated
  <2>3. R!Set(c.ch, new)
    BY <1>4, <2>2
  <2>4. R!Volume(c.ch, c.val)
    BY <2>3 DEF R!Volume
  <2> QED BY <1>5, <2>4 DEF R!Effect
<1>6. CASE c.op = "mute"
  <2> DEFINE new == [old EXCEPT !.muted = c.val]
  <2>1. /\ sent.db = old.db /\ sent.muted = c.val /\ sent.polar = old.polar
        /\ sent.delay = old.delay
    BY <1>6, WriteLands
  <2>2. new = [db |-> sent.db, muted |-> sent.muted, polar |-> sent.polar,
               delay |-> sent.delay, subidx |-> old.subidx]
    BY <1>3, <2>1, Updated
  <2>3. R!Set(c.ch, new)
    BY <1>4, <2>2
  <2>4. R!Mute(c.ch, c.val)
    BY <2>3 DEF R!Mute
  <2> QED BY <1>6, <2>4 DEF R!Effect
<1>7. CASE c.op = "polar"
  <2> DEFINE new == [old EXCEPT !.polar = c.val]
  <2>1. /\ sent.db = old.db /\ sent.muted = old.muted /\ sent.polar = c.val
        /\ sent.delay = old.delay
    BY <1>7, WriteLands
  <2>2. new = [db |-> sent.db, muted |-> sent.muted, polar |-> sent.polar,
               delay |-> sent.delay, subidx |-> old.subidx]
    BY <1>3, <2>1, Updated
  <2>3. R!Set(c.ch, new)
    BY <1>4, <2>2
  <2>4. R!Polar(c.ch, c.val)
    BY <2>3 DEF R!Polar
  <2> QED BY <1>7, <2>4 DEF R!Effect
<1>8. CASE c.op = "set"
  <2> DEFINE new1 == [old EXCEPT !.db = R!Clamped(c.val.db)]
  <2> DEFINE new2 == [new1 EXCEPT !.muted = c.val.muted]
  <2> DEFINE new3 == [new2 EXCEPT !.delay = c.val.delay]
  <2> DEFINE phase == IF c.val.polar = Keep THEN old.polar ELSE c.val.polar
  <2> DEFINE new == [new3 EXCEPT !.polar = phase]
  <2>1. /\ sent.db = R!Clamped(c.val.db) /\ sent.muted = c.val.muted
        /\ sent.delay = c.val.delay /\ sent.polar = phase
    BY <1>8, WriteLands
  <2>2. new3 = [db |-> sent.db, muted |-> sent.muted, polar |-> old.polar,
                delay |-> sent.delay, subidx |-> old.subidx]
    <3>1. new1 = [db |-> sent.db, muted |-> old.muted, polar |-> old.polar,
                  delay |-> old.delay, subidx |-> old.subidx]
      BY <1>3, <2>1, Updated
    <3>2. new2 = [db |-> sent.db, muted |-> sent.muted, polar |-> old.polar,
                  delay |-> old.delay, subidx |-> old.subidx]
      <4> HIDE DEF new1
      <4> QED BY <3>1, <2>1, Updated
    <3> HIDE DEF new2
    <3> QED BY <3>2, <2>1, Updated
  <2>3. new = [db |-> sent.db, muted |-> sent.muted, polar |-> sent.polar,
               delay |-> sent.delay, subidx |-> old.subidx]
    <3> HIDE DEF new3, phase
    <3> QED BY <2>1, <2>2, Updated
  <2>4. R!Set(c.ch, new)
    BY <1>4, <2>3
  <2>5. new3.polar = old.polar
    <3> HIDE DEF new3
    <3> QED BY <2>2
  <2>6. R!Basic(c.ch, c.val)
    BY <2>4, <2>5 DEF R!Basic
  <2> QED BY <1>8, <2>6 DEF R!Effect
<1> QED BY <1>1, <1>5, <1>6, <1>7, <1>8 DEF Wrappers

\* A step changes the pending call of its own thread at most.
LEMMA PendingOfOne ==
  ASSUME TypeOK, NEW t \in Threads,
         Step(t) \/ Fault(t) \/ \E c \in Calls[t] : Call(t, c)
  PROVE  Pending' = [Pending EXCEPT ![t] = Pending'[t]]
<1>1. ASSUME NEW u \in Threads, u # t PROVE Pending'[u] = Pending[u]
  BY <1>1, Frame DEF Pending
<1> QED BY <1>1 DEF Pending

\* Every step is one of the register's: a write serves the pending call, a call
\* that returns without one ends it, the others leave both as they are.
LEMMA RegisterStep ==
  ASSUME Separate, Preserving, CacheInv, ArgsFollow, NEW t \in Threads,
         Step(t) \/ Fault(t) \/ \E c \in Calls[t] : Call(t, c)
  PROVE  R!RegisterNext \/ UNCHANGED <<fw, Pending>>
<1> USE DEF shared, local, Goto
<1>0. /\ TypeOK /\ ShapeOf(t)
      /\ Pending[t] = IF pc[t] \in {"idle", "update", "return"} THEN NoCall ELSE call[t]
      /\ Pending'[t] = IF pc'[t] \in {"idle", "update", "return"} THEN NoCall ELSE call'[t]
      /\ Pending' = [Pending EXCEPT ![t] = Pending'[t]]
  BY PendingOfOne DEF CacheInv, CallShape, Pending
<1>1. ASSUME Pending'[t] = Pending[t], fw' = fw PROVE UNCHANGED <<fw, Pending>>
  BY <1>0, <1>1 DEF Pending
<1>2. ASSUME NEW c \in Calls[t], Call(t, c) PROVE R!RegisterNext
  <2>1. Pending[t] = NoCall /\ fw' = fw
    BY <1>0, <1>2 DEF Call
  <2>2. Pending'[t] = c
    <3>1. WellFormed(c)
      BY CallAssumption DEF CallAssumption
    <3>2. FirstPc(c.op) \notin {"idle", "update", "return"}
      BY <3>1 DEF FirstPc, WellFormed
    <3>3. pc'[t] = FirstPc(c.op) /\ call'[t] = c
      BY <1>0, <1>2 DEF Call, TypeOK
    <3> QED BY <1>0, <3>2, <3>3
  <2>3. R!Ask(t)
    BY <1>0, <2>1, <2>2 DEF R!Ask
  <2> QED BY <2>3 DEF R!RegisterNext
<1>3. ASSUME Write(t) PROVE R!RegisterNext
  <2>1. pc[t] = "write" /\ pc'[t] \in {"update", "return"} /\ call[t] # NoCall
    BY <1>0, <1>3 DEF Write, AfterWrite, TypeOK, ShapeOf
  <2>2. Pending[t] = call[t] /\ Pending'[t] = NoCall
    BY <1>0, <2>1
  <2>3. R!Serve(t)
    BY <1>0, <1>3, <2>1, <2>2, WriteIsEffect DEF R!Serve
  <2> QED BY <2>3 DEF R!RegisterNext
<1>4. ASSUME call' = call, fw' = fw, pc[t] \notin {"idle", "update", "return"}
      PROVE  R!RegisterNext \/ UNCHANGED <<fw, Pending>>
  <2>1. CASE pc'[t] \in {"idle", "update", "return"}
    <3>1. R!End(t)
      BY <1>0, <1>4, <2>1 DEF R!End, ShapeOf
    <3> QED BY <3>1 DEF R!RegisterNext
  <2>2. CASE pc'[t] \notin {"idle", "update", "return"}
    BY <1>0, <1>1, <1>4, <2>2
  <2> QED BY <2>1, <2>2
<1>5. ASSUME Prime(t) \/ Read(t) \/ Store(t) \/ Pick(t) \/ Compose(t) \/ WriteFails(t)
      PROVE  R!RegisterNext \/ UNCHANGED <<fw, Pending>>
  <2>1. call' = call /\ fw' = fw /\ pc[t] \in {"prime", "read", "store", "pick", "compose", "write"}
    BY <1>0, <1>5, OnlySetters DEF CacheInv, Prime, Read, Store, Pick, Compose, WriteFails
  <2> QED BY <1>4, <2>1
<1>6. ASSUME Update(t) \/ Return(t) PROVE UNCHANGED <<fw, Pending>>
  <2>1. fw' = fw /\ pc[t] \in {"update", "return"} /\ pc'[t] \in {"return", "idle"}
    BY <1>0, <1>6 DEF Update, Return, TypeOK
  <2> QED BY <1>0, <1>1, <2>1
<1> QED BY <1>2, <1>3, <1>5, <1>6, OnlySetters DEF CacheInv, Step, Fault

\* "Partial updates preserve everything they don't touch" (device.py:1355):
\* on a channel that is one thread's, a volume, mute or phase call changes its
\* field of the device's record and nothing else, failed writes included.
THEOREM FieldsPreserved ==
  ASSUME Separate, Preserving
  PROVE  Spec => PartialUpdatesPreserve
<1>1. CacheInv /\ ArgsFollow /\ [Next]_vars => [OnlyTheFieldChanges]_vars
  BY OnlyTheField
<1> QED BY <1>1, RegisterInv, PTL DEF Spec, PartialUpdatesPreserve

\* The cached read-modify-write calls implement a plain register per channel:
\* seen from the device, every call is one atomic change of its own fields, or
\* none.
THEOREM CacheImplementsRegister ==
  ASSUME Separate, Preserving
  PROVE  Spec => ImplementsRegister
<1>1. Init => R!RegisterInit
  BY CallAssumption DEF CallAssumption, Init, R!RegisterInit, Pending
<1>2. CacheInv /\ ArgsFollow /\ [Next]_vars => [R!RegisterNext]_<<fw, Pending>>
  <2>1. ASSUME UNCHANGED vars PROVE UNCHANGED <<fw, Pending>>
    BY <2>1 DEF vars, Pending
  <2> QED BY <2>1, RegisterStep DEF Next
<1> QED BY <1>1, <1>2, RegisterInv, PTL DEF Spec, ImplementsRegister, R!RegisterSpec
=============================================================================
