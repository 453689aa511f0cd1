------------------------ MODULE RoutingMirrorProofs ------------------------
(***************************************************************************)
(* Proofs about RoutingMirror for every matrix size, every range of levels *)
(* and every failure.  Types hold whenever commands come; the rest is      *)
(* about commands that wait for the initial state, that is ~Early.         *)
(***************************************************************************)
EXTENDS RoutingMirror, SequenceTheorems, TLAPS

-----------------------------------------------------------------------------
(* Types *)

\* The locals are reset to values of their types.
LEMMA Defaults ==
  AnyCell \in Cells /\ AnyOp \in Ops /\ AnyOp.level = 0 /\ AllOff \in [Inputs -> 0..MaxLevel]
<1>1. \E c \in Cells : TRUE
  <2>1. PICK o \in Outputs, i \in Inputs : TRUE
    BY MirrorAssumption DEF MirrorAssumption
  <2>2. <<o, i>> \in Cells
    BY DEF Cells
  <2> QED BY <2>2
<1>2. \E op \in Switch : TRUE
  BY DEF Switch
<1>3. AnyCell \in Cells /\ AnyOp \in Switch
  BY <1>1, <1>2 DEF AnyCell, AnyOp
<1> QED
  BY <1>3, MirrorAssumption DEF MirrorAssumption, Switch, Ops, AllOff

\* What a thread's locals hold once it has published or given up.
LEMMA SettleTypes ==
  ASSUME TypeInv, NEW t \in Threads, Settle(t)
  PROVE  /\ pc' = [pc EXCEPT ![t] = IF t = "worker" THEN "next" ELSE "idle"]
         /\ cell' \in [Threads -> Cells]
         /\ level' \in [Threads -> 0..MaxLevel]
         /\ cmd' \in Ops /\ InRange(cmd'.level)
         /\ row' \in [Inputs -> 0..MaxLevel]
<1> USE Defaults DEF TypeInv
<1>0. MaxLevel \in Nat
  BY MirrorAssumption DEF MirrorAssumption
<1>1. /\ pc' = [pc EXCEPT ![t] = IF t = "worker" THEN "next" ELSE "idle"]
      /\ cell' = [cell EXCEPT ![t] = AnyCell] /\ level' = [level EXCEPT ![t] = 0]
  BY DEF Settle, Goto
<1>3. cell' \in [Threads -> Cells] /\ level' \in [Threads -> 0..MaxLevel]
  <2>1. cell \in [Threads -> Cells] /\ level \in [Threads -> 0..MaxLevel] /\ 0 \in 0..MaxLevel
    BY <1>0 DEF TypeOK
  <2> QED BY <1>1, <2>1
<1>2. cmd' \in Ops /\ InRange(cmd'.level) /\ row' \in [Inputs -> 0..MaxLevel]
  <2>1. CASE t = "paho"
    BY <1>0, <2>1 DEF Settle, InRange
  <2>2. CASE t # "paho"
    BY <2>2 DEF Settle, serving, ThreadShape, TypeOK
  <2> QED BY <2>1, <2>2
<1> QED BY <1>1, <1>2, <1>3

\* __init__ establishes the types.
LEMMA InitTypes == Init => TypeInv
<1> SUFFICES ASSUME Init PROVE TypeInv
  OBVIOUS
<1> USE MirrorAssumption, Defaults DEF Init, MirrorAssumption, Threads
<1>1. fw \in Matrices /\ retained \in [Cells -> 0..MaxLevel \cup {NoMirror}]
  BY DEF Matrices
<1>2. /\ pc \in [Threads -> {"lookup", "idle"}]
      /\ cell \in [Threads -> Cells] /\ level \in [Threads -> 0..MaxLevel]
  OBVIOUS
<1>3. TypeOK
  BY <1>1, <1>2 DEF TypeOK
<1>4. ThreadShape
  BY DEF ThreadShape, InRange
<1> QED BY <1>3, <1>4 DEF TypeInv

\* _routing_state_init, in either thread.
LEMMA MirrorTypes ==
  ASSUME TypeInv, NEW t \in Threads, Lookup(t) \/ Create(t)
  PROVE  TypeInv'
<1> USE MirrorAssumption DEF MirrorAssumption, TypeInv, Threads
<1>1. Zero \in Matrices
  BY DEF Zero, Matrices
<1>2. /\ mirror' \in Matrices \cup {NoMirror}
      /\ \E where \in {"create", AfterInit(t)} :
           /\ pc' = [pc EXCEPT ![t] = where]
           /\ where # "create" => mirror' # NoMirror
      /\ mirror # NoMirror => mirror' # NoMirror
      /\ pc[t] \in {"lookup", "create"}
      /\ UNCHANGED <<fw, retained, initial, cell, level, serving, suspect>>
  BY <1>1 DEF Lookup, Create, Goto, TypeOK, Matrices
<1>3. TypeOK'
  <2>1. AfterInit(t) \in {"read", "set"}
    BY DEF AfterInit
  <2>2. pc' \in [Threads -> {"lookup", "create", "read", "seed", "next", "publish", "done",
                             "idle", "set", "pick", "write"}]
    <3>1. pc \in [Threads -> {"lookup", "create", "read", "seed", "next", "publish", "done",
                             "idle", "set", "pick", "write"}]
      BY DEF TypeOK
    <3> HIDE DEF TypeInv, Threads
    <3>2. PICK where \in {"create", "read", "set"} : pc' = [pc EXCEPT ![t] = where]
      BY <1>2, <2>1
    <3> QED BY <3>1, <3>2
  <2> QED BY <1>2, <2>2 DEF TypeOK, initial, serving
<1>4. ThreadShape'
  BY <1>2 DEF ThreadShape, TypeOK, AfterInit, initial, serving
<1> QED BY <1>3, <1>4

\* publish_initial_cached_state.
LEMMA WorkerTypes ==
  ASSUME TypeInv,
         ReadRow \/ Seed \/ ReadFails \/ SkipInitial \/ Refreshed \/ NextCell \/ AllSent
  PROVE  TypeInv'
<1> USE MirrorAssumption DEF MirrorAssumption, TypeInv, Threads
<1>0. pc["worker"] \in {"read", "seed", "next"}
  BY DEF ReadRow, Seed, ReadFails, SkipInitial, Refreshed, NextCell, AllSent
<1>1. mirror \in Matrices
  BY <1>0 DEF ThreadShape, TypeOK
<1>2. CASE ReadRow
  <2>1. todo # <<>> /\ Head(todo) \in Outputs
    BY <1>2, HeadTailProperties DEF ReadRow, TypeOK
  <2>2. TypeOK'
    BY <1>2, <2>1 DEF ReadRow, Goto, serving, TypeOK, Matrices
  <2>3. ThreadShape'
    BY <1>2, <2>1 DEF ReadRow, Goto, serving, TypeOK, ThreadShape
  <2> QED BY <2>2, <2>3
<1>3. CASE Seed
  <2>1. Tail(todo) \in Seq(Outputs) /\ Head(todo) \in Outputs
    BY <1>3, HeadTailProperties DEF Seed, ThreadShape, TypeOK
  <2>2. mirror' \in Matrices
    BY <1>1, <1>3, <2>1 DEF Seed, TypeOK, Matrices
  <2>3. TypeOK'
    BY <1>3, <2>1, <2>2, Defaults DEF Seed, Goto, serving, TypeOK
  <2>4. ThreadShape'
    BY <1>3, <2>2 DEF Seed, Goto, serving, TypeOK, ThreadShape, Matrices
  <2> QED BY <2>3, <2>4
<1>4. CASE ReadFails
  <2>1. Tail(todo) \in Seq(Outputs) /\ Head(todo) \in Outputs
    BY <1>4, HeadTailProperties DEF ReadFails, TypeOK
  <2>2. TypeOK'
    BY <1>4, <2>1 DEF ReadFails, serving, TypeOK
  <2>3. ThreadShape'
    BY <1>4 DEF ReadFails, serving, ThreadShape
  <2> QED BY <2>2, <2>3
<1>5. CASE NextCell
  <2>1. PICK c \in unsent :
          /\ unsent' = unsent \ {c}
          /\ cell' = [cell EXCEPT !["worker"] = c]
          /\ level' = [level EXCEPT !["worker"] = mirror[c[1]][c[2]]]
    BY <1>5 DEF NextCell
  <2>2. c \in Cells /\ c[1] \in Outputs /\ c[2] \in Inputs
    BY DEF TypeOK, Cells
  <2>3. mirror[c[1]][c[2]] \in 0..MaxLevel
    BY <1>1, <2>2 DEF Matrices
  <2>4. TypeOK'
    <3>1. cell' \in [Threads -> Cells] /\ level' \in [Threads -> 0..MaxLevel]
      BY <2>1, <2>2, <2>3 DEF TypeOK
    <3>2. unsent' \in SUBSET Cells
      BY <2>1 DEF TypeOK
    <3> QED BY <1>5, <3>1, <3>2 DEF NextCell, Goto, serving, TypeOK
  <2>5. ThreadShape'
    BY <1>5 DEF NextCell, Goto, serving, TypeOK, ThreadShape
  <2> QED BY <2>4, <2>5
<1>6. CASE SkipInitial \/ Refreshed \/ AllSent
  <2>1. /\ \E where \in {"done", "next"} : pc' = [pc EXCEPT !["worker"] = where]
        /\ suspect' \in SUBSET Outputs /\ unsent' \in SUBSET Cells
        /\ UNCHANGED <<fw, mirror, retained, todo, seed, cell, level, cmd, row>>
    BY <1>6 DEF SkipInitial, Refreshed, AllSent, Goto, initial, serving, TypeOK
  <2>2. TypeOK'
    <3>1. pc' \in [Threads -> {"lookup", "create", "read", "seed", "next", "publish", "done",
                              "idle", "set", "pick", "write"}]
      <4>1. pc \in [Threads -> {"lookup", "create", "read", "seed", "next", "publish", "done",
                               "idle", "set", "pick", "write"}]
        BY DEF TypeOK
      <4> HIDE DEF TypeInv, Threads
      <4>2. PICK where \in {"done", "next"} : pc' = [pc EXCEPT !["worker"] = where]
        BY <2>1
      <4> QED BY <4>1, <4>2
    <3> QED BY <2>1, <3>1 DEF TypeOK
  <2>3. ThreadShape'
    BY <1>0, <2>1 DEF TypeOK, ThreadShape
  <2> QED BY <2>2, <2>3
<1> QED BY <1>2, <1>3, <1>4, <1>5, <1>6

\* _handle_route and _handle_route_level.
LEMMA HandlerTypes ==
  ASSUME TypeInv,
         \/ \E c \in Asked, op \in Ops : Command(c, op)
         \/ SetMirror \/ PickRow \/ WriteRow \/ WriteFails
  PROVE  TypeInv'
<1> USE MirrorAssumption DEF MirrorAssumption, TypeInv, Threads
<1> DEFINE o == cell["paho"][1]
           i == cell["paho"][2]
<1>0. o \in Outputs /\ i \in Inputs
  BY DEF TypeOK, Cells
<1>1. ASSUME NEW c \in Asked, NEW op \in Ops, Command(c, op) PROVE TypeInv'
  <2>1. c \in Cells
    BY DEF Cells
  <2>2. TypeOK'
    BY <1>1, <2>1 DEF Command, Goto, initial, TypeOK
  <2>3. ThreadShape'
    BY <1>1 DEF Command, Goto, initial, TypeOK, ThreadShape
  <2> QED BY <2>2, <2>3
<1>2. CASE SetMirror
  <2>0. pc["paho"] = "set"
    BY <1>2 DEF SetMirror
  <2>1. mirror \in Matrices /\ mirror[o][i] \in 0..MaxLevel
    <3>1. mirror # NoMirror
      BY <2>0 DEF ThreadShape
    <3>2. mirror \in Matrices
      BY <3>1 DEF TypeOK
    <3> QED BY <1>0, <3>2 DEF Matrices
  <2>2. NewLevel(mirror[o][i], cmd) \in 0..MaxLevel
    BY <2>1 DEF NewLevel, ThreadShape, InRange, TypeOK, Ops, Switch
  <2>3. mirror' \in Matrices
    BY <1>0, <1>2, <2>1, <2>2 DEF SetMirror, Matrices
  <2>4. TypeOK'
    BY <1>2, <2>2, <2>3 DEF SetMirror, Goto, initial, serving, TypeOK
  <2>5. ThreadShape'
    BY <1>2, <2>3 DEF SetMirror, Goto, initial, serving, TypeOK, ThreadShape, Matrices
  <2> QED BY <2>4, <2>5
<1>3. CASE PickRow
  <2>1. mirror \in Matrices /\ mirror[o] \in [Inputs -> 0..MaxLevel]
    BY <1>0, <1>3 DEF PickRow, ThreadShape, TypeOK, Matrices
  <2>2. TypeOK'
    BY <1>3, <2>1 DEF PickRow, Goto, initial, TypeOK
  <2>3. ThreadShape'
    BY <1>3 DEF PickRow, Goto, initial, TypeOK, ThreadShape
  <2> QED BY <2>2, <2>3
<1>4. CASE WriteRow
  <2>1. fw' \in Matrices
    BY <1>0, <1>4 DEF WriteRow, TypeOK, Matrices
  <2>2. TypeOK'
    BY <1>4, <2>1 DEF WriteRow, Goto, initial, serving, TypeOK
  <2>3. ThreadShape'
    BY <1>4 DEF WriteRow, Goto, initial, serving, TypeOK, ThreadShape
  <2> QED BY <2>2, <2>3
<1>5. CASE WriteFails
  <2>1. fw' \in Matrices
    BY <1>0, <1>5 DEF WriteFails, TypeOK, Matrices
  <2>2. cell["paho"][1] \in Outputs
    BY DEF TypeOK, Cells
  <2>4. suspect' \subseteq Outputs /\ UNCHANGED <<mirror, retained, todo, seed, unsent>>
    BY <1>5, <2>2 DEF WriteFails, initial, TypeOK
  <2>5. pc' = [pc EXCEPT !["paho"] = "idle"]
    BY <1>5, SettleTypes DEF WriteFails
  <2>6. pc' \in [Threads -> {"lookup", "create", "read", "seed", "next", "publish", "done",
                             "idle", "set", "pick", "write"}]
    BY <2>5 DEF TypeOK
  <2>7. /\ cell' \in [Threads -> Cells] /\ level' \in [Threads -> 0..MaxLevel]
        /\ cmd' \in Ops /\ row' \in [Inputs -> 0..MaxLevel]
    BY <1>5, SettleTypes DEF WriteFails
  <2>8. TypeOK'
    BY <2>1, <2>4, <2>6, <2>7 DEF TypeOK
  <2>3. ThreadShape'
    BY <1>5, SettleTypes DEF WriteFails, initial, TypeOK, ThreadShape
  <2> QED BY <2>3, <2>8
<1> QED BY <1>1, <1>2, <1>3, <1>4, <1>5

\* _publish_routing_cell, in either thread.
LEMMA PublishTypes ==
  ASSUME TypeInv, NEW t \in Threads, PublishCell(t)
  PROVE  TypeInv'
<1> USE MirrorAssumption DEF MirrorAssumption, TypeInv, Threads
<1>1. retained' \in [Cells -> 0..MaxLevel \cup {NoMirror}]
  BY DEF PublishCell, TypeOK
<1>2. TypeOK'
  <2>1. pc' \in [Threads -> {"lookup", "create", "read", "seed", "next", "publish", "done",
                             "idle", "set", "pick", "write"}]
    <3>1. pc \in [Threads -> {"lookup", "create", "read", "seed", "next", "publish", "done",
                             "idle", "set", "pick", "write"}]
      BY DEF TypeOK
    <3>2. pc' = [pc EXCEPT ![t] = IF t = "worker" THEN "next" ELSE "idle"]
      BY SettleTypes DEF PublishCell
    <3> QED BY <3>1, <3>2
  <2> QED BY <1>1, <2>1, SettleTypes DEF PublishCell, initial, TypeOK
<1>3. ThreadShape'
  BY SettleTypes DEF PublishCell, initial, TypeOK, ThreadShape
<1> QED BY <1>2, <1>3

\* Somebody else changes a row.
LEMMA PanelTypes ==
  ASSUME TypeInv, NEW o \in Outputs, Panel(o)
  PROVE  TypeInv'
<1> USE MirrorAssumption DEF MirrorAssumption, TypeInv
<1>1. PICK m \in Boot : fw' = [fw EXCEPT ![o] = m[o]]
  BY DEF Panel
<1>2. fw' \in Matrices
  <2>1. fw \in Matrices /\ m[o] \in [Inputs -> 0..MaxLevel]
    BY DEF TypeOK
  <2> QED BY <1>1, <2>1 DEF Matrices
<1>3. suspect' \subseteq Outputs
  BY DEF Panel, TypeOK
<1>4. UNCHANGED <<mirror, retained, pc, todo, seed, unsent, cell, level, cmd, row>>
  BY DEF Panel, initial, serving
<1> QED BY <1>2, <1>3, <1>4 DEF TypeOK, ThreadShape, InRange

LEMMA StutterTypes == TypeInv /\ UNCHANGED vars => TypeInv'
  BY DEF TypeInv, TypeOK, ThreadShape, InRange, vars, initial, serving

\* Every step keeps the types.
LEMMA NextTypes == TypeInv /\ [Next]_vars => TypeInv'
  BY MirrorTypes, WorkerTypes, HandlerTypes, PublishTypes, PanelTypes, StutterTypes DEF Next

\* The mirror, the device's matrix and the locals stay in their domains,
\* whenever commands come (_routing_state_init, _handle_route_level's range).
THEOREM TypeCorrect == Spec => []TypeOK
<1>1. TypeInv => TypeOK
  BY DEF TypeInv
<1> QED
  BY InitTypes, NextTypes, <1>1, PTL DEF Spec
-----------------------------------------------------------------------------
(* Commands that wait for the initial state *)

\* __init__ establishes the invariant: no row was read, nothing published.
LEMMA InitMirror == Init => MirrorInv /\ NothingPublishedYet
<1> SUFFICES ASSUME Init PROVE MirrorInv /\ NothingPublishedYet
  OBVIOUS
<1>1. TypeInv
  BY InitTypes
<1>2. TakesTurns /\ MirrorFollows /\ LocalsFollow /\ AckedBeforePublished
  BY DEF Init, Threads, TakesTurns, MirrorFollows, LocalsFollow, AckedBeforePublished
<1>3. RetainedFollow
  <2>1. \A o \in Outputs, i \in Inputs : retained[<<o, i>>] = NoMirror
    BY DEF Init, Cells
  <2> QED BY <2>1 DEF RetainedFollow
<1>4. NothingPublishedYet
  BY DEF Init, NothingPublishedYet
<1> QED BY <1>1, <1>2, <1>3, <1>4 DEF MirrorInv

\* While a command is served nothing waits to be read: the mirror is the
\* device's matrix, up to the command, wherever no failure came before.
LEMMA Serving ==
  ASSUME MirrorInv, pc["paho"] # "idle"
  PROVE  /\ pc["worker"] = "done" /\ mirror # NoMirror /\ mirror \in Matrices
         /\ \A o \in Outputs \ suspect : mirror[o] = Coming(o)
<1> USE DEF MirrorInv, TypeInv
<1>1. pc["worker"] = "done"
  BY DEF TakesTurns
<1>2. mirror # NoMirror /\ mirror \in Matrices
  BY <1>1 DEF ThreadShape, TypeOK, Threads
<1>3. ASSUME NEW o \in Outputs \ suspect PROVE mirror[o] = Coming(o)
  <2>1. todo = <<>>
    BY <1>1 DEF MirrorFollows
  <2>2. ~Waiting(o)
    BY <2>1 DEF Waiting
  <2> QED BY <1>1, <2>2 DEF MirrorFollows
<1> QED BY <1>1, <1>2, <1>3

\* While the initial state is read no command is served.
LEMMA Reading ==
  ASSUME MirrorInv, pc["worker"] # "done"
  PROVE  pc["paho"] = "idle" /\ \A o \in Outputs : Coming(o) = fw[o]
  BY DEF MirrorInv, TakesTurns, Coming

\* _routing_state_init, in either thread.
LEMMA MirrorCreated ==
  ASSUME MirrorInv, NEW t \in Threads, Lookup(t) \/ Create(t)
  PROVE  MirrorInv'
<1> USE DEF MirrorInv, Threads
<1>1. TypeInv'
  BY MirrorTypes
<1>2. CASE t = "worker"
  <2>1. pc["paho"] = "idle" /\ pc["worker"] \in {"lookup", "create"} /\ todo = Rows
    BY <1>2, Reading DEF Lookup, Create, MirrorFollows
  <2>2. /\ pc'["paho"] = "idle" /\ pc'["worker"] \in {"create", "read"}
        /\ UNCHANGED <<fw, retained, todo, suspect>>
    BY <1>2, <2>1 DEF Lookup, Create, Goto, AfterInit, initial, TypeInv, TypeOK
  <2>3. \A o \in Outputs : Waiting(o)'
    BY <2>1, <2>2, MirrorAssumption DEF MirrorAssumption, Waiting
  <2>4. TakesTurns' /\ MirrorFollows' /\ LocalsFollow' /\ AckedBeforePublished'
    BY <2>1, <2>2, <2>3 DEF TakesTurns, MirrorFollows, LocalsFollow, AckedBeforePublished
  <2>5. RetainedFollow'
    BY <2>1, <2>2 DEF RetainedFollow
  <2> QED BY <1>1, <2>4, <2>5
<1>3. CASE t = "paho"
  <2>1. Lookup(t) /\ pc["paho"] = "lookup" /\ pc["worker"] = "done" /\ mirror # NoMirror
    BY <1>3, Serving DEF Lookup, Create, TakesTurns
  <2>2. /\ pc' = [pc EXCEPT !["paho"] = "set"]
        /\ UNCHANGED <<fw, mirror, retained, todo, seed, cell, level, row, suspect>>
    BY <1>3, <2>1 DEF Lookup, Goto, AfterInit, initial, serving
  <2>3. pc'["paho"] = "set" /\ pc'["worker"] = "done"
    BY <2>1, <2>2 DEF TypeInv, TypeOK
  <2>4. TakesTurns' /\ LocalsFollow' /\ AckedBeforePublished' /\ RetainedFollow'
    BY <2>1, <2>2, <2>3 DEF TakesTurns, LocalsFollow, AckedBeforePublished, RetainedFollow
  <2>5. \A o \in Outputs : Coming(o)' = Coming(o) /\ Waiting(o)' = Waiting(o)
    BY <2>1, <2>2, <2>3 DEF Coming, Waiting
  <2>6. MirrorFollows'
    BY <2>1, <2>2, <2>3, <2>5 DEF MirrorFollows
  <2> QED BY <1>1, <2>4, <2>6
<1> QED BY <1>2, <1>3

\* publish_initial_cached_state.
LEMMA WorkerFollows ==
  ASSUME MirrorInv,
         ReadRow \/ Seed \/ ReadFails \/ SkipInitial \/ Refreshed \/ NextCell \/ AllSent
  PROVE  MirrorInv'
<1> USE DEF MirrorInv, TypeInv, Threads
<1>0. /\ pc["worker"] \in {"read", "seed", "next"} /\ pc["paho"] = "idle"
      /\ \A o \in Outputs : Coming(o) = fw[o]
      /\ mirror \in Matrices
  <2>1. pc["worker"] \in {"read", "seed", "next"}
    BY DEF ReadRow, Seed, ReadFails, SkipInitial, Refreshed, NextCell, AllSent
  <2> QED BY <2>1, Reading DEF ThreadShape, TypeOK
<1>1. TypeInv'
  BY WorkerTypes
<1>2. /\ pc'["paho"] = "idle"
      /\ UNCHANGED <<fw, retained>>
      /\ suspect \subseteq suspect'
  BY <1>0 DEF ReadRow, Seed, ReadFails, SkipInitial, Refreshed, NextCell, AllSent, Goto, TypeOK
<1>3. TakesTurns' /\ AckedBeforePublished' /\ \A o \in Outputs : Coming(o)' = fw'[o]
  BY <1>2 DEF TakesTurns, AckedBeforePublished, Coming
<1>4. RetainedFollow'
  BY <1>0, <1>2 DEF RetainedFollow
<1>5. CASE ReadRow
  <2>1. pc'["worker"] = "seed" /\ seed' = fw[Head(todo)]
        /\ UNCHANGED <<mirror, todo, suspect>> /\ pc["worker"] = "read"
    BY <1>5 DEF ReadRow, Goto, TypeOK
  <2>2. MirrorFollows' /\ LocalsFollow'
    BY <1>0, <1>2, <1>3, <2>1 DEF MirrorFollows, LocalsFollow, Waiting
  <2> QED BY <1>1, <1>3, <1>4, <2>2
<1>6. CASE Seed \/ ReadFails
  <2>1. /\ pc["worker"] \in {"read", "seed"} /\ pc'["worker"] = "read"
        /\ todo # <<>> /\ todo' = Tail(todo)
        /\ \/ /\ Seed /\ (Head(todo) \in suspect \/ seed = fw[Head(todo)])
              /\ mirror' = [mirror EXCEPT ![Head(todo)] = seed]
           \/ /\ ReadFails
              /\ mirror' = mirror /\ suspect' = suspect \cup {Head(todo)}
    <3>1. CASE Seed
      <4>1. /\ pc["worker"] = "seed" /\ todo' = Tail(todo)
            /\ mirror' = [mirror EXCEPT ![Head(todo)] = seed]
            /\ pc' = [pc EXCEPT !["worker"] = "read"]
        BY <3>1 DEF Seed, Goto
      <4>2. todo # <<>> /\ (Head(todo) \in suspect \/ seed = fw[Head(todo)])
        BY <4>1 DEF ThreadShape, LocalsFollow
      <4>3. pc'["worker"] = "read"
        BY <4>1 DEF TypeOK
      <4> QED BY <3>1, <4>1, <4>2, <4>3
    <3>2. CASE ReadFails
      BY <3>2 DEF ReadFails
    <3> QED BY <1>6, <3>1, <3>2
  <2>2. todo \in Seq(Outputs) /\ Head(todo) \in Outputs /\ Head(todo) = todo[1]
    BY <2>1, HeadTailProperties DEF TypeOK
  <2>3. ASSUME NEW o \in Outputs \ suspect' PROVE Waiting(o)' \/ mirror'[o] = fw[o]
    <3>1. Waiting(o) \/ mirror[o] = fw[o]
      BY <1>0, <1>2, <2>1 DEF MirrorFollows
    <3>2. CASE o = Head(todo)
      <4>1. o \notin suspect
        BY <1>2, <2>3
      <4> QED BY <1>0, <2>1, <2>2, <2>3, <3>2, <4>1 DEF Matrices
    <3>3. CASE o # Head(todo)
      <4>1. mirror'[o] = mirror[o]
        BY <1>0, <2>1, <2>2, <3>3 DEF Matrices
      <4>2. ASSUME Waiting(o) PROVE Waiting(o)'
        <5>1. PICK i \in 1..Len(todo) : todo[i] = o
          BY <4>2 DEF Waiting
        <5>2. i # 1 /\ Len(todo) \in Nat
          BY <2>2, <3>3, <5>1, LenProperties
        <5>3. Len(Tail(todo)) = Len(todo) - 1 /\ Tail(todo)[i - 1] = todo[i] /\ i - 1 \in 1..Len(Tail(todo))
          BY <2>1, <2>2, <5>1, <5>2, HeadTailProperties
        <5> QED BY <2>1, <5>1, <5>3 DEF Waiting
      <4> QED BY <3>1, <4>1, <4>2
    <3> QED BY <3>2, <3>3
  <2>4. MirrorFollows' /\ LocalsFollow'
    BY <1>2, <1>3, <2>1, <2>3 DEF MirrorFollows, LocalsFollow
  <2> QED BY <1>1, <1>3, <1>4, <2>4
<1>7. CASE SkipInitial \/ Refreshed
  <2>1. /\ pc["worker"] = "read" /\ pc'["worker"] \in {"next", "done"}
        /\ todo = <<>> \/ suspect' = Outputs
        /\ UNCHANGED <<mirror, todo>>
        /\ suspect' = Outputs \/ suspect' = suspect
    BY <1>7 DEF SkipInitial, Refreshed, Goto, initial, TypeOK
  <2>2. MirrorFollows' /\ LocalsFollow'
    BY <1>0, <1>2, <1>3, <2>1 DEF MirrorFollows, LocalsFollow, Waiting
  <2> QED BY <1>1, <1>3, <1>4, <2>2
<1>8. CASE NextCell
  <2>1. PICK c \in unsent : /\ cell' = [cell EXCEPT !["worker"] = c]
                            /\ level' = [level EXCEPT !["worker"] = mirror[c[1]][c[2]]]
    BY <1>8 DEF NextCell
  <2>2. /\ pc["worker"] = "next" /\ pc'["worker"] = "publish"
        /\ UNCHANGED <<mirror, todo, suspect>>
        /\ cell'["worker"] = c /\ level'["worker"] = mirror[c[1]][c[2]]
    BY <1>8, <2>1 DEF NextCell, Goto, TypeOK
  <2>3. c[1] \in Outputs
    BY DEF TypeOK, Cells
  <2>4. MirrorFollows'
    BY <1>0, <1>2, <1>3, <2>2 DEF MirrorFollows, Waiting
  <2>5. c[1] \in suspect \/ mirror[c[1]] = fw[c[1]]
    BY <1>0, <2>2, <2>3 DEF MirrorFollows, Waiting
  <2>6. LocalsFollow'
    BY <1>2, <2>2, <2>5 DEF LocalsFollow
  <2> QED BY <1>1, <1>3, <1>4, <2>4, <2>6
<1>9. CASE AllSent
  <2>1. pc["worker"] = "next" /\ pc'["worker"] = "done" /\ UNCHANGED <<mirror, todo, suspect>>
    BY <1>9 DEF AllSent, Goto, initial, TypeOK
  <2>2. MirrorFollows' /\ LocalsFollow'
    BY <1>0, <1>2, <1>3, <2>1 DEF MirrorFollows, LocalsFollow, Waiting
  <2> QED BY <1>1, <1>3, <1>4, <2>2
<1> QED BY <1>5, <1>6, <1>7, <1>8, <1>9

\* _handle_route and _handle_route_level, of a command that waited.
LEMMA HandlerFollows ==
  ASSUME ~Early, MirrorInv,
         \/ \E c \in Asked, op \in Ops : Command(c, op)
         \/ SetMirror \/ PickRow \/ WriteRow \/ WriteFails
  PROVE  MirrorInv'
<1> USE DEF MirrorInv, TypeInv, Threads
<1> DEFINE o == cell["paho"][1]
           i == cell["paho"][2]
<1>0. o \in Outputs /\ i \in Inputs /\ cell["paho"] = <<o, i>>
  BY DEF TypeOK, Cells
<1>1. TypeInv'
  BY HandlerTypes
<1>2. /\ pc["worker"] = "done" /\ pc'["worker"] = "done" /\ todo' = todo
      /\ suspect \subseteq suspect' /\ retained' = retained
      /\ suspect # Outputs => todo = <<>>
      /\ mirror # NoMirror /\ mirror \in Matrices
  <2>1. pc["worker"] = "done"
    BY Serving DEF Command, SetMirror, PickRow, WriteRow, WriteFails
  <2>2. /\ pc'["worker"] = "done" /\ todo' = todo /\ suspect \subseteq suspect'
        /\ retained' = retained
    BY <2>1 DEF Command, SetMirror, PickRow, WriteRow, WriteFails, Settle, Goto, initial, TypeOK
  <2> QED BY <2>1, <2>2 DEF MirrorFollows, ThreadShape, TypeOK
<1>3. \A x \in Outputs \ suspect : mirror[x] = Coming(x)
  <2>1. ASSUME NEW x \in Outputs \ suspect PROVE ~Waiting(x)
    BY <1>2 DEF Waiting, TypeOK
  <2> QED BY <1>2, <2>1 DEF MirrorFollows
<1>4. ASSUME TakesTurns', \A x \in Outputs \ suspect' : mirror'[x] = Coming(x)',
             LocalsFollow', RetainedFollow', AckedBeforePublished'
      PROVE  MirrorInv'
  <2>1. suspect' # Outputs => suspect # Outputs
    BY <1>1, <1>2 DEF TypeOK
  <2> QED BY <1>1, <1>2, <1>4, <2>1 DEF MirrorFollows
<1>5. ASSUME NEW c \in Asked, NEW op \in Ops, Command(c, op) PROVE MirrorInv'
  <2>1. /\ pc["paho"] = "idle" /\ pc'["paho"] = "lookup"
        /\ UNCHANGED <<fw, mirror, retained, suspect>>
    BY <1>5 DEF Command, Goto, TypeOK
  <2>2. \A x \in Outputs : Coming(x)' = Coming(x)
    BY <2>1 DEF Coming
  <2>3. LocalsFollow' /\ RetainedFollow' /\ AckedBeforePublished' /\ TakesTurns'
    BY <1>2, <2>1 DEF LocalsFollow, RetainedFollow, AckedBeforePublished, TakesTurns
  <2> QED BY <1>3, <1>4, <2>1, <2>2, <2>3
<1>6. CASE SetMirror
  <2> DEFINE new == NewLevel(mirror[o][i], cmd)
  <2>1. /\ pc["paho"] = "set" /\ pc'["paho"] = "pick"
        /\ mirror' = [mirror EXCEPT ![o][i] = new] /\ level'["paho"] = new
        /\ UNCHANGED <<fw, retained, cell, cmd, suspect>>
    BY <1>6 DEF SetMirror, Goto, serving, TypeOK
  <2>2. mirror'[o] = [mirror[o] EXCEPT ![i] = new] /\ mirror'[o][i] = new
    BY <1>0, <1>2, <2>1 DEF Matrices
  <2>3. ASSUME NEW x \in Outputs \ suspect' PROVE mirror'[x] = Coming(x)'
    <3>1. mirror[x] = fw[x]
      BY <1>3, <2>1 DEF Coming
    <3>2. CASE x = o
      BY <2>1, <2>2, <3>1, <3>2 DEF Coming
    <3>3. CASE x # o
      BY <1>0, <1>2, <2>1, <3>1, <3>3 DEF Coming, Matrices
    <3> QED BY <3>2, <3>3
  <2>4. o \in suspect \/ mirror[o][i] = fw[o][i]
    BY <1>0, <1>3, <2>1 DEF Coming
  <2>6. pc'["worker"] = "done" /\ pc'["paho"] = "pick" /\ cell' = cell
    BY <1>2, <2>1
  <2>7. new = NewLevel(mirror[o][i], cmd) /\ cmd' = cmd /\ fw' = fw
    BY <2>1
  <2>8. LocalsFollow'
    BY <2>1, <2>2, <2>4, <2>6, <2>7 DEF LocalsFollow, NewLevel
  <2>5. RetainedFollow' /\ AckedBeforePublished' /\ TakesTurns'
    BY <1>2, <2>1 DEF RetainedFollow, AckedBeforePublished, TakesTurns
  <2> QED BY <1>4, <2>1, <2>3, <2>5, <2>8
<1>7. CASE PickRow
  <2>1. /\ pc["paho"] = "pick" /\ pc'["paho"] = "write" /\ row' = mirror[o]
        /\ UNCHANGED <<fw, mirror, retained, cell, level, cmd, suspect>>
    BY <1>7 DEF PickRow, Goto, TypeOK
  <2>2. \A x \in Outputs : Coming(x)' = Coming(x)
    BY <2>1 DEF Coming
  <2>3. LocalsFollow' /\ RetainedFollow' /\ AckedBeforePublished' /\ TakesTurns'
    BY <1>2, <2>1 DEF LocalsFollow, RetainedFollow, AckedBeforePublished, TakesTurns, NewLevel
  <2> QED BY <1>3, <1>4, <2>1, <2>2, <2>3
<1>8. ASSUME WriteRow \/ WriteFails
      PROVE  /\ pc["paho"] = "write" /\ row = mirror[o] /\ row[i] = level["paho"]
             /\ o \notin suspect => row = [fw[o] EXCEPT ![i] = level["paho"]]
             /\ fw' \in {fw, [fw EXCEPT ![o] = row]}
             /\ mirror' = mirror
  <2>1. pc["paho"] = "write" /\ fw' \in {fw, [fw EXCEPT ![o] = row]} /\ mirror' = mirror
    BY <1>8 DEF WriteRow, WriteFails
  <2> QED BY <1>0, <1>3, <2>1 DEF LocalsFollow, Coming
<1>9. CASE WriteRow
  <2>1. /\ pc'["paho"] = "publish" /\ fw' = [fw EXCEPT ![o] = row]
        /\ UNCHANGED <<retained, cell, level, suspect>>
    BY <1>9 DEF WriteRow, Goto, serving, TypeOK
  <2>2. fw'[o] = row /\ \A x \in Outputs \ {o} : fw'[x] = fw[x]
    BY <1>0, <2>1 DEF TypeOK, Matrices
  <2>3. ASSUME NEW x \in Outputs \ suspect' PROVE mirror'[x] = Coming(x)'
    BY <1>3, <1>8, <1>9, <2>1, <2>2 DEF Coming
  <2>4. LocalsFollow' /\ AckedBeforePublished' /\ TakesTurns'
    BY <1>2, <1>8, <1>9, <2>1, <2>2 DEF LocalsFollow, AckedBeforePublished, TakesTurns
  <2>5. ASSUME NEW x \in Outputs \ suspect, NEW j \in Inputs
        PROVE  retained[<<x, j>>] \in {NoMirror, fw'[x][j]} \/ cell["paho"] = <<x, j>>
    <3>1. retained[<<x, j>>] \in {NoMirror, fw[x][j]}
      BY <1>8, <1>9 DEF RetainedFollow
    <3>2. fw[x] \in [Inputs -> 0..MaxLevel]
      BY DEF TypeOK, Matrices
    <3>3. x # o \/ j # i => fw'[x][j] = fw[x][j]
      BY <1>0, <1>8, <1>9, <2>2, <3>2
    <3> QED BY <1>0, <3>1, <3>3
  <2>6. RetainedFollow'
    BY <2>1, <2>5 DEF RetainedFollow
  <2> QED BY <1>4, <2>3, <2>4, <2>6
<1>10. CASE WriteFails
  <2>1. /\ pc'["paho"] = "idle" /\ suspect' = suspect \cup {o} /\ retained' = retained
    BY <1>10 DEF WriteFails, Settle, Goto, TypeOK
  <2>2. \A x \in Outputs \ suspect' : fw'[x] = fw[x]
    BY <1>0, <1>8, <1>10, <2>1 DEF TypeOK, Matrices
  <2>3. \A x \in Outputs \ suspect' : mirror'[x] = Coming(x)'
    BY <1>3, <1>8, <1>10, <2>1, <2>2 DEF Coming
  <2>4. LocalsFollow' /\ AckedBeforePublished' /\ TakesTurns'
    BY <1>2, <2>1 DEF LocalsFollow, AckedBeforePublished, TakesTurns
  <2>5. RetainedFollow'
    BY <1>8, <1>10, <2>1, <2>2 DEF RetainedFollow
  <2> QED BY <1>4, <2>3, <2>4, <2>5
<1> QED BY <1>5, <1>6, <1>7, <1>9, <1>10

\* _publish_routing_cell, in either thread: the level is the device's.
LEMMA PublishFollows ==
  ASSUME MirrorInv, NEW t \in Threads, PublishCell(t)
  PROVE  MirrorInv'
<1> USE DEF MirrorInv, TypeInv, Threads
<1> DEFINE o == cell[t][1]
           i == cell[t][2]
<1>0. o \in Outputs /\ i \in Inputs /\ cell[t] = <<o, i>> /\ cell[t] \in Cells
  BY DEF TypeOK, Cells
<1>1. TypeInv'
  BY PublishTypes
<1>2. /\ pc[t] = "publish" /\ retained' = [retained EXCEPT ![cell[t]] = level[t]]
      /\ pc' = [pc EXCEPT ![t] = IF t = "worker" THEN "next" ELSE "idle"]
      /\ UNCHANGED <<fw, mirror, todo, seed, suspect>>
  BY DEF PublishCell, Settle, Goto, initial
<1>3. pc["paho"] \notin {"pick", "write"} /\ pc'["paho"] = "idle"
      /\ pc'["worker"] \in {"next", "done"} /\ pc["worker"] \in {"publish", "done"}
  BY <1>2, Reading, Serving DEF TypeOK
<1>4. \A x \in Outputs : Coming(x)' = Coming(x) /\ Waiting(x)' = Waiting(x)
  BY <1>2, <1>3 DEF Coming, Waiting
<1>5. TakesTurns' /\ MirrorFollows' /\ LocalsFollow' /\ AckedBeforePublished'
  BY <1>2, <1>3, <1>4, Reading, Serving
  DEF TakesTurns, MirrorFollows, LocalsFollow, AckedBeforePublished, TypeOK
<1>6. o \in suspect \/ level[t] = fw[o][i]
  BY <1>2 DEF LocalsFollow, AckedBeforePublished
<1>7. ASSUME NEW x \in Outputs \ suspect, NEW j \in Inputs
      PROVE  retained'[<<x, j>>] \in {NoMirror, fw[x][j]}
  <2>1. <<x, j>> \in Cells
    BY DEF Cells
  <2>2. CASE <<x, j>> = cell[t]
    BY <1>0, <1>2, <1>6, <2>1, <2>2 DEF TypeOK
  <2>3. CASE <<x, j>> # cell[t]
    <3>1. retained'[<<x, j>>] = retained[<<x, j>>]
      BY <1>2, <2>1, <2>3 DEF TypeOK
    <3>2. ~(pc["paho"] = "publish" /\ cell["paho"] = <<x, j>>)
      BY <1>2, <2>3, Reading
    <3> QED BY <3>1, <3>2 DEF RetainedFollow
  <2> QED BY <2>2, <2>3
<1>8. RetainedFollow'
  BY <1>2, <1>7 DEF RetainedFollow
<1> QED BY <1>1, <1>5, <1>8

\* A row that changes under the mirror is suspect, unless it is still to be read.
LEMMA PanelFollows ==
  ASSUME MirrorInv, NothingPublishedYet, NEW o \in Outputs, Panel(o)
  PROVE  MirrorInv'
<1> USE DEF MirrorInv, TypeInv, Threads
<1>1. TypeInv'
  BY PanelTypes
<1>2. /\ UNCHANGED <<mirror, retained, pc, todo, seed, cell, level, cmd, row>>
      /\ suspect \subseteq suspect' /\ suspect' \subseteq suspect \cup {o}
      /\ o \in suspect' \/ StillToRead(o)
  BY DEF Panel, initial, serving
<1>3. \A x \in Outputs \ {o} : fw'[x] = fw[x]
  BY DEF Panel, TypeOK, Matrices
<1>4. ASSUME NEW x \in Outputs \ {o} PROVE Coming(x)' = Coming(x) /\ Waiting(x)' = Waiting(x)
  BY <1>2, <1>3 DEF Coming, Waiting
<1>5. StillToRead(o) => Waiting(o)' /\ pc["paho"] = "idle"
  BY <1>2 DEF StillToRead, Waiting, TakesTurns
<1>6. TakesTurns'
  BY <1>2 DEF TakesTurns
<1>7. MirrorFollows'
  <2>1. ASSUME NEW x \in Outputs \ suspect', pc["worker"] \notin {"lookup", "create"}
        PROVE  Waiting(x)' \/ mirror[x] = Coming(x)'
    <3>1. CASE x = o
      BY <1>2, <1>5, <2>1, <3>1
    <3>2. CASE x # o
      BY <1>2, <1>4, <2>1, <3>2 DEF MirrorFollows
    <3> QED BY <3>1, <3>2
  <2>2. suspect = Outputs => suspect' = Outputs
    BY <1>1, <1>2 DEF TypeOK
  <2> QED BY <1>2, <2>1, <2>2 DEF MirrorFollows
<1>8. ASSUME NEW x \in Outputs, x # o \/ o \in suspect'
      PROVE  x \in suspect' \/ fw'[x] = fw[x]
  BY <1>2, <1>3, <1>8
<1>9. LocalsFollow'
  <2>1. ASSUME pc["worker"] = "seed" PROVE Head(todo) \in suspect' \/ seed = fw'[Head(todo)]
    <3>1. todo # <<>> /\ todo \in Seq(Outputs)
      BY <2>1 DEF ThreadShape, TypeOK
    <3>2. Head(todo) \in Outputs
      BY <3>1, HeadTailProperties
    <3>3. Head(todo) # o \/ o \in suspect'
      BY <1>2, <2>1 DEF StillToRead
    <3> QED BY <1>2, <1>8, <2>1, <3>2, <3>3 DEF LocalsFollow
  <2>2. ASSUME pc["worker"] = "publish"
        PROVE  cell["worker"][1] \in suspect' \/ level["worker"] = fw'[cell["worker"][1]][cell["worker"][2]]
    <3>1. cell["worker"][1] \in Outputs
      BY DEF TypeOK, Cells
    <3>2. o \in suspect'
      BY <1>2, <2>2 DEF StillToRead
    <3> QED BY <1>2, <1>8, <2>2, <3>1, <3>2 DEF LocalsFollow
  <2>3. ASSUME pc["paho"] \in {"pick", "write"}
        PROVE  cell["paho"][1] \in suspect'
                 \/ level["paho"] = NewLevel(fw'[cell["paho"][1]][cell["paho"][2]], cmd)
    <3>1. cell["paho"][1] \in Outputs
      BY DEF TypeOK, Cells
    <3>2. o \in suspect'
      BY <1>2, <1>5, <2>3
    <3> QED BY <1>2, <1>8, <2>3, <3>1, <3>2 DEF LocalsFollow
  <2> QED BY <1>2, <2>1, <2>2, <2>3 DEF LocalsFollow, NewLevel
<1>10. RetainedFollow'
  <2>1. ASSUME NEW x \in Outputs \ suspect', NEW i \in Inputs
        PROVE  \/ retained'[<<x, i>>] \in {NoMirror, fw'[x][i]}
               \/ pc'["paho"] = "publish" /\ cell'["paho"] = <<x, i>>
    <3>1. CASE x # o
      BY <1>2, <1>3, <2>1, <3>1 DEF RetainedFollow
    <3>2. CASE x = o
      <4>1. <<x, i>> \in Cells /\ StillToRead(o)
        BY <1>2, <2>1, <3>2 DEF Cells
      <4> QED BY <1>2, <4>1 DEF StillToRead, NothingPublishedYet
    <3> QED BY <3>1, <3>2
  <2> QED BY <2>1 DEF RetainedFollow
<1>11. AckedBeforePublished'
  <2>1. ASSUME pc["paho"] = "publish"
        PROVE  cell["paho"][1] \in suspect' \/ fw'[cell["paho"][1]][cell["paho"][2]] = level["paho"]
    <3>1. cell["paho"][1] \in Outputs
      BY DEF TypeOK, Cells
    <3>2. o \in suspect'
      BY <1>2, <1>5, <2>1
    <3> QED BY <1>2, <1>8, <2>1, <3>1, <3>2 DEF AckedBeforePublished
  <2> QED BY <1>2, <2>1 DEF AckedBeforePublished
<1> QED BY <1>1, <1>6, <1>7, <1>9, <1>10, <1>11

LEMMA StutterFollows == MirrorInv /\ UNCHANGED vars => MirrorInv'
<1>1. ASSUME MirrorInv, UNCHANGED vars PROVE MirrorInv'
  <2>1. TypeInv'
    BY <1>1, StutterTypes DEF MirrorInv
  <2>2. UNCHANGED <<fw, mirror, retained, pc, todo, seed, cell, level, cmd, row, suspect>>
    BY <1>1 DEF vars, initial, serving
  <2> QED
    BY <1>1, <2>1, <2>2 DEF MirrorInv, TakesTurns, MirrorFollows, LocalsFollow, RetainedFollow,
                            AckedBeforePublished, Waiting, Coming, NewLevel
<1> QED BY <1>1

\* Only a command and the worker's last phase publish.
LEMMA NothingYet ==
  ASSUME MirrorInv, NothingPublishedYet, [Next]_vars
  PROVE  NothingPublishedYet'
<1> USE DEF MirrorInv, TypeInv, Threads
<1>1. ASSUME pc["worker"] \in {"lookup", "create", "read", "seed"}, \A t \in Threads : ~PublishCell(t)
      PROVE  retained' = retained
  BY <1>1 DEF Next, Lookup, Create, ReadRow, Seed, ReadFails, SkipInitial, Refreshed, NextCell,
              AllSent, Command, SetMirror, PickRow, WriteRow, WriteFails, Panel, vars
<1>2. ASSUME NEW t \in Threads, PublishCell(t) PROVE NothingPublishedYet'
  <2>1. pc' = [pc EXCEPT ![t] = IF t = "worker" THEN "next" ELSE "idle"] /\ pc[t] = "publish"
    BY <1>2 DEF PublishCell, Settle, Goto
  <2>2. pc'["worker"] \in {"next", "done"}
    BY <2>1, Reading DEF TypeOK
  <2> QED BY <2>2 DEF NothingPublishedYet
<1>3. CASE \A t \in Threads : ~PublishCell(t)
  <2>1. pc'["worker"] \in {"lookup", "create", "read", "seed"} =>
          pc["worker"] \in {"lookup", "create", "read", "seed"}
    BY <1>3 DEF Next, Lookup, Create, ReadRow, Seed, ReadFails, SkipInitial, Refreshed, NextCell,
                AllSent, Command, SetMirror, PickRow, WriteRow, WriteFails, Panel, Settle, Goto,
                AfterInit, vars, TypeOK
  <2> QED BY <1>1, <1>3, <2>1 DEF NothingPublishedYet
<1> QED BY <1>2, <1>3

\* Every step keeps the invariant if commands wait.
LEMMA NextFollows ==
  ASSUME ~Early
  PROVE  MirrorInv /\ NothingPublishedYet /\ [Next]_vars => MirrorInv' /\ NothingPublishedYet'
  BY MirrorCreated, WorkerFollows, HandlerFollows, PublishFollows, PanelFollows, StutterFollows,
     NothingYet DEF Next

-----------------------------------------------------------------------------
(* Theorems *)

\* _write_routing_row before _publish_routing_cell: a level is published by a
\* command only once the device has it, whatever failed before.
THEOREM PublishedIsAcked == ASSUME ~Early PROVE Spec => []AckedBeforePublished
<1>1. MirrorInv => AckedBeforePublished
  BY DEF MirrorInv
<1> QED
  BY InitMirror, NextFollows, <1>1, PTL DEF Spec

\* publish_initial_cached_state and the handlers together: with nobody at
\* work, mirror and published levels are the device's on every output whose
\* row was read and whose commands were acknowledged.
THEOREM MirrorInSync == ASSUME ~Early PROVE Spec => []InSync
<1>1. ASSUME MirrorInv PROVE InSync
  <2>1. ASSUME Quiet, NEW o \in Outputs \ suspect
        PROVE  mirror[o] = fw[o] /\ \A i \in Inputs : retained[<<o, i>>] \in {NoMirror, fw[o][i]}
    <3>1. todo = <<>> /\ pc["worker"] = "done" /\ pc["paho"] = "idle"
      BY <1>1, <2>1 DEF Quiet, MirrorInv, MirrorFollows
    <3>2. ~Waiting(o)
      BY <3>1 DEF Waiting
    <3>3. mirror[o] = fw[o]
      BY <1>1, <3>1, <3>2 DEF MirrorInv, MirrorFollows, Coming
    <3> QED BY <1>1, <3>1, <3>3 DEF MirrorInv, RetainedFollow
  <2> QED BY <2>1 DEF InSync
<1> QED
  BY InitMirror, NextFollows, <1>1, PTL DEF Spec

\* _write_routing_row: a failed read or write about one output never shows in
\* another output's row, and a command leaves the other cells alone wherever
\* nothing failed.
THEOREM FailuresAreConfined == ASSUME ~Early PROVE Spec => FailuresStayInTheirRow
<1>1. ASSUME MirrorInv, Next PROVE OnlyTheCellUnlessSuspect
  <2> USE DEF MirrorInv, TypeInv, Threads
  <2> DEFINE o == cell["paho"][1]
             i == cell["paho"][2]
  <2> SUFFICES ASSUME Writes, NEW c \in Cells \ {cell["paho"]}, fw'[c[1]][c[2]] # fw[c[1]][c[2]]
               PROVE  c[1] = o /\ c[1] \in suspect
    BY DEF OnlyTheCellUnlessSuspect
  <2>1. pc["paho"] = "write" /\ pc'["paho"] # "write"
    BY DEF Writes
  <2>2. fw' \in {fw, [fw EXCEPT ![o] = row]}
    BY <1>1, <2>1 DEF Next, Lookup, Create, PublishCell, ReadRow, Seed, ReadFails, SkipInitial,
                      Refreshed, NextCell, AllSent, Command, SetMirror, PickRow, WriteRow, WriteFails,
                      Panel
  <2>3. c[1] \in Outputs /\ c[2] \in Inputs /\ c = <<c[1], c[2]>> /\ o \in Outputs /\ i \in Inputs
        /\ cell["paho"] = <<o, i>>
    BY <1>1 DEF TypeOK, Cells
  <2>4. c[1] = o /\ fw'[o] = row
    BY <1>1, <2>2, <2>3 DEF TypeOK, Matrices
  <2>5. c[2] # i
    BY <2>3, <2>4
  <2>6. ASSUME o \notin suspect PROVE FALSE
    <3>1. row = [fw[o] EXCEPT ![i] = level["paho"]]
      BY <1>1, <2>1, <2>3, <2>6, Serving DEF LocalsFollow, Coming
    <3>2. fw[o] \in [Inputs -> 0..MaxLevel]
      BY <1>1, <2>3 DEF TypeOK, Matrices
    <3> QED BY <2>3, <2>4, <2>5, <3>1, <3>2
  <2> QED BY <2>4, <2>6
<1> QED
  BY InitMirror, NextFollows, <1>1, PTL DEF Spec, FailuresStayInTheirRow

-----------------------------------------------------------------------------
(* Refinement of RoutingMatrix *)

LEMMA MatrixInitRefined == Init => Matrix!MatrixInit
  BY MirrorAssumption DEF Init, Matrix!MatrixInit, Matrix!MatrixRows, MirrorAssumption, Threads

\* An acknowledged row switches the command's cell, relative to the device.
LEMMA WriteRefined ==
  ASSUME MirrorInv, WriteRow, cell["paho"][1] \notin suspect
  PROVE  Matrix!MatrixNext
<1> USE DEF MirrorInv, TypeInv, Threads
<1> DEFINE o == cell["paho"][1]
           i == cell["paho"][2]
<1>1. o \in Outputs /\ i \in Inputs
  BY DEF TypeOK, Cells
<1>2. pc["worker"] = "done" /\ mirror[o] = Coming(o)
  BY <1>1, Serving DEF WriteRow
<1>3. row = [fw[o] EXCEPT ![i] = NewLevel(fw[o][i], cmd)]
  BY <1>2 DEF WriteRow, LocalsFollow, Coming
<1>4. fw' = [fw EXCEPT ![o][i] = NewLevel(fw[o][i], cmd)]
  BY <1>1, <1>3 DEF WriteRow, TypeOK, Matrices
<1>5. suspect' = suspect /\ pc'["worker"] = "done"
  BY <1>2 DEF WriteRow, Goto, TypeOK
<1>6. cmd.kind \in {"on", "off", "level"} /\ cmd.level \in 0..MaxLevel
  BY DEF TypeOK, Ops, Switch, ThreadShape, InRange
<1>7. CASE cmd.kind = "on"
  BY <1>1, <1>2, <1>4, <1>5, <1>7 DEF NewLevel, Matrix!MatrixNext, Matrix!On, Matrix!SetCell
<1>8. CASE cmd.kind = "off"
  BY <1>1, <1>2, <1>4, <1>5, <1>8 DEF NewLevel, Matrix!MatrixNext, Matrix!Off, Matrix!SetCell
<1>9. CASE cmd.kind = "level"
  <2>1. cmd.level \in Levels
    BY <1>9 DEF TypeOK, Ops, Switch
  <2>2. cmd.level <= MaxLevel
    BY <1>6, MirrorAssumption DEF MirrorAssumption
  <2>3. Matrix!Level(o, i, cmd.level)
    BY <1>2, <1>4, <1>5, <1>9, <2>2 DEF NewLevel, Matrix!Level, Matrix!SetCell
  <2> QED BY <1>1, <2>1, <2>3 DEF Matrix!MatrixNext
<1> QED BY <1>6, <1>7, <1>8, <1>9

\* A row changed with the output becoming, or having been, suspect.
LEMMA MishapRefined ==
  ASSUME TypeInv, NEW o \in Outputs, NEW m \in [Inputs -> 0..MaxLevel],
         fw' = [fw EXCEPT ![o] = m], suspect' = suspect \cup {o},
         (pc["worker"] = "done")' = (pc["worker"] = "done")
  PROVE  Matrix!MatrixNext
<1>1. Matrix!Mishap(o)
  BY DEF Matrix!Mishap, Matrix!MatrixRows
<1> QED BY <1>1 DEF Matrix!MatrixNext

\* Every step of the mirror is a step of RoutingMatrix or invisible to it.
LEMMA MatrixStepRefined ==
  MirrorInv /\ [Next]_vars => [Matrix!MatrixNext]_(Matrix!matrixVars)
<1> SUFFICES ASSUME MirrorInv, [Next]_vars
             PROVE  [Matrix!MatrixNext]_(Matrix!matrixVars)
  OBVIOUS
<1> USE DEF MirrorInv, TypeInv, Threads, Matrix!matrixVars
<1>1. ASSUME NEW t \in Threads, Lookup(t) \/ Create(t) \/ PublishCell(t)
      PROVE  UNCHANGED Matrix!matrixVars
  BY <1>1 DEF Lookup, Create, PublishCell, Settle, Goto, AfterInit, TypeOK
<1>2. CASE ReadRow \/ Seed \/ Refreshed \/ NextCell
  BY <1>2 DEF ReadRow, Seed, Refreshed, NextCell, Goto, TypeOK
<1>3. CASE \/ \E c \in Asked, op \in Ops : Command(c, op)
           \/ SetMirror \/ PickRow
  BY <1>3 DEF Command, SetMirror, PickRow, Goto, TypeOK
<1>4. CASE ReadFails
  <2>1. Head(todo) \in Outputs /\ fw[Head(todo)] \in [Inputs -> 0..MaxLevel]
    BY <1>4 DEF ReadFails, TypeOK, Matrices
  <2>2. fw' = [fw EXCEPT ![Head(todo)] = fw[Head(todo)]]
    BY <1>4, <2>1 DEF ReadFails, TypeOK, Matrices
  <2> QED BY <1>4, <2>1, <2>2, MishapRefined DEF ReadFails
<1>5. CASE SkipInitial \/ AllSent
  <2>1. Matrix!Serve
    BY <1>5 DEF SkipInitial, AllSent, Goto, Matrix!Serve, TypeOK
  <2> QED BY <2>1 DEF Matrix!MatrixNext
<1>6. CASE WriteRow
  <2>1. CASE cell["paho"][1] \notin suspect
    BY <1>6, <2>1, WriteRefined
  <2>2. CASE cell["paho"][1] \in suspect
    <3>1. cell["paho"][1] \in Outputs /\ row \in [Inputs -> 0..MaxLevel]
      BY DEF TypeOK, Cells
    <3>2. pc'["worker"] = pc["worker"] /\ suspect' = suspect \cup {cell["paho"][1]}
      BY <1>6, <2>2 DEF WriteRow, Goto, TypeOK
    <3> QED BY <1>6, <3>1, <3>2, MishapRefined DEF WriteRow
  <2> QED BY <2>1, <2>2
<1>7. CASE WriteFails
  <2>1. cell["paho"][1] \in Outputs /\ row \in [Inputs -> 0..MaxLevel]
    BY DEF TypeOK, Cells
  <2>2. pc'["worker"] = pc["worker"] /\ suspect' = suspect \cup {cell["paho"][1]}
    BY <1>7 DEF WriteFails, Settle, Goto, TypeOK
  <2>3. PICK m \in [Inputs -> 0..MaxLevel] : fw' = [fw EXCEPT ![cell["paho"][1]] = m]
    <3>1. fw[cell["paho"][1]] \in [Inputs -> 0..MaxLevel]
          /\ fw = [fw EXCEPT ![cell["paho"][1]] = fw[cell["paho"][1]]]
      BY <2>1 DEF TypeOK, Matrices
    <3> QED BY <1>7, <2>1, <3>1 DEF WriteFails
  <2> QED BY <2>1, <2>2, <2>3, MishapRefined
<1>8. ASSUME NEW o \in Outputs, Panel(o) PROVE Matrix!MatrixNext
  <2>1. PICK m \in [Inputs -> 0..MaxLevel] : fw' = [fw EXCEPT ![o] = m]
    BY <1>8, MirrorAssumption DEF Panel, MirrorAssumption
  <2>2. pc' = pc
    BY <1>8 DEF Panel
  <2>3. CASE StillToRead(o)
    <3>1. Matrix!Prepare(o)
      BY <1>8, <2>1, <2>2, <2>3 DEF Panel, StillToRead, Matrix!Prepare, Matrix!MatrixRows
    <3> QED BY <3>1 DEF Matrix!MatrixNext
  <2>4. CASE ~StillToRead(o)
    BY <1>8, <2>1, <2>2, <2>4, MishapRefined DEF Panel
  <2> QED BY <2>3, <2>4
<1>9. CASE UNCHANGED vars
  BY <1>9 DEF vars
<1> QED BY <1>1, <1>2, <1>3, <1>4, <1>5, <1>6, <1>7, <1>8, <1>9 DEF Next

\* _handle_route, _handle_route_level and _write_routing_row keep the promise
\* of the routing topics: a command switches its cell of the device's matrix,
\* relative to what the device has, and leaves the other cells alone; only an
\* output whose row was not read, was not acknowledged or was changed by
\* somebody else may get another row, and no failure spreads to another output.
THEOREM MirrorImplementsMatrix == ASSUME ~Early PROVE Spec => ImplementsMatrix
  BY InitMirror, NextFollows, MatrixInitRefined, MatrixStepRefined, PTL
     DEF Spec, Matrix!MatrixSpec, ImplementsMatrix

=============================================================================
