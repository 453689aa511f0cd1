---------------------------- MODULE RoutingMirror ----------------------------
(***************************************************************************)
(* The routing matrix in dsp408.mqtt.DeviceWorker.  The device takes a     *)
(* whole row (set_routing_levels), so a command about one cell writes the  *)
(* row from an in-memory mirror.  The worker's thread seeds the mirror     *)
(* once, in publish_initial_cached_state, while paho's thread may already  *)
(* serve commands; each step that touches the mirror is an action.         *)
(***************************************************************************)
EXTENDS Naturals, Sequences

CONSTANTS
  Outputs, Inputs,
  MaxLevel,    \* 255 on the wire; 0 is off
  Unity,       \* _ROUTING_DEFAULT_ON_LEVEL
  Rows,        \* the order in which the worker's thread reads the rows
  Levels,      \* numbers the level topic may carry
  Asked,       \* cells the commands are about
  Boot,        \* matrices the device may be given by others, before or later
  NoMirror,    \* the worker has no _routing_mirror yet
  Early,       \* commands may come before the initial state is published
  Faults       \* what the link may do: "read", "write", "acklost"; and
               \* "panel": somebody else changes a row

ASSUME MirrorAssumption ==
  /\ Outputs # {} /\ Inputs # {}
  /\ MaxLevel \in Nat /\ Unity \in 1..MaxLevel
  /\ Levels \subseteq Nat
  /\ Asked \subseteq Outputs \X Inputs
  /\ Boot \subseteq [Outputs -> [Inputs -> 0..MaxLevel]]
  /\ NoMirror \notin [Outputs -> [Inputs -> 0..MaxLevel]]
  /\ Rows \in Seq(Outputs) /\ \A o \in Outputs : \E i \in 1..Len(Rows) : Rows[i] = o
  /\ Early \in BOOLEAN
  /\ Faults \subseteq {"read", "write", "acklost", "panel"}

Threads == {"worker", "paho"}

VARIABLES
  fw,        \* the device's matrix
  mirror,    \* _routing_mirror
  retained,  \* level published for each cell, NoMirror before the first
  pc,        \* where each thread is
  todo,      \* rows the worker's thread has still to read
  seed,      \* the row read_channel_state returned to the worker's thread
  unsent,    \* cells the worker's thread has still to publish
  cell,      \* the cell each thread is about to publish
  level,     \* the level each thread is about to publish
  cmd,       \* the command paho's thread serves
  row,       \* the row paho's thread is about to write
  suspect    \* history: outputs whose row could not be read or written once,
             \* or was changed by somebody else after it was read

vars == <<fw, mirror, retained, pc, todo, seed, unsent, cell, level, cmd, row, suspect>>
initial == <<todo, seed, unsent>>
serving == <<cmd, row>>

Cells == Outputs \X Inputs
Switch == {[kind |-> k, level |-> 0] : k \in {"on", "off"}}
Ops == Switch \cup {[kind |-> "level", level |-> l] : l \in Levels}
Zero == [o \in Outputs |-> [i \in Inputs |-> 0]]

Matrices == [Outputs -> [Inputs -> 0..MaxLevel]]

Goto(t, where) == pc' = [pc EXCEPT ![t] = where]

\* What the locals hold while they mean nothing.
AnyCell == CHOOSE c \in Cells : TRUE
AnyOp == CHOOSE op \in Switch : TRUE
AllOff == [i \in Inputs |-> 0]

\* A thread has published a cell; a handler of paho's thread has returned.
Settle(t) ==
  /\ Goto(t, IF t = "worker" THEN "next" ELSE "idle")
  /\ cell' = [cell EXCEPT ![t] = AnyCell]
  /\ level' = [level EXCEPT ![t] = 0]
  /\ IF t = "paho" THEN cmd' = AnyOp /\ row' = AllOff ELSE UNCHANGED serving

-----------------------------------------------------------------------------
Init ==
  /\ fw \in Boot
  /\ mirror = NoMirror
  /\ retained = [c \in Cells |-> NoMirror]
  /\ pc = [t \in Threads |-> IF t = "worker" THEN "lookup" ELSE "idle"]
  /\ todo = Rows
  /\ seed = AllOff
  /\ unsent = {}
  /\ cell = [t \in Threads |-> AnyCell]
  /\ level = [t \in Threads |-> 0]
  /\ cmd = AnyOp
  /\ row = AllOff
  /\ suspect = {}

\* Where _routing_state_init returns to.
AfterInit(t) == IF t = "worker" THEN "read" ELSE "set"

\* _routing_state_init: `if not hasattr(self, "_routing_mirror")' ...
Lookup(t) ==
  /\ pc[t] = "lookup"
  /\ Goto(t, IF mirror = NoMirror THEN "create" ELSE AfterInit(t))
  /\ UNCHANGED <<fw, mirror, retained, initial, cell, level, serving, suspect>>

\* ... and then the assignment; another thread may have been faster.
Create(t) ==
  /\ pc[t] = "create"
  /\ mirror' = Zero
  /\ Goto(t, AfterInit(t))
  /\ UNCHANGED <<fw, retained, initial, cell, level, serving, suspect>>

-----------------------------------------------------------------------------
(* The worker's thread: publish_initial_cached_state *)

\* get_channel of the next output.
ReadRow ==
  /\ pc["worker"] = "read"
  /\ todo # <<>>
  /\ seed' = fw[Head(todo)]
  /\ Goto("worker", "seed")
  /\ UNCHANGED <<fw, mirror, retained, todo, unsent, cell, level, serving, suspect>>

\* Faulty variant: the row read is not kept.
SeedNothing ==
  /\ pc["worker"] = "seed"
  /\ todo' = Tail(todo)
  /\ Goto("worker", "read")
  /\ UNCHANGED <<fw, mirror, retained, seed, unsent, cell, level, serving, suspect>>

\* Its mixer field becomes the mirror's row.
Seed ==
  /\ pc["worker"] = "seed"
  /\ mirror' = [mirror EXCEPT ![Head(todo)] = seed]
  /\ todo' = Tail(todo)
  /\ seed' = AllOff
  /\ Goto("worker", "read")
  /\ UNCHANGED <<fw, retained, unsent, cell, level, serving, suspect>>

\* The read fails: "using cached defaults"; the mirror keeps its row.
ReadFails ==
  /\ "read" \in Faults
  /\ pc["worker"] = "read"
  /\ todo # <<>>
  /\ todo' = Tail(todo)
  /\ suspect' = suspect \cup {Head(todo)}
  /\ UNCHANGED <<fw, mirror, retained, pc, seed, unsent, cell, level, serving>>

\* No device: "initial state read skipped".
SkipInitial ==
  /\ "read" \in Faults
  /\ pc["worker"] = "read"
  /\ todo = Rows
  /\ Goto("worker", "done")
  /\ suspect' = Outputs
  /\ UNCHANGED <<fw, mirror, retained, initial, cell, level, serving>>

\* Every row was tried: publish every cell from the mirror.
Refreshed ==
  /\ pc["worker"] = "read"
  /\ todo = <<>>
  /\ unsent' = Cells
  /\ Goto("worker", "next")
  /\ UNCHANGED <<fw, mirror, retained, todo, seed, cell, level, serving, suspect>>

NextCell ==
  /\ pc["worker"] = "next"
  /\ \E c \in unsent :
       /\ unsent' = unsent \ {c}
       /\ cell' = [cell EXCEPT !["worker"] = c]
       /\ level' = [level EXCEPT !["worker"] = mirror[c[1]][c[2]]]
  /\ Goto("worker", "publish")
  /\ UNCHANGED <<fw, mirror, retained, todo, seed, serving, suspect>>

AllSent ==
  /\ pc["worker"] = "next"
  /\ unsent = {}
  /\ Goto("worker", "done")
  /\ UNCHANGED <<fw, mirror, retained, initial, cell, level, serving, suspect>>

-----------------------------------------------------------------------------
(* paho's thread: _handle_route and _handle_route_level *)

\* Faulty variant: the bound is off by one.
ByteOrMore(level0) == level0 \in 0..(MaxLevel + 1)

\* _handle_route_level: a level out of range is refused before anything else.
InRange(level0) == level0 \in 0..MaxLevel

Command(c, op) ==
  /\ pc["paho"] = "idle"
  /\ InRange(op.level)
  /\ Early \/ pc["worker"] = "done"
  /\ cell' = [cell EXCEPT !["paho"] = c]
  /\ cmd' = op
  /\ Goto("paho", "lookup")
  /\ UNCHANGED <<fw, mirror, retained, initial, level, row, suspect>>

\* The level a command asks for, given the mirror's.
NewLevel(prev, op) ==
  CASE op.kind = "off"   -> 0
    [] op.kind = "on"    -> IF prev > 0 THEN prev ELSE Unity
    [] op.kind = "level" -> op.level

\* The mirror is changed before the device is.
SetMirror ==
  LET o == cell["paho"][1]
      i == cell["paho"][2]
      new == NewLevel(mirror[o][i], cmd)
  IN  /\ pc["paho"] = "set"
      /\ mirror' = [mirror EXCEPT ![o][i] = new]
      /\ level' = [level EXCEPT !["paho"] = new]
      /\ Goto("paho", "pick")
      /\ UNCHANGED <<fw, retained, initial, cell, serving, suspect>>

\* Faulty variant: the row is sent with the other cells off.
LoneCell ==
  /\ pc["paho"] = "pick"
  /\ row' = [i \in Inputs |-> IF i = cell["paho"][2] THEN level["paho"] ELSE 0]
  /\ Goto("paho", "write")
  /\ UNCHANGED <<fw, mirror, retained, initial, cell, level, cmd, suspect>>

\* _write_routing_row takes the mirror's row ...
PickRow ==
  /\ pc["paho"] = "pick"
  /\ row' = mirror[cell["paho"][1]]
  /\ Goto("paho", "write")
  /\ UNCHANGED <<fw, mirror, retained, initial, cell, level, cmd, suspect>>

\* ... and set_routing_levels sends it; the device acknowledges it.
WriteRow ==
  /\ pc["paho"] = "write"
  /\ fw' = [fw EXCEPT ![cell["paho"][1]] = row]
  /\ Goto("paho", "publish")
  /\ UNCHANGED <<mirror, retained, initial, cell, level, serving, suspect>>

\* Faulty variant: the error is swallowed and the new level published.
WriteFailsQuietly ==
  /\ pc["paho"] = "write"
  /\ \/ "write" \in Faults /\ fw' = fw
     \/ "acklost" \in Faults /\ fw' = [fw EXCEPT ![cell["paho"][1]] = row]
  /\ Goto("paho", "publish")
  /\ UNCHANGED <<mirror, retained, initial, cell, level, serving, suspect>>

\* The device cannot be opened or the write raises: handle_command reports
\* the error.  The row may have arrived all the same.
WriteFails ==
  /\ pc["paho"] = "write"
  /\ \/ "write" \in Faults /\ fw' = fw
     \/ "acklost" \in Faults /\ fw' = [fw EXCEPT ![cell["paho"][1]] = row]
  /\ Settle("paho")
  /\ suspect' = suspect \cup {cell["paho"][1]}
  /\ UNCHANGED <<mirror, retained, initial>>

\* _publish_routing_cell, in either thread.
PublishCell(t) ==
  /\ pc[t] = "publish"
  /\ retained' = [retained EXCEPT ![cell[t]] = level[t]]
  /\ Settle(t)
  /\ UNCHANGED <<fw, mirror, initial, suspect>>

-----------------------------------------------------------------------------
(* The device *)

Waiting(o) == \E i \in 1..Len(todo) : todo[i] = o

\* The worker's thread has still to ask for the row.
StillToRead(o) ==
  /\ pc["worker"] \in {"lookup", "create", "read", "seed"}
  /\ Waiting(o)
  /\ pc["worker"] = "seed" => o # Head(todo)

\* Faulty variant: a mirror that is believed to be refreshed by itself.
PanelUnnoticed(o) ==
  /\ "panel" \in Faults
  /\ \E m \in Boot : fw' = [fw EXCEPT ![o] = m[o]]
  /\ UNCHANGED <<mirror, retained, pc, initial, cell, level, serving, suspect>>

\* The front panel, the web UI or a preset changes a row.  The mirror does not
\* hear of it.
Panel(o) ==
  /\ "panel" \in Faults
  /\ \E m \in Boot : fw' = [fw EXCEPT ![o] = m[o]]
  /\ suspect' = IF StillToRead(o) THEN suspect ELSE suspect \cup {o}
  /\ UNCHANGED <<mirror, retained, pc, initial, cell, level, serving>>

Next ==
  \/ \E t \in Threads : Lookup(t) \/ Create(t) \/ PublishCell(t)
  \/ ReadRow \/ Seed \/ ReadFails \/ SkipInitial \/ Refreshed \/ NextCell \/ AllSent
  \/ \E c \in Asked, op \in Ops : Command(c, op)
  \/ SetMirror \/ PickRow \/ WriteRow \/ WriteFails
  \/ \E o \in Outputs : Panel(o)

Spec == Init /\ [][Next]_vars

-----------------------------------------------------------------------------
(* Properties *)

\* Every variable stays in its domain.
TypeOK ==
  /\ fw \in Matrices
  /\ mirror \in Matrices \cup {NoMirror}
  /\ retained \in [Cells -> 0..MaxLevel \cup {NoMirror}]
  /\ pc \in [Threads -> {"lookup", "create", "read", "seed", "next", "publish", "done",
                         "idle", "set", "pick", "write"}]
  /\ todo \in Seq(Outputs)
  /\ seed \in [Inputs -> 0..MaxLevel]
  /\ unsent \in SUBSET Cells
  /\ cell \in [Threads -> Cells]
  /\ level \in [Threads -> 0..MaxLevel]
  /\ cmd \in Ops
  /\ row \in [Inputs -> 0..MaxLevel]
  /\ suspect \in SUBSET Outputs

Quiet == pc["worker"] = "done" /\ pc["paho"] = "idle"

\* "Default OFF ... updated by every publish-write of a route" (mqtt.py): with
\* nobody at work, the mirror and the published levels are the device's, for
\* every output whose row was read and whose commands were acknowledged; a
\* failure about one output never shows in another.
InSync ==
  Quiet /\ mirror # NoMirror =>
    \A o \in Outputs \ suspect :
      /\ mirror[o] = fw[o]
      /\ \A i \in Inputs : retained[<<o, i>>] \in {NoMirror, fw[o][i]}

\* "persists each toggle to the device immediately and to MQTT retained
\* state": paho's thread publishes a level only once the device has it, unless
\* the row is suspect.
AckedBeforePublished ==
  pc["paho"] = "publish" =>
    cell["paho"][1] \in suspect \/ fw[cell["paho"][1]][cell["paho"][2]] = level["paho"]

Writes == pc["paho"] = "write" /\ pc'["paho"] # "write"

\* "seed the mirror so subsequent toggles build on the device's actual
\* baseline": a command about one cell changes no other cell of the device.
OnlyTheCell ==
  Writes => \A c \in Cells \ {cell["paho"]} : fw'[c[1]][c[2]] = fw[c[1]][c[2]]

RouteWritesOneCell == [][OnlyTheCell]_vars

\* The same for the outputs that have been read and written without failure,
\* whatever happened to the others; and no row but the command's is written.
OnlyTheCellUnlessSuspect ==
  Writes => \A c \in Cells \ {cell["paho"]} :
    fw'[c[1]][c[2]] # fw[c[1]][c[2]] => c[1] = cell["paho"][1] /\ c[1] \in suspect

FailuresStayInTheirRow == [][OnlyTheCellUnlessSuspect]_vars

\* The topics' promise, mirror or not: a command switches its cell relative to
\* what the device has, and no other; only an output that is suspect may get
\* another row.
Matrix == INSTANCE RoutingMatrix WITH
            matrix <- fw, doubtful <- suspect, serving <- pc["worker"] = "done"

\* Every step of the mirror is a step of the matrix.
ImplementsMatrix == Matrix!MatrixSpec
-----------------------------------------------------------------------------
(* The inductive invariants of the proofs *)

\* Where each thread may be, and what it knows there.
ThreadShape ==
  /\ pc["worker"] \in {"lookup", "create", "read", "seed", "next", "publish", "done"}
  /\ pc["paho"] \in {"idle", "lookup", "create", "set", "pick", "write", "publish"}
  /\ \A t \in Threads : pc[t] \notin {"lookup", "create", "idle"} => mirror # NoMirror
  /\ pc["worker"] = "seed" => todo # <<>>
  /\ InRange(cmd.level)

\* Inductive for every instance.
TypeInv == TypeOK /\ ThreadShape

\* What follows is about an instance whose commands wait (Early is FALSE).
TakesTurns == (pc["worker"] # "done" => pc["paho"] = "idle") /\ pc["paho"] # "create"

\* The row the device will have once the command in progress is through.
Coming(o) ==
  IF pc["paho"] \in {"pick", "write"} /\ o = cell["paho"][1]
  THEN [fw[o] EXCEPT ![cell["paho"][2]] = level["paho"]]
  ELSE fw[o]

\* The mirror follows the device on the outputs whose row was read.
MirrorFollows ==
  /\ pc["worker"] \in {"next", "publish", "done"} => todo = <<>> \/ suspect = Outputs
  /\ pc["worker"] \notin {"lookup", "create"} =>
       \A o \in Outputs \ suspect : Waiting(o) \/ mirror[o] = Coming(o)
  /\ pc["worker"] \in {"lookup", "create"} => todo = Rows

\* What a thread is about to store, publish or write is the device's.
LocalsFollow ==
  /\ pc["worker"] = "seed" => Head(todo) \in suspect \/ seed = fw[Head(todo)]
  /\ pc["worker"] = "publish" =>
       cell["worker"][1] \in suspect
         \/ level["worker"] = fw[cell["worker"][1]][cell["worker"][2]]
  /\ pc["paho"] \in {"pick", "write"} =>
       /\ mirror[cell["paho"][1]][cell["paho"][2]] = level["paho"]
       /\ cell["paho"][1] \in suspect
            \/ level["paho"] = NewLevel(fw[cell["paho"][1]][cell["paho"][2]], cmd)
  /\ pc["paho"] = "write" => row = mirror[cell["paho"][1]]

\* So do the published levels, but for the one about to be published.
RetainedFollow ==
  \A o \in Outputs \ suspect, i \in Inputs :
    \/ retained[<<o, i>>] \in {NoMirror, fw[o][i]}
    \/ pc["paho"] = "publish" /\ cell["paho"] = <<o, i>>

\* Until every row was tried nothing is published.
NothingPublishedYet ==
  pc["worker"] \in {"lookup", "create", "read", "seed"} => \A c \in Cells : retained[c] = NoMirror

\* Inductive with NothingPublishedYet: implies AckedBeforePublished, InSync,
\* FailuresStayInTheirRow and ImplementsMatrix.
MirrorInv ==
  TypeInv /\ TakesTurns /\ MirrorFollows /\ LocalsFollow /\ RetainedFollow /\ AckedBeforePublished
=============================================================================
