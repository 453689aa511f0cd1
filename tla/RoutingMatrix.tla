---------------------------- MODULE RoutingMatrix ----------------------------
(***************************************************************************)
(* What the routing topics of dsp408.mqtt promise, with no mirror in sight: *)
(* a command switches one cell of the device's matrix and leaves every     *)
(* other cell alone.  Nothing is promised of the cells of an output on     *)
(* which something went wrong, and nothing that went wrong spreads to      *)
(* another output.                                                         *)
(***************************************************************************)
EXTENDS Naturals

CONSTANTS
  Outputs, Inputs,
  MaxLevel,    \* 255 on the wire; 0 is off
  Unity,       \* the level of a cell that is switched on
  Levels       \* numbers the level topic may carry

VARIABLES
  matrix,      \* the level of each cell
  doubtful,    \* outputs on which a read or a write failed, or whose row was
               \* changed by somebody else
  serving      \* commands are served

matrixVars == <<matrix, doubtful, serving>>

MatrixRows == [Inputs -> 0..MaxLevel]

MatrixInit ==
  /\ matrix \in [Outputs -> MatrixRows]
  /\ doubtful = {}
  /\ serving = FALSE

\* Before commands are served a row may change: the device is read later.
Prepare(o) ==
  /\ ~serving
  /\ \E row \in MatrixRows : matrix' = [matrix EXCEPT ![o] = row]
  /\ UNCHANGED <<doubtful, serving>>

Serve == ~serving /\ serving' = TRUE /\ doubtful \subseteq doubtful' /\ UNCHANGED matrix

SetCell(o, i, level) ==
  /\ serving
  /\ matrix' = [matrix EXCEPT ![o][i] = level]
  /\ UNCHANGED <<doubtful, serving>>

On(o, i) == SetCell(o, i, IF matrix[o][i] > 0 THEN matrix[o][i] ELSE Unity)
Off(o, i) == SetCell(o, i, 0)
Level(o, i, level) == level <= MaxLevel /\ SetCell(o, i, level)

\* Something goes wrong about an output, or went wrong before.
Mishap(o) ==
  /\ \E row \in MatrixRows : matrix' = [matrix EXCEPT ![o] = row]
  /\ doubtful' = doubtful \cup {o}
  /\ UNCHANGED serving

MatrixNext ==
  \/ \E o \in Outputs : Prepare(o) \/ Mishap(o)
  \/ \E o \in Outputs, i \in Inputs :
       On(o, i) \/ Off(o, i) \/ \E level \in Levels : Level(o, i, level)
  \/ Serve

MatrixSpec == MatrixInit /\ [][MatrixNext]_matrixVars
=============================================================================
