--------------------------- MODULE MCRoutingMirror ---------------------------
(* Small instances of RoutingMirror: two outputs with two inputs each, a    *)
(* unity level and a level the user chose.                                  *)
EXTENDS RoutingMirror

MCRows == <<1, 2>>
OneRow == <<1>>

\* Commands about a whole row, and about one cell of the other.
MCAsked == {<<1, 1>>, <<1, 2>>, <<2, 1>>}
AllAsked == Outputs \X Inputs

\* A device as it boots, and one with a tuned matrix.
Off == [o \in Outputs |-> [i \in Inputs |-> 0]]
Tuned == [o \in Outputs |-> [i \in Inputs |-> IF i = o THEN 1 ELSE 0]]
MCBoot == {Off, Tuned}
=============================================================================
