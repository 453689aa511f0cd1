----------------------------- MODULE MCEntities -----------------------------
(* Small instances of Entities: a device with two values per field, and the *)
(* commands that matter to the properties.                                  *)
EXTENDS Entities

Cmd(t, v) == [topic |-> t, val |-> v]

\* One command of each kind, two of them out of range.
MCAsked == {Cmd("level", 0), Cmd("level", 2), Cmd("delay", 2), Cmd("volume", 0),
            Cmd("reset", 0), Cmd("load", 0), Cmd("malformed", 0)}
NamedOnly == {Cmd("name", 0)}
DelayOnly == {Cmd("delay", 0)}
Malformed == {Cmd("malformed", 0)}
LevelOnly == {Cmd("level", 0)}
HighOnly == {Cmd("level", 2)}
LoadOnly == {Cmd("load", 0)}
=============================================================================
