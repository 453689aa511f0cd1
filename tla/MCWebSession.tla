---------------------------- MODULE MCWebSession ----------------------------
(* A small instance of WebSession: two units with a serial number of their  *)
(* own or one they share, and two callbacks, each of which may do anything  *)
(* the page does.                                                           *)
EXTENDS WebSession

CONSTANTS t1, t2

MCCallers == {t1, t2}
MCShared == [u \in Units |-> "A"]
MCOwn == [u \in Units |-> IF u = 1 THEN "A" ELSE "B"]
NoAliases == [name \in {} |-> name]
NoDigits == [name \in {} |-> 0]
=============================================================================
