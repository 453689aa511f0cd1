------------------------------ MODULE SharedLink ------------------------------
(***************************************************************************)
(* What Device._lock promises about the HID handle, without any of the     *)
(* protocol: one thread at a time talks on it, only while it is open, and  *)
(* it is closed only when nobody is talking.                               *)
(***************************************************************************)
CONSTANT Threads

VARIABLES
  handle,   \* "open" or "closed"
  users     \* the threads with an exchange on the wire

linkVars == <<handle, users>>

LinkInit == handle = "open" /\ users = {}

Enter(t) == handle = "open" /\ users = {} /\ users' = {t} /\ UNCHANGED handle

Exit(t) == users = {t} /\ users' = {} /\ UNCHANGED handle

Shut == users = {} /\ handle' = "closed" /\ UNCHANGED users

LinkNext == Shut \/ \E t \in Threads : Enter(t) \/ Exit(t)

LinkSpec == LinkInit /\ [][LinkNext]_linkVars
=============================================================================
