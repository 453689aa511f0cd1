---------------------------- MODULE MCMqttBridge ----------------------------
(* Small instances of MqttBridge: DSPs that come and go on two or three     *)
(* paths, with a serial number of their own or one they share.              *)
EXTENDS MqttBridge

MCShared == [u \in Units |-> "A"]
MCOwn == [u \in Units |-> IF u = "u1" THEN "A" ELSE "a"]

\* sanitize_id keeps the ids apart, or only their case did.
Distinct == [id \in DisplayIds |-> id]
Clashing == [id \in DisplayIds |-> IF id.form = "serial" THEN Name("serial", "a", 0) ELSE id]

\* One and both of the units plugged in; equal units are not told apart.
BothIn == [p \in Ports |-> IF p = 1 THEN "u1" ELSE "u2"]
OnlyOne == {[p \in Ports |-> IF p = 1 THEN "u1" ELSE NoUnit]}
MCBoot == {BothIn, [BothIn EXCEPT ![1] = NoUnit]}

NoAliases == [name \in {} |-> name]
All == NoSelector

\* No serial number is all digits, or all are the number 0.
NoDigits == [name \in {} |-> 0]
Numeric == [name \in {Name("serial", s, 0) : s \in Serials} |-> 0]
=============================================================================
