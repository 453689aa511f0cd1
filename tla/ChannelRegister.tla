--------------------------- MODULE ChannelRegister ---------------------------
(***************************************************************************)
(* What the per-channel setters of Device promise, with no cache in sight: *)
(* every channel of the DSP has a record, and a call changes the fields it *)
(* is about and no other, once or, if it fails, never.  The docstrings of  *)
(* set_channel_volume, _mute and _polar say it ("preserving mute + delay", *)
(* ...).                                                                   *)
(***************************************************************************)
EXTENDS Integers

CONSTANTS
  Threads, Calls, \* callers, and the calls [op, ch, val] each of them makes
  NoCall, Keep,   \* no call in progress; set_channel's polar=None
  Channels,       \* output channels of the DSP
  Dbs, Delays,    \* gains and delays a caller may ask for
  MinDb, MaxDb,   \* the range the wire encoding can express
  Subidxs,        \* speaker-role bytes; 0 is the uninitialised one
  FactorySubidx   \* CHANNEL_SUBIDX[channel]

VARIABLES
  reg,            \* the record of each channel
  pending         \* the call of each thread that has yet to take effect

Clamped(db) == IF db > MaxDb THEN MaxDb ELSE IF db < MinDb THEN MinDb ELSE db

\* A channel that never had a speaker role gets the table's default one with
\* the first write.
Role(ch, s) == IF s = 0 THEN FactorySubidx[ch] ELSE s

Records == [db : MinDb..MaxDb, muted : BOOLEAN, polar : BOOLEAN,
            delay : Nat, subidx : Subidxs]

RegisterInit ==
  /\ reg \in [Channels -> Records]
  /\ pending = [t \in Threads |-> NoCall]

Set(ch, new) == reg' = [reg EXCEPT ![ch] = [new EXCEPT !.subidx = Role(ch, @)]]

Volume(ch, db)    == Set(ch, [reg[ch] EXCEPT !.db = Clamped(db)])
Mute(ch, muted)   == Set(ch, [reg[ch] EXCEPT !.muted = muted])
Polar(ch, polar)  == Set(ch, [reg[ch] EXCEPT !.polar = polar])
Delay(ch, delay)  == Set(ch, [reg[ch] EXCEPT !.delay = delay])
Speaker(ch, s)    == Set(ch, [reg[ch] EXCEPT !.subidx = s])

\* set_channel: gain, mute and delay together, the phase kept or given.
Basic(ch, a) ==
  Set(ch, [reg[ch] EXCEPT !.db = Clamped(a.db), !.muted = a.muted, !.delay = a.delay,
                          !.polar = IF a.polar = Keep THEN @ ELSE a.polar])

\* What a call does to the channel it is about.
Effect(c) ==
  \/ c.op = "volume"   /\ Volume(c.ch, c.val)
  \/ c.op = "mute"     /\ Mute(c.ch, c.val)
  \/ c.op = "polar"    /\ Polar(c.ch, c.val)
  \/ c.op = "ch_delay" /\ Delay(c.ch, c.val)
  \/ c.op = "template" /\ Speaker(c.ch, c.val)
  \/ c.op = "set"      /\ Basic(c.ch, c.val)

Ask(t) ==
  /\ pending[t] = NoCall
  /\ \E c \in Calls[t] : pending' = [pending EXCEPT ![t] = c]
  /\ UNCHANGED reg

\* The call takes effect, and will not do so again ...
Serve(t) ==
  /\ pending[t] # NoCall
  /\ pending' = [pending EXCEPT ![t] = NoCall]
  /\ Effect(pending[t])

\* ... or it ends without one: a read, or a write that raises.
End(t) ==
  /\ pending[t] # NoCall
  /\ pending' = [pending EXCEPT ![t] = NoCall]
  /\ UNCHANGED reg

RegisterNext == \E t \in Threads : Ask(t) \/ Serve(t) \/ End(t)

RegisterSpec == RegisterInit /\ [][RegisterNext]_<<reg, pending>>
=============================================================================
