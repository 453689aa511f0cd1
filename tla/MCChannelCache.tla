--------------------------- MODULE MCChannelCache ---------------------------
(* Small instances of ChannelCache: one or two channels, two gains beyond   *)
(* the default one, of which one is above the wire's maximum.               *)
EXTENDS ChannelCache

CONSTANTS c1, c2, t1, t2

Op(op, ch, val) == [op |-> op, ch |-> ch, val |-> val]
Rec(db, muted, polar, delay, subidx) ==
  [db |-> db, muted |-> muted, polar |-> polar, delay |-> delay, subidx |-> subidx]

MCMinDb == -2
MCDbs == {-2, 1}
MCDelays == {0, 1}
MCFactory == [ch \in Channels |-> 1]

\* A user's tuning, and a device whose structures were never initialised.
Tuned == [ch \in Channels |-> Rec(-1, TRUE, TRUE, 1, 2)]
Blank == [ch \in Channels |-> Rec(0, FALSE, FALSE, 0, 0)]
MCPresets == {Tuned, Blank}

Get(ch) == {Op("get", ch, 0)}
Volume(ch) == {Op("volume", ch, db) : db \in MCDbs}
Mute(ch) == {Op("mute", ch, m) : m \in BOOLEAN}
Polar(ch) == {Op("polar", ch, p) : p \in BOOLEAN}
SetChannel(ch) ==
  {Op("set", ch, [db |-> -2, muted |-> FALSE, delay |-> 0, polar |-> p]) : p \in {Keep, TRUE}}
ChDelay(ch) == {Op("ch_delay", ch, 1)}
Template(ch) == {Op("template", ch, s) : s \in {0, 2}}
Full(ch) == {Op("full", ch, Rec(-2, FALSE, TRUE, 0, 2))}

Setters(ch) == Get(ch) \cup Volume(ch) \cup Mute(ch) \cup Polar(ch) \cup SetChannel(ch)

AllCalls == [t \in Threads |->
  Setters(c1) \cup ChDelay(c1) \cup Template(c1) \cup Full(c1)
    \cup {Op("load", c1, 0), Op("reset", c1, 0)}]
SetterCalls == [t \in Threads |-> Setters(c1)]
OwnChannel == [t \in Threads |-> IF t = t1 THEN Setters(c1)
                               ELSE Get(c2) \cup Mute(c2) \cup Polar(c2)]

\* The worker's poll reads while paho's thread serves two commands.
PollRace == [t \in Threads |-> IF t = t1 THEN Get(c1) ELSE Volume(c1) \cup Mute(c1)]
DelayFirst == [t \in Threads |-> ChDelay(c1)]
TemplateFirst == [t \in Threads |-> {Op("template", c1, 2)}]
TemplateNone == [t \in Threads |-> {Op("template", c1, 0)}]
FullThenMute == [t \in Threads |-> Get(c1) \cup Full(c1) \cup Mute(c1)]
MuteOnly == [t \in Threads |-> Mute(c1)]
=============================================================================
