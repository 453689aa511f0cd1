------------------------------ MODULE Discovery ------------------------------
(***************************************************************************)
(* How dsp408 names the DSPs on the bus: enumerate_devices, the display    *)
(* id, the alias of dsp408.config and resolve_selector.  A bus is a        *)
(* function from hidapi's paths to units.  The strings of the code are     *)
(* names here: a serial number, a serial number with an index, the hash of *)
(* a path, a path, an alias; strings made in different ways differ.        *)
(***************************************************************************)
EXTENDS Naturals, FiniteSets

CONSTANTS
  Ports,      \* paths; hidapi lists them in ascending order
  Units,      \* DSPs
  Serial,     \* the serial number a unit reports, NoSerial for none
  NoSerial,
  NoUnit,     \* nothing at a path
  Aliases,    \* the aliases in force: a function from some names to names
  Digits      \* the strings that are all digits: a function to their numbers

\* The strings of the code: its form says how one was made.
Name(form, serial, n) == [form |-> form, serial |-> serial, n |-> n]

NoSelector == Name("none", NoSerial, 0)

\* The display ids there are.
Serials == {Serial[u] : u \in Units} \ {NoSerial}
DisplayIds ==
  {Name("serial", s, 0) : s \in Serials}
    \cup {Name("indexed", s, i) : s \in Serials, i \in 0..Cardinality(Ports)}
    \cup {Name("hash", NoSerial, p) : p \in Ports}

ASSUME DiscoveryAssumption ==
  /\ Ports \subseteq Nat /\ IsFiniteSet(Ports)
  /\ DOMAIN Serial = Units
  /\ NoUnit \notin Units

\* Where hidapi finds a DSP, whatever the number of its interfaces.
Plugged(bus) == {p \in Ports : bus[p] # NoUnit}

\* Buses: a unit is at one path at most.
Buses ==
  {bus \in [Ports -> Units \cup {NoUnit}] :
     \A p, q \in Ports : bus[p] = bus[q] /\ bus[p] # NoUnit => p = q}

Index(bus, p) == Cardinality({q \in Plugged(bus) : q < p})

\* _build_display_id: the serial number if it is unique on the bus, with an
\* index if it is not, a hash of the path if there is none.
DisplayId(bus, p) ==
  LET s == Serial[bus[p]]
  IN  IF s = NoSerial THEN Name("hash", NoSerial, p)
      ELSE IF \A q \in Plugged(bus) : Serial[bus[q]] = s => q = p THEN Name("serial", s, 0)
      ELSE Name("indexed", s, Index(bus, p))

\* friendly_name_for: the first of serial number, display id and path that has
\* an alias; without one the display id itself.
FriendlyName(bus, p) ==
  LET serial == Name("serial", Serial[bus[p]], 0)
      id == DisplayId(bus, p)
      path == Name("path", NoSerial, p)
  IN  IF Serial[bus[p]] # NoSerial /\ serial \in DOMAIN Aliases THEN Aliases[serial]
      ELSE IF id \in DOMAIN Aliases THEN Aliases[id]
      ELSE IF path \in DOMAIN Aliases THEN Aliases[path]
      ELSE id

\* The first path of a set, as the loops of _resolve_selector return it.
First(S) == {p \in S : \A q \in S : p <= q}

At(bus, i) == {p \in Plugged(bus) : Index(bus, p) = i}

\* _resolve_selector: the path it picks, the empty set for DeviceNotFound.  No
\* selector picks the first device; a string of digits picks the device with
\* that index, whoever is called so.
Resolved(bus, sel) ==
  LET friendly == {p \in Plugged(bus) : FriendlyName(bus, p) = sel}
      display == {p \in Plugged(bus) : DisplayId(bus, p) = sel}
      serial == {p \in Plugged(bus) : Name("serial", Serial[bus[p]], 0) = sel}
      path == {p \in Plugged(bus) : Name("path", NoSerial, p) = sel}
  IN  IF sel = NoSelector THEN At(bus, 0)
      ELSE IF sel \in DOMAIN Digits THEN At(bus, Digits[sel])
      ELSE IF friendly # {} THEN First(friendly)
      ELSE IF display # {} THEN First(display)
      ELSE IF serial # {} THEN First(serial)
      ELSE path

-----------------------------------------------------------------------------
(* Properties of a bus *)

\* "the library must still give them distinct, stable identifiers"
\* (tests/test_multi_device.py:6), for a user who hands the id he was shown
\* back as a selector.
IdsIdentify(bus) ==
  \A p \in Plugged(bus) : Resolved(bus, DisplayId(bus, p)) = {p}
=============================================================================
