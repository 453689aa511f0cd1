----------------------------- MODULE WebSession -----------------------------
(***************************************************************************)
(* webui.app: the callbacks of the browser's widgets, which Gradio runs in *)
(* threads, on the one DeviceSession and its reentrant lock.               *)
(*                                                                         *)
(*   Call    safe_call: up to two attempts, the lock free in between       *)
(*   Pick    do_pick_device: set_selector, then do_connect's safe_call     *)
(*   Flash   do_flash: the path of the current device, then flash_lock     *)
(*           around flash_firmware (module Flasher)                        *)
(*                                                                         *)
(* reconnect() and close() have no caller in the repository.               *)
(***************************************************************************)
EXTENDS Flasher

CONSTANTS
  Callers,   \* threads of the web server
  NoCaller,
  Serial, NoSerial, Aliases, Digits   \* see Discovery

ASSUME SessionAssumption ==
  /\ NoCaller \notin Callers
  /\ Units \subseteq Nat   \* numbered by their paths

\* The names of the units on a bus where each has its path.
D == INSTANCE Discovery WITH Ports <- Units
BusOf(S) == [u \in Units |-> IF u \in S THEN u ELSE NoUnit]

\* _label_to_selector: what do_pick_device makes of a label of the dropdown,
\* which a bus of some time ago may have filled, or of none.
Labels ==
  {D!NoSelector} \cup UNION {{D!FriendlyName(BusOf(S), u) : u \in S} : S \in SUBSET Units}

VARIABLES
  dev,        \* _dev: its unit, whether the handle is stale, whether connected
  selector,   \* _selector
  flashing,   \* _flashing
  lock,       \* holder of _lock
  pc,         \* where each callback is
  attempt,    \* its attempt of safe_call
  wish,       \* target_path of its do_flash
  calm        \* the selected unit has been well since the call began

session == <<dev, selector, flashing, lock>>
frames == <<pc, attempt, wish, calm>>
vars == <<mode, flasher, session, frames>>

NoDevice == [unit |-> NoUnit, stale |-> FALSE, connected |-> FALSE]

Goto(t, where) == pc' = [pc EXCEPT ![t] = where]
Free == lock = NoCaller

\* What a selector resolves to on the bus of the moment: a unit, or none.
Candidates(sel) == D!Resolved(BusOf({u \in Units : Present(u)}), sel)

\* Whatever the selector resolves to answers normally.
Well(sel) == Candidates(sel) # {} /\ \A u \in Candidates(sel) : mode[u] = "normal"

NobodyCalm == calm' = [t \in Callers |-> FALSE]
NotCalm(t) == calm' = [calm EXCEPT ![t] = FALSE]

Init ==
  /\ FlasherInit
  /\ dev = NoDevice
  /\ selector = D!NoSelector
  /\ flashing = FALSE
  /\ lock = NoCaller
  /\ pc = [t \in Callers |-> "idle"]
  /\ attempt = [t \in Callers |-> 1]
  /\ wish = [t \in Callers |-> NoUnit]
  /\ calm = [t \in Callers |-> FALSE]

-----------------------------------------------------------------------------
(* safe_call *)

\* safe_call's loop begins.
Begin(t) == Goto(t, "try") /\ attempt' = [attempt EXCEPT ![t] = 1]

\* A widget's callback.
Call(t) ==
  /\ pc[t] = "idle"
  /\ Begin(t)
  /\ calm' = [calm EXCEPT ![t] = Well(selector) /\ ~flashing]
  /\ UNCHANGED <<mode, flasher, session, wish>>

\* `with self._lock', `if self._flashing', `if self._dev is not None'.  A
\* flash keeps the lock, so that no caller sees the flag set.
Attempt(t) ==
  /\ pc[t] = "try"
  /\ Free
  /\ ~flashing
  /\ lock' = t
  /\ Goto(t, IF dev = NoDevice THEN "open" ELSE "fn")
  /\ UNCHANGED <<mode, flasher, dev, selector, flashing, attempt, wish, calm>>

\* Faulty variant: a failed attempt keeps the Device.
FailedKeeps(t) ==
  /\ dev' = dev
  /\ lock' = NoCaller
  /\ Goto(t, "nap")

\* `except (DeviceNotFound, ProtocolError, OSError)': _close_locked.
Failed(t) ==
  /\ dev' = NoDevice
  /\ lock' = NoCaller
  /\ Goto(t, "nap")

\* _ensure_locked: Device.open returns and _dev is set before connect().
Open(t) ==
  /\ pc[t] = "open"
  /\ \E u \in Candidates(selector) :
       dev' = [unit |-> u, stale |-> FALSE, connected |-> FALSE]
  /\ Goto(t, "connect")
  /\ UNCHANGED <<mode, flasher, selector, flashing, lock, attempt, wish, calm>>

\* Device.open raises: nothing there, or the open fails.
OpenFails(t) ==
  /\ pc[t] = "open"
  /\ Failed(t)
  /\ IF Candidates(selector) = {} THEN UNCHANGED calm ELSE NotCalm(t)
  /\ UNCHANGED <<mode, flasher, selector, flashing, attempt, wish>>

\* The unit can answer the session's exchanges.
Answers == ~dev.stale /\ mode[dev.unit] = "normal"

Connect(t) ==
  /\ pc[t] = "connect"
  /\ Answers
  /\ dev' = [dev EXCEPT !.connected = TRUE]
  /\ Goto(t, "fn")
  /\ UNCHANGED <<mode, flasher, selector, flashing, lock, attempt, wish, calm>>

\* connect() or fn(dev) fails: without fault of the unit, the call is not calm.
ExchangeFails(t) ==
  /\ pc[t] \in {"connect", "fn"}
  /\ Failed(t)
  /\ IF Answers THEN NotCalm(t) ELSE UNCHANGED calm
  /\ UNCHANGED <<mode, flasher, selector, flashing, attempt, wish>>

\* fn(dev) returns, or raises what safe_call does not catch (ValueError for a
\* bad argument, before any exchange): the Device is kept, stale or not.
Finish(t) ==
  /\ pc[t] = "fn"
  /\ lock' = NoCaller
  /\ Goto(t, "idle")
  /\ UNCHANGED <<mode, flasher, dev, selector, flashing, attempt, wish, calm>>

\* Faulty variant: there is a third attempt.
NapTwice(t) ==
  /\ pc[t] = "nap"
  /\ Goto(t, IF attempt[t] <= 2 THEN "try" ELSE "failed")
  /\ attempt' = [attempt EXCEPT ![t] = attempt[t] + 1]
  /\ UNCHANGED <<mode, flasher, session, wish, calm>>

\* time.sleep(0.2) ends: the other attempt, or `raise last'.
Nap(t) ==
  /\ pc[t] = "nap"
  /\ Goto(t, IF attempt[t] = 1 THEN "try" ELSE "failed")
  /\ attempt' = [attempt EXCEPT ![t] = 2]
  /\ UNCHANGED <<mode, flasher, session, wish, calm>>

\* The callback shows the error.
Report(t) ==
  /\ pc[t] = "failed"
  /\ Goto(t, "idle")
  /\ UNCHANGED <<mode, flasher, session, attempt, wish, calm>>

-----------------------------------------------------------------------------
(* do_pick_device *)

\* Faulty variant: set_selector leaves the Device open.
PickKeeps(t, sel) ==
  /\ pc[t] = "idle"
  /\ Free
  /\ dev' = dev
  /\ selector' = sel
  /\ Begin(t)
  /\ calm' = [c \in Callers |-> c = t /\ Well(sel)]
  /\ UNCHANGED <<mode, flasher, flashing, lock, wish>>

\* set_selector, then do_connect.
Pick(t, sel) ==
  /\ pc[t] = "idle"
  /\ Free
  /\ dev' = IF sel = selector THEN dev ELSE NoDevice
  /\ selector' = sel
  /\ Begin(t)
  /\ calm' = [c \in Callers |-> c = t /\ Well(sel)]
  /\ UNCHANGED <<mode, flasher, flashing, lock, wish>>

-----------------------------------------------------------------------------
(* do_flash *)

\* current_device_path.
Flash(t) ==
  /\ pc[t] = "idle"
  /\ Free
  /\ wish' = [wish EXCEPT ![t] = dev.unit]
  /\ Goto(t, IF dev = NoDevice THEN "resolve" ELSE "wait")
  /\ UNCHANGED <<mode, flasher, session, attempt, calm>>

\* SESSION.selector and resolve_selector, when nothing is open.
Resolve(t) ==
  /\ pc[t] = "resolve"
  /\ Free
  /\ \/ /\ \E u \in Candidates(selector) : wish' = [wish EXCEPT ![t] = u]
        /\ Goto(t, "wait")
     \/ Candidates(selector) = {} /\ Goto(t, "idle") /\ UNCHANGED wish
  /\ UNCHANGED <<mode, flasher, session, attempt, calm>>

\* Faulty variant: the flash waits for no callback.
FlashAtOnce(t) ==
  /\ pc[t] = "wait"
  /\ ~flashing
  /\ lock' = t
  /\ dev' = NoDevice
  /\ flashing' = TRUE
  /\ FlashStart(wish[t])
  /\ Goto(t, "flash")
  /\ NobodyCalm
  /\ UNCHANGED <<selector, attempt, wish>>

\* flash_lock is entered and flash_firmware called.
FlashLock(t) ==
  /\ pc[t] = "wait"
  /\ Free
  /\ lock' = t
  /\ dev' = NoDevice
  /\ flashing' = TRUE
  /\ FlashStart(wish[t])
  /\ Goto(t, "flash")
  /\ NobodyCalm
  /\ UNCHANGED <<selector, attempt, wish>>

\* flash_firmware goes on.
Upload ==
  /\ FlashStep
  /\ UNCHANGED <<session, frames>>

\* flash_firmware has returned or raised: `finally' of flash_lock.
FlashUnlock(t) ==
  /\ pc[t] = "flash"
  /\ fpc \in {"raised", "returned"}
  /\ fpc' = "idle"
  /\ target' = NoUnit
  /\ flashing' = FALSE
  /\ lock' = NoCaller
  /\ wish' = [wish EXCEPT ![t] = NoUnit]
  /\ Goto(t, "idle")
  /\ UNCHANGED <<mode, hid, tries, sent, received, dev, selector, attempt, calm>>

-----------------------------------------------------------------------------
(* The units *)

Stale(u) == dev' = IF dev.unit = u THEN [dev EXCEPT !.stale = TRUE] ELSE dev

UnitStep(u) ==
  /\ \/ Unplug(u) /\ Stale(u)
     \/ Reenumerate(u) /\ Stale(u)
     \/ Return(u) /\ UNCHANGED dev
  /\ NobodyCalm
  /\ UNCHANGED <<fpc, target, tries, sent, received, selector, flashing, lock, pc, attempt, wish>>

\* A callback is inside the lock, or at the end of a flash.
Inside(t) == Open(t) \/ OpenFails(t) \/ Connect(t) \/ ExchangeFails(t) \/ Finish(t) \/ FlashUnlock(t)

Next ==
  \/ \E t \in Callers :
       \/ Call(t) \/ Attempt(t) \/ Inside(t) \/ Nap(t) \/ Report(t)
       \/ \E sel \in Labels : Pick(t, sel)
       \/ Flash(t) \/ Resolve(t) \/ FlashLock(t)
  \/ Upload
  \/ \E u \in Units : UnitStep(u)

Spec == Init /\ [][Next]_vars

\* A callback that holds the lock runs on, and every wait of flash_firmware
\* has a timeout.  Nothing is assumed of the units or of who gets the lock.
FairSpec == Spec /\ WF_vars(Upload) /\ \A t \in Callers : WF_vars(Inside(t))

-----------------------------------------------------------------------------
(* Properties *)

\* Every variable stays in its domain.
TypeOK ==
  /\ FlasherTypeOK
  /\ dev \in [unit : Units \cup {NoUnit}, stale : BOOLEAN, connected : BOOLEAN]
  /\ selector \in Labels
  /\ flashing \in BOOLEAN
  /\ lock \in Callers \cup {NoCaller}
  /\ pc \in [Callers -> {"idle", "try", "open", "connect", "fn", "nap", "failed",
                         "resolve", "wait", "flash"}]
  /\ attempt \in [Callers -> {1, 2}]
  /\ wish \in [Callers -> Units \cup {NoUnit}]
  /\ calm \in [Callers -> BOOLEAN]

\* do_flash: "no other widget callback can steal the USB handle mid-flash".
\* While the flasher has a handle the session has none, and no callback is
\* inside safe_call's locked region.
FlashIsExclusive ==
  hid # Closed \/ flashing =>
    /\ dev = NoDevice
    /\ \A t \in Callers : pc[t] \notin {"open", "connect", "fn"}

\* The names of a unit: those it had, or may get, on any bus.
Names(u) ==
  {D!Name("serial", Serial[u], 0), D!Name("path", NoSerial, u)}
    \cup UNION {{D!FriendlyName(BusOf(S), u), D!DisplayId(BusOf(S), u)} :
                  S \in {S \in SUBSET Units : u \in S}}

\* The unit may be meant by the selector: it is one of its names, or does not
\* ask for a name.
Means(sel, u) == sel = D!NoSelector \/ sel \in DOMAIN Digits \/ sel \in Names(u)

\* The Device the next callback will find belongs to a unit the selector of
\* now may mean, and its connect() succeeded: no callback that was under way
\* puts back the Device of a selector that was given up.
DevIsPicked == Free /\ dev # NoDevice => dev.connected /\ Means(selector, dev.unit)

\* "pick which one you're editing from the Device dropdown" (app.py:528): the
\* Device is the unit the dropdown shows under that name.
DevIsResolved ==
  Free /\ dev # NoDevice /\ Present(dev.unit) => Candidates(selector) = {dev.unit}

\* safe_call, "re-establishing the connection once if the first attempt
\* fails": two attempts are enough to get rid of a handle that went stale.  A
\* call fails only if, since it began, the selected unit did not answer, came
\* or went, or another was picked or flashed.
OneRetryHeals == \A t \in Callers : pc[t] = "failed" => ~calm[t]

\* The session's lock always comes back, from a call and from a flash, even
\* if the unit never answers or never re-enumerates.
LockReturns == \A t \in Callers : (lock = t) ~> (lock # t)

\* do_flash: "Flash the selected .bin firmware onto the currently-picked
\* device".
FlashHitsPicked == flashing => Means(selector, target)

-----------------------------------------------------------------------------
(* An inductive invariant *)

\* Whoever is inside a locked region holds the lock.
LockHeld == \A t \in Callers : lock = t <=> pc[t] \in {"open", "connect", "fn", "flash"}

\* The flag, the flasher and a callback inside flash_lock go together.
FlagMeaning ==
  /\ flashing <=> fpc # "idle"
  /\ flashing <=> \E t \in Callers : pc[t] = "flash"
  /\ flashing => dev = NoDevice
  /\ \A t \in Callers : pc[t] = "wait" => wish[t] \in Units

\* What _dev is at each step of safe_call; a handle that is not stale is on a
\* unit that is there, and well if connect() succeeded.
DevMeaning ==
  /\ dev # NoDevice =>
       /\ dev.unit \in Units
       /\ Means(selector, dev.unit)
       /\ dev.stale \/ Present(dev.unit)
       /\ dev.connected => dev.stale \/ mode[dev.unit] = "normal"
       /\ Free => dev.connected
  /\ \A t \in Callers :
       /\ pc[t] = "open" => dev = NoDevice
       /\ pc[t] \in {"connect", "fn"} => dev # NoDevice
       /\ pc[t] = "fn" => dev.connected

\* A second attempt meets no stale handle, unless the unit came or went, and
\* what it opens is what the selector resolves to.
RetryMeaning ==
  \A t \in Callers : calm[t] =>
    /\ Well(selector) /\ ~flashing
    /\ pc[t] # "failed"
    /\ pc[t] = "nap" => attempt[t] = 1 /\ ~dev.stale
    /\ pc[t] = "connect" => dev.unit \in Candidates(selector)
    /\ attempt[t] = 2 /\ pc[t] \in {"try", "open", "connect", "fn"} => ~dev.stale

SessionInv ==
  TypeOK /\ HandleInUse /\ UploadInOrder /\ LockHeld /\ FlagMeaning /\ DevMeaning /\ RetryMeaning
=============================================================================
