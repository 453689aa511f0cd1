------------------------------ MODULE Flasher ------------------------------
(***************************************************************************)
(* dsp408.flasher.flash_firmware: the upload of a firmware image, against  *)
(* a DSP that may ignore a command, lose its answer, re-enumerate early or *)
(* late, or be unplugged at any step.                                      *)
(*                                                                         *)
(* A HID handle is a record that says which unit it was opened on and      *)
(* whether that unit has left the bus since; an I/O on a stale handle      *)
(* raises OSError.  The unit answers a firmware command only if it took    *)
(* it.  Of the image only the number of a block matters.                   *)
(***************************************************************************)
EXTENDS Naturals, Sequences

CONSTANTS
  Units,        \* DSP-408s on the USB bus, each with a path of its own
  NoUnit,
  ImageBytes,   \* length of the .bin file without its 8-byte prefix
  BlockSize,    \* BLOCK_SIZE, 48
  ReopenTries   \* attempts of _reopen; 30 in the code

ASSUME FlasherAssumption ==
  /\ NoUnit \notin Units
  /\ ImageBytes \in Nat /\ BlockSize \in Nat \ {0} /\ ReopenTries \in Nat \ {0}

VARIABLES
  mode,     \* what each unit is doing
  fpc,      \* where flash_firmware is
  target,   \* unit at the path it was given
  hid,      \* its handle
  tries,    \* attempts of _reopen so far
  sent,     \* blocks sent and acknowledged
  received  \* what the target took of this upload: 0 is the metadata

flasher == <<fpc, target, hid, tries, sent, received>>

Closed == [unit |-> NoUnit, stale |-> FALSE]
Opened(u) == [unit |-> u, stale |-> FALSE]

\* The unit is on the bus and can be opened.
Present(u) == mode[u] \notin {"gone", "away"}

\* blocks
Blocks == (ImageBytes + BlockSize - 1) \div BlockSize

FlasherInit ==
  /\ mode \in [Units -> {"gone", "normal", "boot"}]
  /\ fpc = "idle"
  /\ target = NoUnit
  /\ hid = Closed
  /\ tries = 0
  /\ sent = 0
  /\ received = <<>>

-----------------------------------------------------------------------------
(* flash_firmware *)

\* flash_firmware is called with a device_path.
FlashStart(u) ==
  /\ fpc = "idle"
  /\ fpc' = "open"
  /\ target' = u
  /\ tries' = 0
  /\ sent' = 0
  /\ received' = <<>>
  /\ UNCHANGED <<mode, hid>>

\* FirmwareError after hid.close(), or OSError; the handle is released.
Raise == fpc' = "raised" /\ hid' = Closed

\* Step 0.
FlashOpen ==
  /\ fpc = "open"
  /\ \/ Present(target) /\ fpc' = "enter" /\ hid' = Opened(target)
     \/ Raise
  /\ UNCHANGED <<mode, target, tries, sent, received>>

\* Steps 1 and 2: CONNECT, whose reply is optional, and the trigger frames,
\* whose answers are drained.  The unit may not have heard them.
FlashEnter ==
  /\ fpc = "enter"
  /\ \/ ~hid.stale /\ fpc' = "prep" /\ UNCHANGED hid
     \/ Raise
  /\ \/ UNCHANGED mode
     \/ /\ ~hid.stale
        /\ mode[target] = "normal"
        /\ mode' = [mode EXCEPT ![target] = "armed"]
  /\ UNCHANGED <<target, tries, sent, received>>

\* The unit takes a command that is sent while it is in one of the modes ms.
Takes(ms) == ~hid.stale /\ mode[target] \in ms

\* Step 3: the unit took cmd=0x36; with or without the ack the handle is closed.
FlashPrep ==
  /\ fpc = "prep"
  /\ Takes({"armed", "boot"})
  /\ mode' = [mode EXCEPT ![target] = "leaving"]
  /\ fpc' \in {"reopen", "raised"}
  /\ hid' = Closed
  /\ UNCHANGED <<target, tries, sent, received>>

\* No ack, or an hid error: the command was not taken.
FlashUnheard ==
  /\ fpc \in {"prep", "meta", "blocks"}
  /\ fpc = "blocks" => sent < Blocks
  /\ Raise
  /\ UNCHANGED <<mode, target, tries, sent, received>>

\* Step 4: an attempt of _reopen succeeds, perhaps on the unit that has not
\* gone yet.
FlashReopen ==
  /\ fpc = "reopen"
  /\ tries < ReopenTries
  /\ Present(target)
  /\ hid' = Opened(target)
  /\ fpc' = "meta"
  /\ UNCHANGED <<mode, target, tries, sent, received>>

\* Faulty variant: the attempts are not counted.
RetryForever ==
  /\ fpc = "reopen"
  /\ UNCHANGED <<mode, flasher>>

\* An attempt fails; after the last one FirmwareError is raised.
FlashRetry ==
  /\ fpc = "reopen"
  /\ tries < ReopenTries
  /\ tries' = tries + 1
  /\ fpc' = IF tries' = ReopenTries THEN "raised" ELSE "reopen"
  /\ UNCHANGED <<mode, target, hid, sent, received>>

\* Step 5: the unit took the metadata; the ack arrives, or not in time.
FlashMeta ==
  /\ fpc = "meta"
  /\ Takes({"boot"})
  /\ received' = Append(received, 0)
  /\ \/ fpc' = "blocks" /\ UNCHANGED hid
     \/ Raise
  /\ UNCHANGED <<mode, target, tries, sent>>

\* Faulty variant: the loop goes on without the ack.
BlockUnchecked ==
  /\ fpc = "blocks"
  /\ sent < Blocks
  /\ sent' = sent + 1
  /\ \/ UNCHANGED received
     \/ Takes({"boot"}) /\ received' = Append(received, sent + 1)
  /\ UNCHANGED <<mode, fpc, target, hid, tries>>

\* Step 6: the unit took the next block; the ack arrives, or not in time.
FlashBlock ==
  /\ fpc = "blocks"
  /\ sent < Blocks
  /\ Takes({"boot"})
  /\ received' = Append(received, sent + 1)
  /\ \/ sent' = sent + 1 /\ UNCHANGED <<fpc, hid>>
     \/ Raise /\ UNCHANGED sent
  /\ UNCHANGED <<mode, target, tries>>

\* Step 7: cmd=0x39 is sent; its answer, if any, is not looked at.  The unit
\* may not have heard it, else it reboots; if it is gone before the read ends,
\* the read raises although the unit was updated.
FlashApply ==
  /\ fpc = "blocks"
  /\ sent = Blocks
  /\ \/ ~hid.stale /\ fpc' = "returned" /\ hid' = Closed
     \/ Raise
  /\ \/ UNCHANGED mode
     \/ Takes({"boot"}) /\ mode' = [mode EXCEPT ![target] = "gone"]
  /\ UNCHANGED <<target, tries, sent, received>>

FlashStep ==
  \/ FlashOpen \/ FlashEnter \/ FlashPrep \/ FlashUnheard
  \/ FlashReopen \/ FlashRetry \/ FlashMeta \/ FlashBlock \/ FlashApply

-----------------------------------------------------------------------------
(* The units: external *)

\* The unit disappears from the bus for any reason.
Leaves(u, m) ==
  /\ mode' = [mode EXCEPT ![u] = m]
  /\ hid' = IF hid.unit = u THEN [hid EXCEPT !.stale = TRUE] ELSE hid

\* It is unplugged, or loses power.
Unplug(u) == Present(u) /\ Leaves(u, "gone")

\* After cmd=0x36 it re-enumerates, sooner or later.
Reenumerate(u) == mode[u] = "leaving" /\ Leaves(u, "away")

\* It comes back: in the bootloader, or with the firmware it has.
Return(u) ==
  /\ \/ mode[u] = "away" /\ mode' = [mode EXCEPT ![u] = "boot"]
     \/ mode[u] = "gone" /\ \E m \in {"normal", "boot"} : mode' = [mode EXCEPT ![u] = m]
  /\ UNCHANGED hid

-----------------------------------------------------------------------------
(* Properties *)

FlasherTypeOK ==
  /\ mode \in [Units -> {"gone", "normal", "armed", "leaving", "away", "boot"}]
  /\ fpc \in {"idle", "open", "enter", "prep", "reopen", "meta", "blocks", "raised", "returned"}
  /\ target \in Units \cup {NoUnit}
  /\ hid \in [unit : Units \cup {NoUnit}, stale : BOOLEAN]
  /\ tries \in 0..ReopenTries
  /\ sent \in Nat
  /\ received \in Seq(Nat)

\* The byte at this offset of the image is in the unit, at its place.
Written(b) == LET i == 2 + b \div BlockSize IN i <= Len(received) /\ received[i] = i - 1

\* flash_firmware returns without an error only when the unit took the
\* metadata first and then every byte of the image, each block once and in
\* its place, whatever answers were lost and however the unit came and went.
SuccessIsWhole ==
  fpc = "returned" =>
    /\ received[1] = 0
    /\ \A b \in 0..(ImageBytes - 1) : Written(b)
    /\ Len(received) = 1 + Blocks

\* do_flash: "OK --- device rebooting" (app.py:515) is logged for a unit that
\* took the apply command.
AppliedOnReturn ==
  [][fpc # "returned" /\ fpc' = "returned" => mode'[target] = "gone"]_<<mode, flasher>>

-----------------------------------------------------------------------------
(* Parts of an inductive invariant *)

\* The flasher has a handle between an open and the close that follows, on
\* the unit it was given.
HandleInUse ==
  /\ fpc # "idle" => target \in Units
  /\ hid = Closed \/ fpc \in {"enter", "prep", "meta", "blocks"}
  /\ fpc \in {"enter", "prep", "meta", "blocks"} => hid.unit = target

\* The metadata and the blocks that were acknowledged, in order.
Taken(n) == [k \in 1..(n + 1) |-> k - 1]
UploadInOrder ==
  /\ fpc \in {"open", "enter", "prep", "reopen", "meta"} => sent = 0 /\ received = <<>>
  /\ fpc = "blocks" => sent <= Blocks /\ received = Taken(sent)
  /\ fpc = "returned" => received = Taken(Blocks)
=============================================================================
