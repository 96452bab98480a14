------------------------------ MODULE Drivers ------------------------------
(***************************************************************************)
(* The drivers of devices that share neither ports nor variables with each *)
(* other: keyboard and mouse, the cursor of the display, the serial line.  *)
(* What one does cannot be seen by another, so a behaviour exercises one.  *)
(***************************************************************************)
EXTENDS Ps2, Cursor, Serial

VARIABLE device

Init == /\ device \in {"ps2", "cursor", "serial"}
        /\ Ps2Init /\ CursorInit /\ SerialInit

Next ==
  \/ device = "ps2" /\ Ps2Next /\ UNCHANGED <<device, cursor_vars, serial_vars>>
  \/ device = "cursor" /\ CursorNext /\ UNCHANGED <<device, ps2_vars, serial_vars>>
  \/ device = "serial" /\ SerialNext /\ UNCHANGED <<device, ps2_vars, cursor_vars>>

Spec == Init /\ [][Next]_<<device, ps2_vars, cursor_vars, serial_vars>>
=============================================================================
