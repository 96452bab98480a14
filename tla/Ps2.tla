-------------------------------- MODULE Ps2 --------------------------------
(***************************************************************************)
(* kernel/drivers/keyboard.rs and kernel/drivers/ps2_mouse.c, which share  *)
(* the one output buffer of the keyboard controller.  The keyboard is      *)
(* polled, in two steps; mouse_handler is an interrupt handler, so it runs *)
(* whole, between any two steps of the mainline.                           *)
(***************************************************************************)
EXTENDS Integers, Sequences

CONSTANTS Keys,           \* scancodes of the keys that are pressed
          Packets,        \* the movements the mouse reports, three bytes each
          XMAX, YMAX,     \* 1024 and 768
          NoByte,
          MaxEvents       \* bound: key events and packets in a run

ASSUME Ps2Constants ==
  /\ Keys \subseteq 0 .. 127
  /\ Packets \subseteq [1 .. 3 -> 0 .. 255]
  /\ XMAX \in Nat /\ YMAX \in Nat /\ MaxEvents \in Nat

VARIABLES obuf,           \* the output buffer: NoByte or [for, byte]; bit 5 of
                          \* the status is clear when it is for the keyboard
          last,           \* the byte last read from it, which port 0x60 repeats
          down,           \* the keys held down
          kbd,            \* struct Keyboard
          kpc,            \* the mainline: polling, or inside mouse_init
          packet,         \* what the mouse has still to send
          ack,            \* the mouse owes the answer to a command
          mouse,          \* mouse_x, mouse_y, mouse_buttons, mouse_cycle, mouse_packet
          goal,           \* ghost: where the reported movements lead
          crossed,        \* ghost: a byte has been read by the wrong driver
          events          \* ghost: key events and packets so far

ps2_vars == <<obuf, last, down, kbd, kpc, packet, ack, mouse, goal, crossed, events>>

LSHIFT == 42
RSHIFT == 54
CTRL == 29
ALT == 56
CAPS == 58
Break == 128              \* a key's release is its scancode plus this
ACK == 250
Header(b) == (b \div 8) % 2 = 1

Signed(b) == IF b < 128 THEN b ELSE b - 256

Clamp(v, max) == IF v < 0 THEN 0 ELSE IF v > max THEN max ELSE v

Ps2Init ==
  /\ obuf = NoByte /\ last = 0
  /\ down = {}
  /\ kbd = [shift |-> FALSE, caps |-> FALSE, ctrl |-> FALSE, alt |-> FALSE]
  /\ kpc = "idle"
  /\ packet = <<>> /\ ack = FALSE
  /\ mouse = [x |-> 0, y |-> 0, buttons |-> 0, cycle |-> 0, packet |-> <<0, 0, 0>>]
  /\ goal = <<0, 0>>
  /\ crossed = FALSE /\ events = 0
-----------------------------------------------------------------------------
(* The hardware.                                                           *)

KeyEvent(k) ==
  /\ obuf = NoByte /\ events < MaxEvents
  /\ obuf' = [for |-> "key", byte |-> IF k \in down THEN k + Break ELSE k]
  /\ down' = IF k \in down THEN down \ {k} ELSE down \union {k}
  /\ events' = events + 1
  /\ UNCHANGED <<last, kbd, kpc, packet, ack, mouse, goal, crossed>>

MouseMoves(p) ==
  /\ packet = <<>> /\ events < MaxEvents
  /\ packet' = p
  /\ goal' = <<Clamp(goal[1] + Signed(p[2]), XMAX), Clamp(goal[2] - Signed(p[3]), YMAX)>>
  /\ events' = events + 1
  /\ UNCHANGED <<obuf, last, down, kbd, kpc, ack, mouse, crossed>>

\* An answer goes out between packets.
MouseSends ==
  /\ obuf = NoByte
  /\ \/ /\ ack /\ Len(packet) \in {0, 3}
        /\ ack' = FALSE
        /\ obuf' = [for |-> "init", byte |-> ACK]
        /\ UNCHANGED packet
     \/ /\ packet # <<>>
        /\ obuf' = [for |-> "mouse", byte |-> Head(packet)]
        /\ packet' = Tail(packet)
        /\ UNCHANGED ack
  /\ UNCHANGED <<last, down, kbd, kpc, mouse, goal, crossed, events>>

\* Port 0x60: the byte in the buffer, or the last one again.
Port60 == IF obuf = NoByte THEN last ELSE obuf.byte
BufferFor(reader) == obuf # NoByte /\ obuf.for = reader
ReadPort60(reader) ==
  /\ obuf' = NoByte /\ last' = Port60
  /\ crossed' = (crossed \/ ~BufferFor(reader))
-----------------------------------------------------------------------------
(* The keyboard driver.                                                    *)

MutModifiers(k, code) ==
  [k EXCEPT !.ctrl  = (code = CTRL) \/ (@ /\ code # CTRL + Break),
            !.alt   = (code = ALT) \/ (@ /\ code # ALT + Break),
            !.shift = code \in {LSHIFT, RSHIFT} \/ (@ /\ code # LSHIFT + Break),
            !.caps  = (@ # (code = CAPS))]

\* The modifier part of handle_scancode.
Modifiers(k, code) ==
  [k EXCEPT !.ctrl  = (code = CTRL) \/ (@ /\ code # CTRL + Break),
            !.alt   = (code = ALT) \/ (@ /\ code # ALT + Break),
            !.shift = code \in {LSHIFT, RSHIFT}
                        \/ (@ /\ code \notin {LSHIFT + Break, RSHIFT + Break}),
            !.caps  = (@ # (code = CAPS))]

\* read_scancode: the status, then the data when bit 0 of it was set.
read_scancode ==
  /\ kpc = "idle" /\ obuf # NoByte
  /\ kpc' = "data"
  /\ UNCHANGED <<obuf, last, down, kbd, packet, ack, mouse, goal, crossed, events>>

handle_scancode ==
  /\ kpc = "data"
  /\ ReadPort60("key")
  /\ kbd' = Modifiers(kbd, Port60)
  /\ kpc' = "idle"
  /\ UNCHANGED <<down, packet, ack, mouse, goal, events>>

reset_modifiers ==
  /\ kpc = "idle"
  /\ kbd' = [kbd EXCEPT !.shift = FALSE, !.ctrl = FALSE, !.alt = FALSE]
  /\ UNCHANGED <<obuf, last, down, kpc, packet, ack, mouse, goal, crossed, events>>
-----------------------------------------------------------------------------
(* The mouse driver.                                                       *)

MutDecode(m, data) ==
  LET p == [m.packet EXCEPT ![m.cycle + 1] = data] IN
  CASE m.cycle = 0 -> [m EXCEPT !.packet = p, !.cycle = IF Header(data) THEN 1 ELSE 0]
    [] m.cycle = 1 -> [m EXCEPT !.packet = p, !.cycle = 2]
    [] m.cycle = 2 -> [m EXCEPT !.packet = p, !.cycle = 0, !.buttons = p[1] % 8,
                                !.x = Clamp(@ + p[2], XMAX),
                                !.y = Clamp(@ - Signed(p[3]), YMAX)]

\* mouse_handler's state machine, for one byte.
Decode(m, data) ==
  LET p == [m.packet EXCEPT ![m.cycle + 1] = data] IN
  CASE m.cycle = 0 -> [m EXCEPT !.packet = p, !.cycle = IF Header(data) THEN 1 ELSE 0]
    [] m.cycle = 1 -> [m EXCEPT !.packet = p, !.cycle = 2]
    [] m.cycle = 2 -> [m EXCEPT !.packet = p, !.cycle = 0, !.buttons = p[1] % 8,
                                !.x = Clamp(@ + Signed(p[2]), XMAX),
                                !.y = Clamp(@ - Signed(p[3]), YMAX)]

mouse_handler ==
  /\ obuf # NoByte /\ ~BufferFor("key")
  /\ ReadPort60("mouse")
  /\ mouse' = Decode(mouse, obuf.byte)
  /\ UNCHANGED <<down, kbd, kpc, packet, ack, goal, events>>

\* mouse_write(0xF4), which is lost when the controller is still busy after
\* the timeout of mouse_wait; then mouse_read.
mouse_init ==
  /\ kpc = "idle" /\ packet = <<>> /\ ~ack /\ events = 0
  /\ ack' \in BOOLEAN
  /\ kpc' = "answer"
  /\ UNCHANGED <<obuf, last, down, kbd, packet, mouse, goal, crossed, events>>

\* The byte is read when it is there, or when mouse_wait has given up.
mouse_init_read ==
  /\ kpc = "answer"
  /\ ReadPort60("init")
  /\ kpc' = "idle"
  /\ UNCHANGED <<down, kbd, packet, ack, mouse, goal, events>>

Ps2Next ==
  \/ \E k \in Keys : KeyEvent(k)
  \/ \E p \in Packets : MouseMoves(p)
  \/ MouseSends
  \/ read_scancode \/ handle_scancode \/ reset_modifiers
  \/ mouse_handler \/ mouse_init \/ mouse_init_read
-----------------------------------------------------------------------------
Undecoded == Len(packet) + (IF BufferFor("mouse") THEN 1 ELSE 0)

(* While every byte has gone to the driver it was for, mouse_handler is at   *)
(* the byte of the packet that the mouse is at, and after the last one       *)
(* mouse_x and mouse_y are where the movements lead.                         *)
PacketsInStep ==
  ~crossed => /\ (mouse.cycle + Undecoded) % 3 = 0
              /\ Undecoded = 0 => <<mouse.x, mouse.y>> = goal

HeldOrComing(ks) ==
  \/ down \intersect ks # {}
  \/ BufferFor("key") /\ obuf.byte \in {k + Break : k \in ks}

(* While every byte has gone to the driver it was for, no modifier sticks:   *)
(* handle_scancode has shift or ctrl set only as long as one of their keys   *)
(* is held or its release is on the way.                                     *)
NoStuckModifier ==
  ~crossed => /\ kbd.shift => HeldOrComing({LSHIFT, RSHIFT})
              /\ kbd.ctrl => HeldOrComing({CTRL})
=============================================================================
