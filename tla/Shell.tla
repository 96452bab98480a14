------------------------------- MODULE Shell -------------------------------
(***************************************************************************)
(* The interactive shell with its history and the console it draws on.     *)
(* The kernel links shell_main.c; shell.c and the handler and              *)
(* terminal_readline of shell_keyboard.c are other front ends to the same  *)
(* commands, and frontend says which one is in use.  A key is a letter, a  *)
(* control key or one byte of an arrow key; the line keeps only whether a  *)
(* typed character is a blank.  What a command prints is one of Outputs.   *)
(***************************************************************************)
EXTENDS Vga, History

LOCAL INSTANCE SequencesExt

CONSTANTS MAX_LINE,     \* MAX_COMMAND - 1
          Prompt,       \* what shell_prompt prints
          Outputs       \* what the commands print, each ending its line

ASSUME ShellConstants ==
  /\ MAX_LINE \in Nat /\ Len(Prompt) < Width
  /\ \A out \in Outputs : out[Len(out)] = "LF"

VARIABLES frontend,             \* "main", "keyboard", "plain" (shell.c) or "readline"
          screen,
          line,                 \* input_buf up to cmd_pos
          escape_sequence,
          wrapped,              \* ghost: the line has reached the right edge since the prompt
          browsing,             \* ghost: the line was recalled and not edited since
          fresh                 \* ghost: no arrow since the last history_add

shown == <<screen, line, wrapped, browsing>>
past == <<history, current_history_index, fresh>>
vars == <<frontend, escape_sequence, shown, past>>

Printable == {" ", "[", "A", "B"}
\* Outside an escape sequence one letter stands for all.
Keys == {" ", "A", "LF", "BS", "ESC"} \union IF escape_sequence = 0 THEN {} ELSE {"[", "B"}
\* shell.c takes two of the letters for arrows.
PlainKeys == {" ", "A", "LF", "BS", "ESC", "H", "P"}
\* Scancodes by what they stand for; "other" has no character or is a release.
Codes == {<<"LF">>, <<"BS">>, <<" ">>, <<"A">>, <<"other">>, <<"ESC", "other", "4D">>, <<"ESC", "1C", "other">>}
           \union {<<"ESC", "1C", "4D", third>> : third \in {"48", "50", "other"}}
Glyph(key) == IF key = " " THEN " " ELSE "A"

vga_writestring(s, str) ==
  LET after[n \in 0 .. Len(str)] == IF n = 0 THEN s ELSE vga_putchar(after[n - 1], str[n])
  IN  after[Len(str)]

shell_prompt(s) == vga_writestring(s, Prompt)

\* terminal_readline leaves the erasing to the backspace itself.
EraseLine(s, n) ==
  vga_writestring(s, IF frontend = "readline"
                       THEN [i \in 1 .. n |-> "BS"]
                       ELSE [i \in 1 .. 3 * n |-> IF i % 3 = 2 THEN " " ELSE "BS"])

MutRecall(s, old, new) == vga_writestring(s, new)

Recall(s, old, new) == vga_writestring(EraseLine(s, Len(old)), new)

Blank(str) == \A i \in 1 .. Len(str) : str[i] = " "

AtEdge(str) == Len(Prompt) + Len(str) >= Width

Init ==
  /\ HistoryInit
  /\ frontend \in {"main", "keyboard", "plain", "readline"}
  /\ screen = shell_prompt(vga_putchar(Cleared, "LF"))
  /\ line = <<>> /\ escape_sequence = 0
  /\ wrapped = FALSE /\ browsing = FALSE /\ fresh = FALSE

\* The line and what is drawn of it change together.
Edit(new, drawn, recalled) ==
  /\ line' = new /\ screen' = drawn /\ browsing' = recalled
  /\ wrapped' = (wrapped \/ AtEdge(new))

ArrowUp ==
  /\ current_history_index' = PrevIndex
  /\ IF PrevEntry # <<>> THEN Edit(PrevEntry, Recall(screen, line, PrevEntry), TRUE)
                         ELSE UNCHANGED shown
  /\ fresh' = FALSE /\ UNCHANGED history

ArrowDown ==
  /\ current_history_index' = NextIndex
  /\ Edit(NextEntry, Recall(screen, line, NextEntry), history_count > 0)
  /\ fresh' = FALSE /\ UNCHANGED history

\* shell_process_command: the screen a command leaves before the next prompt.
CommandScreens(s) == {vga_writestring(s, out) : out \in Outputs} \union {vga_clear(s)}

shell_process_command(s, cmd) ==
  \/ /\ cmd = <<>>
     /\ screen' = shell_prompt(s)
     /\ UNCHANGED past
  \/ /\ cmd # <<>> /\ history_add(cmd) /\ fresh' = TRUE
     /\ \E after \in IF Blank(cmd) THEN {s} ELSE CommandScreens(s) :
          screen' = shell_prompt(after)

Enter ==
  /\ shell_process_command(vga_putchar(screen, "LF"), line)
  /\ line' = <<>>
  /\ wrapped' = FALSE /\ browsing' = FALSE

Backspace ==
  /\ IF line # <<>> THEN Edit(Front(line), vga_putchar(screen, "BS"), FALSE)
                    ELSE UNCHANGED shown
  /\ UNCHANGED past

Type(key) ==
  /\ IF Len(line) < MAX_LINE
       THEN Edit(Append(line, Glyph(key)), vga_putchar(screen, Glyph(key)), FALSE)
       ELSE UNCHANGED shown
  /\ UNCHANGED past

EditKey(key) ==
  \/ key = "LF" /\ Enter
  \/ key = "BS" /\ Backspace
  \/ key \in Printable /\ Type(key)

Escape(n) == escape_sequence' = n /\ UNCHANGED <<shown, past>>

\* shell_main.c: ESC [ A and ESC [ B are the arrows; after ESC and another
\* byte that byte is handled as usual.
shell_handle_key(key) ==
  \/ escape_sequence = 1 /\ key = "[" /\ Escape(2)
  \/ /\ escape_sequence = 2 /\ escape_sequence' = 0
     /\ CASE key = "A" -> ArrowUp
          [] key = "B" -> ArrowDown
          [] OTHER     -> UNCHANGED <<shown, past>>
  \/ /\ escape_sequence = 0 \/ (escape_sequence = 1 /\ key # "[")
     /\ \/ key = "ESC" /\ Escape(1)
        \/ escape_sequence' = 0 /\ EditKey(key)

\* shell_keyboard.c repeats it, with a history_index that nothing reads.
KeyboardHandleKey(key) == shell_handle_key(key)

\* shell.c repeats it as well.
PlainProcessCommand(s, cmd) == shell_process_command(s, cmd)

PlainEnter ==
  /\ PlainProcessCommand(vga_putchar(screen, "LF"), line)
  /\ line' = <<>>
  /\ wrapped' = FALSE /\ browsing' = FALSE

\* shell.c has no escape sequences: H and P are the arrows.
PlainHandleKey(key) ==
  /\ CASE key = "LF" -> PlainEnter
       [] key = "BS" -> Backspace
       [] key = "H"  -> ArrowUp
       [] key = "P"  -> ArrowDown
       [] key \in Printable -> Type(key)
       [] OTHER -> UNCHANGED <<shown, past>>
  /\ UNCHANGED escape_sequence

\* The scancodes one turn of terminal_readline takes from the port: after Esc
\* two more, and a third when they are 0x1C and 0x4D.  A finished line goes
\* where the handlers send it.
terminal_readline(codes) ==
  /\ CASE codes = <<"ESC", "1C", "4D", "48">> -> ArrowUp
       [] codes = <<"ESC", "1C", "4D", "50">> -> ArrowDown
       [] codes[1] \in {"LF", "BS", " ", "A"} -> EditKey(codes[1])
       [] OTHER -> UNCHANGED <<shown, past>>
  /\ UNCHANGED escape_sequence

\* cmd_reboot resets the machine.
cmd_reboot ==
  /\ line # <<>> /\ ~Blank(line) /\ escape_sequence # 2
  /\ history' = <<>> /\ current_history_index' = -1
  /\ screen' = shell_prompt(vga_putchar(Cleared, "LF"))
  /\ line' = <<>> /\ escape_sequence' = 0
  /\ wrapped' = FALSE /\ browsing' = FALSE /\ fresh' = FALSE

Next ==
  /\ \/ frontend = "main" /\ \E key \in Keys : shell_handle_key(key)
     \/ frontend = "keyboard" /\ \E key \in Keys : KeyboardHandleKey(key)
     \/ frontend = "plain" /\ \E key \in PlainKeys : PlainHandleKey(key)
     \/ frontend = "readline" /\ \E codes \in Codes : terminal_readline(codes)
     \/ cmd_reboot
  /\ UNCHANGED frontend

Spec == Init /\ [][Next]_vars
-----------------------------------------------------------------------------
(* history_prev and history_next never read outside the stored entries: the  *)
(* index is -1 only while there is no entry, and otherwise at most one past  *)
(* the newest, also when the history is full and drops its oldest entry.     *)
HistoryIndexInRange ==
  IF history_count = 0 THEN current_history_index = -1
                       ELSE current_history_index \in 0 .. history_count

(* While a recalled line is unedited it is the entry the index stands at, or *)
(* empty past the newest one, through any mixture of arrows and commands.    *)
BrowsingShowsEntry ==
  browsing =>
    line = IF current_history_index < history_count
             THEN history[current_history_index + 1] ELSE <<>>

(* As long as no arrow key has been pressed since a command was entered, Up  *)
(* recalls that command, whatever was typed, erased or entered empty since:  *)
(* history_add moves the index past the new entry also in a full history.    *)
UpRecallsLatest == fresh => PrevEntry = Last(history)

(* As long as the line has not reached the right edge since the prompt, the  *)
(* cursor's row shows the prompt, the line the shell will execute, and       *)
(* nothing after it: typing, backspace, recalls and the erasing with         *)
(* "\b \b" keep the screen and input_buf in step.                            *)
DisplayMatchesLine ==
  ~wrapped =>
    /\ screen.x = Len(Prompt \o line)
    /\ \A c \in Cols :
         screen.buf[screen.y][c] = IF c < screen.x THEN (Prompt \o line)[c + 1] ELSE " "

(* Whenever the shell waits for a key the controller's cursor is where the   *)
(* next character goes, although vga_clear moves the cursor without telling  *)
(* the controller.                                                           *)
HwCursorAgrees == screen.hw = Position(screen)
=============================================================================
