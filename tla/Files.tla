------------------------------- MODULE Files -------------------------------
(***************************************************************************)
(* kernel/fs/initramfs.c and the two commands that read files through it,  *)
(* cmd_cat (kernel/shell/cmd_cat.c) and cmd_hexdump                        *)
(* (kernel/shell/builtin_commands.c).  Nothing in the kernel fills files[] *)
(* or sets file_count, so the kernel's own table is the empty one; the     *)
(* readers are also checked for the tables an archive would give.          *)
(***************************************************************************)
EXTENDS Integers, Sequences, SequencesExt, Running

CONSTANTS Tables,        \* the contents files[0 .. file_count - 1] may have
          Names,         \* names given to a command
          BUF,           \* sizeof(buf) of cmd_cat
          ROW,           \* 16, the bytes of a line of cmd_hexdump
          WORD,          \* 2^32
          Blank, Dot     \* two spaces; a full stop

Printable == {"a", "b"}

VARIABLES files,
          name, file, offset,
          out            \* what the command has put on the screen

files_vars == <<files, name, file, offset, out>>

ASSUME FilesConstants ==
  /\ BUF \in Nat \ {0} /\ ROW \in Nat \ {0}
  /\ \A t \in Tables : \A i \in DOMAIN t :      \* a file ends well below 4 GiB
       Len(t[i].data) + BUF < WORD /\ Len(t[i].data) + ROW < WORD

FilesIdle == name = "none" /\ file = 0 /\ offset = 0 /\ out = <<>>

\* The handle is the index plus one; 0 when there is no such file.
fs_open(n) == SelectInSeq(files, LAMBDA f : f.name = n)

MutFsRead(f, off, len) ==
  IF f - 1 \notin 0 .. Len(files) - 1 \/ off >= Len(files[f].data) THEN <<>>
  ELSE LET size == Len(files[f].data)
           to_read == IF (off + len) % WORD >= size THEN size - off - 1 ELSE len
       IN  SubSeq(files[f].data, off + 1, off + to_read)

\* The bytes put in the buffer; their number is what fs_read returns.
fs_read(f, off, len) ==
  IF f - 1 \notin 0 .. Len(files) - 1 \/ off >= Len(files[f].data) THEN <<>>
  ELSE LET size == Len(files[f].data)
           to_read == IF (off + len) % WORD > size THEN size - off ELSE len
       IN  SubSeq(files[f].data, off + 1, off + to_read)

fs_size(f) == IF f - 1 \notin 0 .. Len(files) - 1 THEN 0 ELSE Len(files[f].data)

Open(command) ==
  /\ pc = "idle"
  /\ \E n \in Names : name' = n /\ file' = fs_open(n)
  /\ pc' = IF file' = 0 THEN "missing" ELSE command
  /\ UNCHANGED <<files, offset, out>>

MutCat ==
  LET buf == fs_read(file, offset, BUF) IN
  /\ pc = "cat"
  /\ pc' = "cat"
  /\ out' = out \o buf
  /\ offset' = (offset + Len(buf)) % WORD
  /\ UNCHANGED <<files, name, file>>

cmd_cat ==
  LET buf == fs_read(file, offset, BUF) IN
  /\ pc = "cat"
  /\ pc' = IF buf = <<>> THEN "shown" ELSE "cat"
  /\ out' = out \o buf
  /\ offset' = (offset + Len(buf)) % WORD
  /\ UNCHANGED <<files, name, file>>

\* A line of the dump: ROW columns of hexadecimal, and the text.
Line(buf) ==
  [hex  |-> [i \in 1 .. ROW |-> IF i <= Len(buf) THEN buf[i] ELSE Blank],
   text |-> [i \in 1 .. Len(buf) |-> IF buf[i] \in Printable THEN buf[i] ELSE Dot]]

cmd_hexdump ==
  LET buf == fs_read(file, offset, ROW) IN
  /\ pc = "hexdump"
  /\ pc' = IF buf = <<>> THEN "dumped" ELSE "hexdump"
  /\ out' = IF buf = <<>> THEN out ELSE Append(out, Line(buf))
  /\ offset' = (offset + Len(buf)) % WORD
  /\ UNCHANGED <<files, name, file>>

FilesReturn ==
  /\ pc \in {"missing", "shown", "dumped"}
  /\ pc' = "idle"
  /\ name' = "none" /\ file' = 0 /\ offset' = 0 /\ out' = <<>>
  /\ UNCHANGED files

FilesCall == Open("cat") \/ Open("hexdump")

FilesStep == cmd_cat \/ cmd_hexdump \/ FilesReturn
-----------------------------------------------------------------------------
Wanted == CHOOSE i \in DOMAIN files :
            files[i].name = name /\ \A j \in 1 .. i - 1 : files[j].name # name

Known(line) == SelectSeq(line.hex, LAMBDA c : c # Blank)

(* When cmd_cat ends it has shown all of the first file of that name, each   *)
(* byte once and in order, whatever the size is to that of its buffer.  When *)
(* cmd_hexdump ends, the hexadecimal columns of its lines, without the       *)
(* padding, are that file; each line but the last is full; and a line has as *)
(* many characters of text as columns in use.                                *)
FileShownWhole ==
  /\ pc = "shown" => out = files[Wanted].data /\ offset = fs_size(file)
  /\ pc = "dumped" =>
       /\ FlattenSeq([i \in DOMAIN out |-> Known(out[i])]) = files[Wanted].data
       /\ \A i \in DOMAIN out : /\ Len(out[i].text) = Len(Known(out[i]))
                                /\ i < Len(out) => Len(Known(out[i])) = ROW
=============================================================================
