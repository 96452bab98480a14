-------------------------------- MODULE Boot --------------------------------
(***************************************************************************)
(* kernel_main: the order in which the kernel is brought up, the parsing   *)
(* of the Multiboot2 information, the segment descriptors and the first    *)
(* timer interrupt.  A stage is one call of kernel_main; its printing is   *)
(* left out.  Sizes are in 8-byte units, the alignment of a Multiboot2 tag.*)
(***************************************************************************)
EXTENDS Descriptors, Sequences

CONSTANTS Infos         \* boot informations a loader may pass

VARIABLES magic,        \* the loader left the Multiboot2 magic in eax
          info,         \* the tags after the information's own header
          stage,        \* calls of kernel_main done
          tag,          \* parse_multiboot2: the tag it looks at
          memory_lower, memory_upper,
          gates,        \* vectors for which idt_set_gate was called
          pit,          \* the timer runs at 100 Hz
          interrupts    \* the interrupt flag

parsed == <<tag, memory_lower, memory_upper>>
vars == <<magic, info, stage, parsed, gates, pit, interrupts, descriptors>>

Stages == <<"vga", "multiboot", "gdt", "idt", "pmm", "tss", "printf", "pit", "initramfs",
            "keyboard", "scheduler", "shell", "sti", "hlt">>

Current == Stages[stage]
Done(s) == \E i \in 1 .. stage - 1 : Stages[i] = s

\* The information starts with its total size and a reserved word that is 0;
\* parse_multiboot2 is given its address and reads this header as a tag.
Header == [type |-> "total_size", size |-> 0, lower |-> 0, upper |-> 0]
Tags == <<Header>> \o info

Init ==
  /\ magic \in BOOLEAN /\ info \in Infos
  /\ stage = 1 /\ tag = 1
  /\ memory_lower = 0 /\ memory_upper = 0
  /\ gates = {} /\ pit = FALSE /\ interrupts = FALSE
  /\ DescriptorsInit

\* One turn of the loop over the tags; the loop ends at type 0 or size 0.
MutMoreTags == magic /\ Tags[tag].type # "end"

MoreTags == magic /\ Tags[tag].type # "end" /\ Tags[tag].size # 0

parse_multiboot2 ==
  /\ Current = "multiboot"
  /\ IF MoreTags
       THEN /\ tag' = tag + 1
            /\ IF Tags[tag].type = "mmap"
                 THEN memory_lower' = Tags[tag].lower /\ memory_upper' = Tags[tag].upper
                 ELSE UNCHANGED <<memory_lower, memory_upper>>
            /\ UNCHANGED stage
       ELSE stage' = stage + 1 /\ UNCHANGED parsed
  /\ UNCHANGED <<magic, info, gates, pit, interrupts, descriptors>>

\* Hardware: an exception or an interrupt without a gate is a triple fault,
\* and a reset.
Reset ==
  /\ stage' = 1 /\ tag' = 1
  /\ memory_lower' = 0 /\ memory_upper' = 0
  /\ gates' = {} /\ pit' = FALSE /\ interrupts' = FALSE
  /\ gdt' = <<>> /\ gp_limit' = 0 /\ tss' = [tss EXCEPT !.esp0 = 0] /\ tr' = "unset"
  /\ UNCHANGED <<magic, info, build>>

SetDescriptors ==
  /\ tr # "faulted"
  /\ \/ Current = "gdt" /\ (gdt_init \/ SmallGdtInit)
     \/ Current = "tss" /\ (tss_init \/ SmallTssInit)
  /\ stage' = IF tr' = "faulted" THEN stage ELSE stage + 1
  /\ UNCHANGED <<magic, info, parsed, gates, pit, interrupts>>

GeneralProtection == tr = "faulted" /\ Reset

\* pit_init programs the timer between cli and sti.
pit_init ==
  /\ Current = "pit"
  /\ pit' = TRUE /\ interrupts' = TRUE
  /\ stage' = stage + 1
  /\ UNCHANGED <<magic, info, parsed, gates, descriptors>>

sti ==
  /\ Current = "sti"
  /\ interrupts' = TRUE
  /\ stage' = stage + 1
  /\ UNCHANGED <<magic, info, parsed, gates, pit, descriptors>>

\* idt_init loads a table of 256 empty gates; nothing calls idt_set_gate.
OtherStage ==
  /\ Current \notin {"multiboot", "gdt", "tss", "pit", "sti", "hlt"}
  /\ stage' = stage + 1
  /\ UNCHANGED <<magic, info, parsed, gates, pit, interrupts, descriptors>>

TimerInterrupt ==
  /\ pit /\ interrupts
  /\ IF "timer" \in gates THEN UNCHANGED vars ELSE Reset

kernel_main == parse_multiboot2 \/ SetDescriptors \/ GeneralProtection \/ pit_init \/ sti \/ OtherStage

Next == kernel_main \/ TimerInterrupt

Spec == Init /\ [][Next]_vars

\* The processor keeps executing kernel_main and the timer keeps ticking.
FairSpec == Spec /\ WF_vars(kernel_main) /\ WF_vars(TimerInterrupt)
-----------------------------------------------------------------------------
(* The kernel that is linked never faults on its way to the idle loop:       *)
(* gdt_init loads the task register from a gate that is inside the table and *)
(* not busy, before and not after kernel_main calls tss_init again.          *)
LinkedKernelLoadsTr ==
  build = "full" => tr = IF Done("gdt") THEN "loaded" ELSE "unset"

(* parse_multiboot2 takes the header of the information for a tag of size 0  *)
(* and stops there: whatever the loader passes, and however often the        *)
(* machine has been reset, pmm_init is told that there is no memory.         *)
PmmToldNothing == Done("multiboot") => memory_lower = 0 /\ memory_upper = 0

(* README.MD:169, "When Larch OS boots, you will see the shell prompt": the  *)
(* kernel that is linked gets to the prompt and stays there.                 *)
ReachesPrompt == build = "full" => <>[]Done("shell")
=============================================================================
