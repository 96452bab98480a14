----------------------------- MODULE BootProofs -----------------------------
(***************************************************************************)
(* Two invariants of the boot sequence, for every boot information, every  *)
(* place of the task state segment and any number of resets.               *)
(***************************************************************************)
EXTENDS Boot, TLAPS

\* The calls done are a number: "multiboot" is the second, "gdt" the third.
IndInv ==
  /\ stage \in 1 .. 14
  /\ tag = 1 /\ memory_lower = 0 /\ memory_upper = 0
  /\ build = "full" => tr = IF stage > 3 THEN "loaded" ELSE "unset"
-----------------------------------------------------------------------------
LEMMA StageNumbers ==
  ASSUME stage \in 1 .. 14
  PROVE  /\ Current = "multiboot" <=> stage = 2
         /\ Current = "gdt" <=> stage = 3
         /\ Current = "tss" <=> stage = 6
         /\ Current = "pit" <=> stage = 8
         /\ Current = "sti" <=> stage = 13
         /\ Current = "hlt" <=> stage = 14
         /\ Done("gdt") <=> stage > 3
BY DEF Current, Stages, Done

(* The loop over the tags does not get past the header.                      *)
LEMMA NoTags ==
  ASSUME tag = 1
  PROVE  ~MoreTags
<1>1. Tags[1] = Header
  BY DEF Tags
<1> QED BY <1>1 DEF MoreTags, Header

(* The gate that gdt_init loads the task register from is the last of its    *)
(* table, and not busy.                                                      *)
LEMMA GdtInitLoads == gdt_init => tr' = "loaded"
<1> SUFFICES ASSUME gdt_init PROVE tr' = "loaded"
  OBVIOUS
<1> DEFINE table == <<NullGate, Flat("code0"), Flat("data0"), Flat("code3"), Flat("data3"), TssGate(tss.addr)>>
<1>1. table[5 + 1].access = "tss"
  BY DEF TssGate, gdt_set_gate
<1>2. gp_limit' = sizeof_gate * 6 - 1 /\ Ltr(table, gp_limit', 5)
  BY DEF gdt_init
<1>3. 5 * sizeof_gate + sizeof_gate - 1 <= gp_limit'
  BY <1>2 DEF sizeof_gate
<1> HIDE DEF table
<1> QED BY <1>1, <1>2, <1>3 DEF Ltr

LEMMA NextIndInv == IndInv /\ [Next]_vars => IndInv'
<1> SUFFICES ASSUME IndInv, [Next]_vars PROVE IndInv'
  OBVIOUS
<1>1. CASE parse_multiboot2
  <2>1. stage = 2 /\ stage' = stage + 1 /\ UNCHANGED parsed /\ UNCHANGED descriptors
    BY <1>1, StageNumbers, NoTags DEF parse_multiboot2, IndInv
  <2> QED BY <2>1 DEF IndInv, parsed, descriptors
<1>2. CASE Reset
  BY <1>2 DEF Reset, IndInv
<1>3. CASE SetDescriptors
  <2>1. /\ stage \in {3, 6} /\ UNCHANGED parsed
        /\ stage' = IF tr' = "faulted" THEN stage ELSE stage + 1
    BY <1>3, StageNumbers DEF SetDescriptors, IndInv
  <2>2. build' = build
    BY <1>3 DEF SetDescriptors, gdt_init, SmallGdtInit, tss_init, SmallTssInit
  <2>3. build = "full" => tr' = "loaded"
    <3>1. CASE stage = 3 /\ (gdt_init \/ SmallGdtInit)
      BY <3>1, GdtInitLoads DEF SmallGdtInit
    <3>2. CASE stage = 6 /\ (tss_init \/ SmallTssInit)
      BY <3>2 DEF tss_init, SmallTssInit, IndInv
    <3> QED BY <1>3, <3>1, <3>2, StageNumbers, <2>1 DEF SetDescriptors, IndInv
  <2> QED BY <2>1, <2>2, <2>3 DEF IndInv, parsed
<1>4. CASE pit_init \/ sti \/ OtherStage
  <2>1. /\ stage' = stage + 1 /\ stage \notin {2, 3, 6, 14}
        /\ UNCHANGED parsed /\ UNCHANGED descriptors
    BY <1>4, StageNumbers DEF pit_init, sti, OtherStage, IndInv
  <2> QED BY <2>1 DEF IndInv, parsed, descriptors
<1>5. CASE UNCHANGED vars
  BY <1>5 DEF vars, parsed, descriptors, IndInv
<1> QED
  BY <1>1, <1>2, <1>3, <1>4, <1>5 DEF Next, kernel_main, GeneralProtection, TimerInterrupt

LEMMA Invariance == Spec => []IndInv
<1>1. Init => IndInv
  BY DEF Init, DescriptorsInit, IndInv
<1> QED BY <1>1, NextIndInv, PTL DEF Spec
-----------------------------------------------------------------------------
(* No boot information makes parse_multiboot2 find memory for pmm_init.      *)
THEOREM BootPmmToldNothing == Spec => []PmmToldNothing
<1>1. IndInv => PmmToldNothing
  BY DEF IndInv, PmmToldNothing
<1> QED BY <1>1, Invariance, PTL

(* The linked kernel's ltr succeeds, wherever the task state segment is.     *)
THEOREM BootLoadsTr == Spec => []LinkedKernelLoadsTr
<1>1. IndInv => LinkedKernelLoadsTr
  BY StageNumbers DEF IndInv, LinkedKernelLoadsTr
<1> QED BY <1>1, Invariance, PTL
=============================================================================
