---------------------------- MODULE Descriptors ----------------------------
(***************************************************************************)
(* The segment descriptors and the task state segment: gdt_full.c, which   *)
(* the kernel links, and the pair gdt.c and tss.c, which it does not.  A   *)
(* byte has NIBBLE^2 values, so that the packing of a base and a limit     *)
(* into the fields of a descriptor can be checked on a scaled machine.     *)
(***************************************************************************)
EXTENDS Integers

CONSTANTS NIBBLE,       \* 16
          TssAddrs      \* where the linker may place the task state segment

BYTE == NIBBLE * NIBBLE
HALF == BYTE * BYTE
PAGE == BYTE * NIBBLE             \* the granularity of a limit in pages
TOP == HALF * HALF - 1            \* 0xFFFFFFFF
sizeof_tss == 25 * 4 + 2 * 2      \* struct tss_entry, packed
sizeof_gate == 8

ASSUME DescriptorsConstants ==
  NIBBLE \in Nat \ {0, 1} /\ \A a \in TssAddrs : a \in Nat /\ a + sizeof_tss <= TOP

VARIABLES build,        \* "full", or "small" for the pair
          gdt, gp_limit,    \* the gates, and the size of the table less one
          tss,          \* where it is, and the stack it names
          tr            \* the task register: "unset", "loaded" or "faulted"

descriptors == <<build, gdt, gp_limit, tss, tr>>

MutSetGate(base, limit, access, pages) ==
  [base_low |-> base % HALF, base_middle |-> (base \div HALF) % BYTE,
   base_high |-> (base \div HALF) % BYTE,
   limit_low |-> limit % HALF, limit_high |-> (limit \div HALF) % NIBBLE,
   access |-> access, pages |-> pages]

gdt_set_gate(base, limit, access, pages) ==
  [base_low |-> base % HALF, base_middle |-> (base \div HALF) % BYTE,
   base_high |-> (base \div (HALF * BYTE)) % BYTE,
   limit_low |-> limit % HALF, limit_high |-> (limit \div HALF) % NIBBLE,
   access |-> access, pages |-> pages]

NullGate == gdt_set_gate(0, 0, "none", FALSE)
Flat(access) == gdt_set_gate(0, TOP, access, TRUE)
MutTssGate(a) == gdt_set_gate(a, sizeof_tss - 1, "none", FALSE)

TssGate(a) == gdt_set_gate(a, sizeof_tss - 1, "tss", FALSE)

DescriptorsInit ==
  /\ build \in {"full", "small"}
  /\ gdt = <<>> /\ gp_limit = 0
  /\ \E a \in TssAddrs : tss = [addr |-> a, esp0 |-> 0]
  /\ tr = "unset"

\* ltr: the selector has to be inside the table and name a task state segment
\* that is not busy, which it then becomes.
Ltr(table, limit, n) ==
  IF n * sizeof_gate + sizeof_gate - 1 <= limit /\ table[n + 1].access = "tss"
    THEN tr' = "loaded" /\ gdt' = [table EXCEPT ![n + 1].access = "busy"]
    ELSE tr' = "faulted" /\ gdt' = table

\* gdt_full.c: six gates, tss_init(0x200000), lgdt, the segment registers, ltr.
gdt_init ==
  LET table == <<NullGate, Flat("code0"), Flat("data0"), Flat("code3"), Flat("data3"), TssGate(tss.addr)>> IN
  /\ build = "full"
  /\ tss' = [tss EXCEPT !.esp0 = 2]
  /\ gp_limit' = sizeof_gate * 6 - 1
  /\ Ltr(table, gp_limit', 5)
  /\ UNCHANGED build

\* gdt_full.c: tss_init(0x300000), from kernel_main.
tss_init ==
  /\ build = "full"
  /\ tss' = [tss EXCEPT !.esp0 = 3]
  /\ gdt' = [gdt EXCEPT ![6] = TssGate(tss.addr)]
  /\ UNCHANGED <<build, gp_limit, tr>>

\* gdt.c has three gates.
SmallGdtInit ==
  /\ build = "small"
  /\ gdt' = <<NullGate, Flat("code0"), Flat("data0")>>
  /\ gp_limit' = sizeof_gate * 3 - 1
  /\ UNCHANGED <<build, tss, tr>>

\* tss.c loads the task register with a selector for which gdt.c has no gate.
SmallTssInit ==
  /\ build = "small"
  /\ tss' = [tss EXCEPT !.esp0 = 3]
  /\ Ltr(gdt, gp_limit, 5)
  /\ UNCHANGED <<build, gp_limit>>

\* How the processor reads a gate.
BaseOf(g) == g.base_low + HALF * (g.base_middle + BYTE * g.base_high)
LastByte(g) ==
  LET limit == g.limit_low + HALF * g.limit_high
  IN  IF g.pages THEN (limit + 1) * PAGE - 1 ELSE limit

(* As long as a table is loaded, the processor reads its code and data       *)
(* segments as the whole address space, although gdt_set_gate keeps only 20  *)
(* bits of their limit, and the gate of the task state segment as exactly    *)
(* the bytes of that structure, also after the second tss_init has written   *)
(* the gate again under the task register.                                   *)
SegmentsDecode ==
  \A i \in DOMAIN gdt :
    /\ gdt[i].access \in {"code0", "data0", "code3", "data3"} =>
         BaseOf(gdt[i]) = 0 /\ LastByte(gdt[i]) = TOP
    /\ gdt[i].access \in {"tss", "busy"} =>
         BaseOf(gdt[i]) = tss.addr /\ LastByte(gdt[i]) = sizeof_tss - 1
=============================================================================
