-------------------------------- MODULE Pmm --------------------------------
(***************************************************************************)
(* The bitmap allocator of kernel/mem/pmm.rs.  Addresses and sizes are in  *)
(* KiB, so a page is 4 and every constant of the code is exact: BASE is    *)
(* 1024, LOW_END 639, KERNEL_END 2048, WORD 2^22 (usize is 32 bits).       *)
(***************************************************************************)
EXTENDS Integers, FiniteSets

CONSTANTS BASE,         \* 0x100000, where page frames start
          LOW_END,      \* 0x9FC00, end of the conventional memory range
          KERNEL_END,   \* 0x200000, end of the kernel image range
          WORD,         \* size of the address space
          MemoryMaps,   \* the <<memory_lower, memory_upper>> a boot may report
          NoFrame       \* Option::None

PAGE == 4

ASSUME PmmConstants ==
  /\ BASE \in Nat /\ LOW_END \in Nat /\ KERNEL_END \in Nat /\ WORD \in Nat \ {0}
  /\ BASE % PAGE = 0
  /\ MemoryMaps \subseteq Nat \X Nat
  /\ \A m \in MemoryMaps : m[1] + m[2] + BASE < WORD
  /\ NoFrame \notin Nat

VARIABLES ready,        \* init has run: the bitmap pointer is not null
          total_pages, free_pages, bitmap_size, base_addr,
          used,         \* the bitmap, as the set of its 1 bits
          reply         \* what the latest alloc_page returned

vars == <<ready, total_pages, free_pages, bitmap_size, base_addr, used, reply>>

Bits == 0 .. (8 * bitmap_size - 1)

\* The page numbers init passes to mark_used, counted from address 0.
ReservedPages ==
  {p \in 0 .. (LOW_END + KERNEL_END) :
     \/ PAGE * p < LOW_END
     \/ BASE <= PAGE * p /\ PAGE * p < KERNEL_END}

AddrOf(bit) == base_addr + PAGE * bit

BitOf(addr) == ((addr - base_addr) % WORD) \div PAGE

Held == {AddrOf(b) : b \in used \ ReservedPages}

Pool == {AddrOf(b) : b \in Bits \ ReservedPages}

Init ==
  /\ ready = FALSE
  /\ total_pages = 0 /\ free_pages = 0 /\ bitmap_size = 0 /\ base_addr = 0
  /\ used = {}
  /\ reply = NoFrame

\* mark_used leaves a page past the bitmap alone, the counter included.
MarkUsed(pages, bytes) == pages \intersect (0 .. (8 * bytes - 1))

init(lower, upper) ==
  LET total  == (lower + upper) \div PAGE
      marked == MarkUsed(ReservedPages, total \div 8)
  IN  /\ ~ready
      /\ ready' = TRUE
      /\ total_pages' = total
      /\ bitmap_size' = total \div 8
      /\ base_addr' = BASE
      /\ used' = marked
      /\ free_pages' = total - Cardinality(marked)
      /\ UNCHANGED reply

\* The bit is never set, so the next request gets the same frame.
MutAllocPage ==
  \E b \in Bits \ used :
    /\ \A c \in Bits \ used : b <= c
    /\ reply' = AddrOf(b)
    /\ UNCHANGED <<ready, total_pages, free_pages, bitmap_size, base_addr, used>>

alloc_page ==
  \/ \E b \in Bits \ used :
       /\ \A c \in Bits \ used : b <= c
       /\ used' = used \union {b}
       /\ free_pages' = free_pages - 1
       /\ reply' = AddrOf(b)
       /\ UNCHANGED <<ready, total_pages, bitmap_size, base_addr>>
  \/ /\ Bits \subseteq used
     /\ reply' = NoFrame
     /\ UNCHANGED <<ready, total_pages, free_pages, bitmap_size, base_addr, used>>

\* A caller gives back a frame it holds, or names one the bitmap does not cover.
Foreign == {a \in 0 .. WORD - 1 : a % PAGE = 0 /\ BitOf(a) \notin Bits}

\* free_page without its counter update, and without subtracting the base.
MutFreeUncounted(addr) ==
  /\ used' = used \ {BitOf(addr)}
  /\ UNCHANGED <<ready, total_pages, free_pages, bitmap_size, base_addr, reply>>

MutFreeUnbased(addr) ==
  /\ used' = used \ {addr \div PAGE}
  /\ free_pages' = free_pages + 1
  /\ UNCHANGED <<ready, total_pages, bitmap_size, base_addr, reply>>

free_page(addr) ==
  /\ IF BitOf(addr) \in Bits
       THEN used' = used \ {BitOf(addr)} /\ free_pages' = free_pages + 1
       ELSE UNCHANGED <<used, free_pages>>
  /\ UNCHANGED <<ready, total_pages, bitmap_size, base_addr, reply>>

Next ==
  \/ \E m \in MemoryMaps : init(m[1], m[2])
  \/ alloc_page
  \/ \E addr \in Held \union Foreign : free_page(addr)

Spec == Init /\ [][Next]_vars
-----------------------------------------------------------------------------
TypeOK ==
  /\ ready \in BOOLEAN
  /\ total_pages \in Nat /\ free_pages \in Nat /\ bitmap_size \in Nat
  /\ base_addr \in {0, BASE}
  /\ used \subseteq Bits
  /\ reply \in Nat \union {NoFrame}

(* free_pages_count always equals the clear bits plus the total_pages % 8    *)
(* pages that bitmap_size = total_pages / 8 leaves outside the bitmap: the   *)
(* counter never underflows, and alloc_page returns None exactly when the    *)
(* counter has come down to that remainder (not to zero).                    *)
FreeCountExact == free_pages = Cardinality(Bits \ used) + (total_pages % 8)

(* No sequence of alloc_page and free_page clears a bit that init marked, so *)
(* no reply names one: frames [base, base + LOW_END) and the image of the    *)
(* kernel range shifted up by base are never granted.                        *)
GrantsAvoidReserved ==
  /\ ready => ReservedPages \intersect Bits \subseteq used
  /\ reply # NoFrame => BitOf(reply) \in Bits \ ReservedPages

FA == INSTANCE FrameAllocator WITH pool <- Pool, held <- Held

(* The bitmap implements the abstract allocator: what alloc_page returns is  *)
(* held by nobody, None means the pool is exhausted, free_page returns one   *)
(* frame and nothing else.                                                   *)
ImplementsFrameAllocator == FA!Spec
=============================================================================
