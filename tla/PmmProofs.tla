----------------------------- MODULE PmmProofs -----------------------------
(***************************************************************************)
(* The bitmap allocator's invariants and its refinement of FrameAllocator, *)
(* for every memory map and layout that PmmConstants admits.               *)
(***************************************************************************)
EXTENDS Pmm, FiniteSetTheorems, TLAPS

(* The header fields stay those of new() until init writes them once; the    *)
(* bitmap has a byte for every 8 pages and every managed address fits usize. *)
Layout ==
  /\ bitmap_size = total_pages \div 8
  /\ base_addr + PAGE * total_pages < WORD
  /\ ready => base_addr = BASE
  /\ ~ready => total_pages = 0

IndInv == TypeOK /\ Layout /\ FreeCountExact /\ GrantsAvoidReserved

(* The wrapping subtraction of free_page undoes the address computation of   *)
(* alloc_page on every bit of the bitmap.                                    *)
LEMMA BitOfAddrOf ==
  ASSUME TypeOK, Layout, NEW b \in Bits
  PROVE  BitOf(AddrOf(b)) = b /\ AddrOf(b) \in Nat
<1>1. b \in Nat /\ PAGE * b < WORD /\ base_addr \in Nat
  BY PmmConstants DEF TypeOK, Layout, Bits, PAGE
<1>2. ASSUME NEW x \in Nat, NEW w \in Nat, x < w PROVE x % w = x
  BY <1>2
<1>3. PAGE * b \in Nat /\ WORD \in Nat
  BY <1>1, PmmConstants DEF PAGE
<1>4. (PAGE * b) % WORD = PAGE * b
  BY <1>1, <1>2, <1>3
<1>5. (base_addr + PAGE * b) - base_addr = PAGE * b
  BY <1>1, <1>3
<1>6. (PAGE * b) \div PAGE = b
  BY <1>1 DEF PAGE
<1> QED
  BY <1>1, <1>3, <1>4, <1>5, <1>6 DEF BitOf, AddrOf

LEMMA BitsFinite ==
  ASSUME TypeOK
  PROVE  /\ IsFiniteSet(Bits \ used)
         /\ Cardinality(Bits \ used) \in Nat
<1>1. IsFiniteSet(Bits)
  BY FS_Interval DEF TypeOK, Bits
<1> QED
  BY <1>1, FS_Difference, FS_CardinalityType

(* What a caller may hand to free_page: the bit of a held frame is a used,   *)
(* unreserved one; any other address misses the bitmap.                      *)
LEMMA FreeInputs ==
  ASSUME TypeOK, Layout, NEW addr \in Held \union Foreign, BitOf(addr) \in Bits
  PROVE  BitOf(addr) \in used \ ReservedPages /\ addr = AddrOf(BitOf(addr))
<1>1. addr \in Held
  BY DEF Foreign
<1>2. PICK b \in used \ ReservedPages : addr = AddrOf(b)
  BY <1>1 DEF Held
<1>3. b \in Bits
  BY <1>2 DEF TypeOK
<1> QED
  BY <1>2, <1>3, BitOfAddrOf

LEMMA InitIndInv == Init => IndInv
<1> SUFFICES ASSUME Init PROVE IndInv
  OBVIOUS
<1>1. TypeOK /\ Layout /\ Bits = {}
  <2>1. Bits = {}
    BY DEF Init, Bits
  <2>2. TypeOK
    BY <2>1 DEF Init, TypeOK
  <2>3. Layout
    BY PmmConstants DEF Init, Layout, PAGE
  <2> QED
    BY <2>1, <2>2, <2>3
<1>2. FreeCountExact
  BY <1>1, FS_EmptySet DEF Init, FreeCountExact
<1>3. GrantsAvoidReserved
  BY DEF Init, GrantsAvoidReserved
<1> QED
  BY <1>1, <1>2, <1>3 DEF IndInv

(* init counts exactly the bits that mark_used sets.                         *)
LEMMA InitStep ==
  ASSUME IndInv, NEW m \in MemoryMaps, init(m[1], m[2])
  PROVE  IndInv'
<1> DEFINE total == (m[1] + m[2]) \div PAGE
           marked == MarkUsed(ReservedPages, total \div 8)
<1>1. m[1] \in Nat /\ m[2] \in Nat /\ m[1] + m[2] + BASE < WORD
  BY PmmConstants
<1>2. total \in Nat /\ PAGE * total <= m[1] + m[2]
  BY <1>1 DEF PAGE
<1>3. /\ ready' = TRUE /\ total_pages' = total /\ bitmap_size' = total \div 8
      /\ base_addr' = BASE /\ used' = marked /\ reply' = reply
      /\ free_pages' = total - Cardinality(marked) /\ ~ready
  BY DEF init
<1>4. total \div 8 \in Nat /\ total = 8 * (total \div 8) + (total % 8) /\ total % 8 \in 0..7
  BY <1>2
<1> HIDE DEF total
<1>5. Bits' = 0 .. (8 * (total \div 8) - 1)
  BY <1>3 DEF Bits
<1>6. IsFiniteSet(Bits') /\ Cardinality(Bits') = 8 * (total \div 8)
  <2> DEFINE n == 8 * (total \div 8)
  <2>1. n \in Nat /\ n - 1 \in Int /\ Bits' = 0 .. (n - 1)
    BY <1>4, <1>5
  <2> HIDE DEF n
  <2>2. IsFiniteSet(0 .. (n - 1)) /\ Cardinality(0 .. (n - 1)) = n
    BY <2>1, FS_Interval
  <2> QED
    BY <2>1, <2>2 DEF n
<1>7. marked = ReservedPages \intersect Bits'
  BY <1>5 DEF MarkUsed
<1> HIDE DEF marked
<1>8. /\ Cardinality(Bits' \ marked) = Cardinality(Bits') - Cardinality(marked)
      /\ Cardinality(marked) \in Nat /\ Cardinality(marked) <= Cardinality(Bits')
  <2>1. Bits' \intersect marked = marked
    BY <1>7
  <2>2. marked \in SUBSET Bits'
    BY <1>7
  <2>3. Cardinality(Bits' \ marked) = Cardinality(Bits') - Cardinality(Bits' \intersect marked)
    BY <1>6, FS_Difference
  <2>4. IsFiniteSet(marked) /\ Cardinality(marked) <= Cardinality(Bits')
    BY <1>6, <2>2, FS_Subset
  <2>5. Cardinality(marked) \in Nat
    BY <2>4, FS_CardinalityType
  <2> QED
    BY <2>1, <2>3, <2>4, <2>5
<1>9. reply = NoFrame
  <2>1. Bits = {}
    BY <1>3 DEF IndInv, Layout, Bits
  <2> QED
    BY <2>1 DEF IndInv, GrantsAvoidReserved
<1>10. TypeOK'
  BY <1>2, <1>3, <1>4, <1>6, <1>7, <1>8, <1>9 DEF TypeOK
<1>11. Layout'
  BY <1>1, <1>2, <1>3, PmmConstants DEF Layout, PAGE
<1>12. FreeCountExact'
  BY <1>3, <1>4, <1>6, <1>8 DEF FreeCountExact
<1>13. GrantsAvoidReserved'
  BY <1>3, <1>7, <1>9 DEF GrantsAvoidReserved
<1> QED
  BY <1>10, <1>11, <1>12, <1>13 DEF IndInv

LEMMA AllocStep ==
  ASSUME IndInv, alloc_page
  PROVE  IndInv'
<1> USE DEF IndInv
<1>1. CASE Bits \subseteq used /\ reply' = NoFrame
           /\ UNCHANGED <<ready, total_pages, free_pages, bitmap_size, base_addr, used>>
  BY <1>1 DEF TypeOK, Layout, FreeCountExact, GrantsAvoidReserved, Bits
<1>2. ASSUME NEW b \in Bits \ used,
             used' = used \union {b}, free_pages' = free_pages - 1, reply' = AddrOf(b),
             UNCHANGED <<ready, total_pages, bitmap_size, base_addr>>
      PROVE  IndInv'
  <2>1. Bits' = Bits /\ b \in Bits
    BY <1>2 DEF Bits
  <2>2. /\ Cardinality(Bits \ used') = Cardinality(Bits \ used) - 1
        /\ Cardinality(Bits \ used') \in Nat
    <3>1. Bits \ used' = (Bits \ used) \ {b}
      BY <1>2
    <3> QED
      BY <1>2, <3>1, BitsFinite, FS_RemoveElement, FS_CardinalityType
  <2>3. BitOf(reply)' = b /\ reply' \in Nat
    <3>1. BitOf(AddrOf(b)) = b /\ AddrOf(b) \in Nat
      BY <2>1, BitOfAddrOf
    <3> QED
      BY <1>2, <3>1 DEF BitOf
  <2>4. FreeCountExact' /\ free_pages' \in Nat
    BY <1>2, <2>1, <2>2, BitsFinite DEF FreeCountExact, TypeOK
  <2>5. TypeOK' /\ Layout'
    BY <1>2, <2>1, <2>3, <2>4 DEF TypeOK, Layout
  <2>6. b \notin ReservedPages
    <3>1. CASE ready
      BY <3>1, <1>2 DEF GrantsAvoidReserved
    <3>2. CASE ~ready
      BY <3>2, <1>2 DEF Layout, Bits
    <3> QED
      BY <3>1, <3>2 DEF TypeOK
  <2>7. GrantsAvoidReserved'
    BY <1>2, <2>1, <2>3, <2>6 DEF GrantsAvoidReserved
  <2> QED
    BY <2>4, <2>5, <2>7
<1> QED
  BY <1>1, <1>2 DEF alloc_page

LEMMA FreeStep ==
  ASSUME IndInv, NEW addr \in Held \union Foreign, free_page(addr)
  PROVE  IndInv'
<1> USE DEF IndInv
<1>1. UNCHANGED <<ready, total_pages, bitmap_size, base_addr, reply>> /\ Bits' = Bits
  BY DEF free_page, Bits
<1>2. CASE BitOf(addr) \notin Bits
  <2>1. UNCHANGED <<used, free_pages>>
    BY <1>2 DEF free_page
  <2> QED
    BY <1>1, <2>1 DEF TypeOK, Layout, FreeCountExact, GrantsAvoidReserved, BitOf
<1>3. CASE BitOf(addr) \in Bits
  <2> DEFINE b == BitOf(addr)
  <2>1. used' = used \ {b} /\ free_pages' = free_pages + 1
    BY <1>3 DEF free_page
  <2>2. b \in used \ ReservedPages
    BY <1>3, FreeInputs
  <2> HIDE DEF b
  <2>3. Cardinality(Bits \ used') = Cardinality(Bits \ used) + 1
    <3>1. Bits \ used' = (Bits \ used) \union {b} /\ b \notin Bits \ used
      BY <2>1, <2>2 DEF TypeOK
    <3> QED
      BY <3>1, BitsFinite, FS_AddElement
  <2>4. FreeCountExact'
    BY <1>1, <2>1, <2>3, BitsFinite DEF FreeCountExact, TypeOK
  <2>5. TypeOK' /\ Layout'
    BY <1>1, <2>1 DEF TypeOK, Layout
  <2>6. GrantsAvoidReserved'
    BY <1>1, <2>1, <2>2 DEF GrantsAvoidReserved, BitOf
  <2> QED
    BY <2>4, <2>5, <2>6
<1> QED
  BY <1>2, <1>3

LEMMA StepIndInv == IndInv /\ [Next]_vars => IndInv'
<1> SUFFICES ASSUME IndInv, [Next]_vars PROVE IndInv'
  OBVIOUS
<1>1. CASE UNCHANGED vars
  BY <1>1 DEF IndInv, TypeOK, Layout, FreeCountExact, GrantsAvoidReserved, Bits, BitOf, vars
<1>2. CASE Next
  BY <1>2, InitStep, AllocStep, FreeStep DEF Next
<1> QED
  BY <1>1, <1>2

LEMMA Invariance == Spec => []IndInv
  BY InitIndInv, StepIndInv, PTL DEF Spec

(* pmm.rs keeps its fields in range for every memory map; in particular the  *)
(* wrapping fetch_sub on free_pages never wraps.                             *)
THEOREM PmmTypeOK == Spec => []TypeOK
  BY Invariance, PTL DEF IndInv

(* free_pages_count is exact: clear bits plus the pages outside the bitmap.  *)
THEOREM PmmFreeCountExact == Spec => []FreeCountExact
  BY Invariance, PTL DEF IndInv

(* alloc_page never returns a frame whose bit init marked.                   *)
THEOREM PmmGrantsAvoidReserved == Spec => []GrantsAvoidReserved
  BY Invariance, PTL DEF IndInv
-----------------------------------------------------------------------------
LEMMA AddrOfInjective ==
  ASSUME TypeOK, NEW b \in Bits, NEW c \in Bits, AddrOf(b) = AddrOf(c)
  PROVE  b = c
  BY PmmConstants DEF TypeOK, Bits, AddrOf, PAGE

LEMMA BeforeInit ==
  ASSUME TypeOK, Layout, ~ready
  PROVE  Bits = {} /\ used = {}
  BY DEF TypeOK, Layout, Bits

LEMMA InitRefines == Init => FA!Init
<1> SUFFICES ASSUME Init PROVE FA!Init
  OBVIOUS
<1>1. Bits = {} /\ used = {} /\ reply = NoFrame
  BY DEF Init, Bits
<1> QED
  BY <1>1 DEF FA!Init, Pool, Held

LEMMA StepRefines == IndInv /\ [Next]_vars => [FA!Next]_FA!vars
<1> SUFFICES ASSUME IndInv, [Next]_vars PROVE [FA!Next]_FA!vars
  OBVIOUS
<1> USE DEF IndInv
<1>1. CASE UNCHANGED vars
  BY <1>1 DEF vars, FA!vars, Pool, Held, Bits, AddrOf
<1>2. ASSUME NEW m \in MemoryMaps, init(m[1], m[2])
      PROVE  FA!Setup
  <2>1. ~ready /\ reply' = reply /\ IndInv'
    BY <1>2, InitStep DEF init
  <2>2. Pool = {} /\ Held = {}
    BY <2>1, BeforeInit DEF Pool, Held
  <2>3. Held' = {}
    <3>1. used' \subseteq ReservedPages
      BY <1>2 DEF init, MarkUsed
    <3> QED
      BY <3>1 DEF Held
  <2>4. Pool' \in SUBSET Nat
    <3>1. base_addr' = BASE /\ BASE \in Nat
      BY <1>2, PmmConstants DEF init
    <3>2. Bits' \subseteq Nat
      BY DEF Bits
    <3> QED
      BY <3>1, <3>2 DEF Pool, AddrOf, PAGE
  <2> QED
    BY <2>1, <2>2, <2>3, <2>4 DEF FA!Setup
<1>3. CASE alloc_page
  <2>1. CASE Bits \subseteq used /\ reply' = NoFrame
             /\ UNCHANGED <<ready, total_pages, free_pages, bitmap_size, base_addr, used>>
    <3>1. used = Bits
      BY <2>1 DEF TypeOK
    <3>2. Held = Pool
      BY <3>1 DEF Held, Pool
    <3>3. Pool' = Pool /\ Held' = Held
      BY <2>1 DEF Held, Pool, Bits, AddrOf
    <3> QED
      BY <2>1, <3>2, <3>3 DEF FA!Refuse, FA!Next
  <2>2. ASSUME NEW b \in Bits \ used,
               used' = used \union {b}, reply' = AddrOf(b),
               UNCHANGED <<ready, total_pages, bitmap_size, base_addr>>
        PROVE  FA!Grant
    <3>1. b \notin ReservedPages
      BY <2>2, BeforeInit DEF GrantsAvoidReserved, TypeOK
    <3>2. Pool' = Pool
      BY <2>2 DEF Pool, Bits, AddrOf
    <3>3. AddrOf(b) \in Pool
      BY <3>1 DEF Pool
    <3>4. AddrOf(b) \notin Held
      BY AddrOfInjective DEF Held, TypeOK
    <3>5. Held' = Held \union {AddrOf(b)}
      <4>1. \A c : AddrOf(c)' = AddrOf(c)
        BY <2>2 DEF AddrOf
      <4>2. (used \ ReservedPages)' = (used \ ReservedPages) \union {b}
        BY <2>2, <3>1
      <4> QED
        BY <4>1, <4>2 DEF Held
    <3> QED
      BY <2>2, <3>2, <3>3, <3>4, <3>5 DEF FA!Grant
  <2> QED
    BY <1>3, <2>1, <2>2 DEF alloc_page, FA!Next
<1>4. ASSUME NEW addr \in Held \union Foreign, free_page(addr)
      PROVE  FA!Release \/ UNCHANGED FA!vars
  <2>1. /\ UNCHANGED <<ready, total_pages, bitmap_size, base_addr, reply>>
        /\ Pool' = Pool /\ \A c : AddrOf(c)' = AddrOf(c)
    BY <1>4 DEF free_page, Pool, Bits, AddrOf
  <2>2. CASE BitOf(addr) \notin Bits
    <3>1. used' = used
      BY <1>4, <2>2 DEF free_page
    <3>2. Held' = Held
      BY <2>1, <3>1 DEF Held
    <3> QED
      BY <2>1, <3>2 DEF FA!vars
  <2>3. CASE BitOf(addr) \in Bits
    <3> DEFINE b == BitOf(addr)
    <3>1. b \in used \ ReservedPages /\ addr = AddrOf(b)
      BY <2>3, FreeInputs
    <3>2. used' = used \ {b}
      BY <1>4, <2>3 DEF free_page
    <3> HIDE DEF b
    <3>3. \A c \in used : AddrOf(c) = AddrOf(b) => c = b
      BY <3>1, AddrOfInjective DEF TypeOK
    <3>4. Held' = Held \ {AddrOf(b)}
      BY <2>1, <3>1, <3>2, <3>3 DEF Held
    <3>5. AddrOf(b) \in Held
      BY <3>1 DEF Held
    <3> QED
      BY <2>1, <3>4, <3>5 DEF FA!Release
  <2> QED
    BY <2>2, <2>3
<1> QED
  BY <1>1, <1>2, <1>3, <1>4 DEF Next, FA!Next

(* The bitmap allocator implements FrameAllocator for every memory map:      *)
(* alloc_page never grants a held frame and fails only when all are held.    *)
THEOREM PmmImplementsFrameAllocator == Spec => ImplementsFrameAllocator
<1>1. Spec => FA!Spec
  BY InitRefines, StepRefines, Invariance, PTL DEF Spec, FA!Spec
<1> QED
  BY <1>1 DEF ImplementsFrameAllocator
=============================================================================
