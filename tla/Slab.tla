-------------------------------- MODULE Slab --------------------------------
(***************************************************************************)
(* The heap of kernel/mem/slab_allocator.rs.  Addresses and sizes are in   *)
(* units of size_of::<SlabBlock>(), so a header takes one unit, and        *)
(* clients ask for whole units.  A client may write all it was given: once *)
(* a grant covers a header that is not its own, or a split writes a header *)
(* over another, the heap's contents are arbitrary; the model stops there. *)
(***************************************************************************)
EXTENDS Integers, FiniteSetsExt

CONSTANTS HEAP,         \* heap_size; the heap starts at address 0
          Sizes,        \* request sizes
          Null,
          MaxTotal      \* bound: units handed out in a run

ASSUME SlabConstants ==
  /\ HEAP \in Nat \ {0} /\ Sizes \subseteq Nat /\ Null \notin Nat
  /\ MaxTotal \in Nat

VARIABLES block,        \* the headers in memory: address -> [next, size, free]
          total_allocated, total_freed,
          live,         \* ghost: blocks held by clients, address -> size asked for
          merges        \* ghost: how many blocks dealloc has coalesced

vars == <<block, total_allocated, total_freed, live, merges>>

H == 1
Addrs == 0 .. HEAP - 1

\* The blocks the next pointers lead through, from the head at address 0.
Chain(b) ==
  LET reach[n \in 0 .. HEAP] ==
        IF n = 0 THEN {0}
        ELSE LET r == reach[n - 1] IN r \union ({b[a].next : a \in r} \ {Null})
  IN  reach[HEAP]

Init ==
  /\ block = [a \in {0} |-> [next |-> Null, size |-> HEAP - H, free |-> TRUE]]
  /\ total_allocated = 0 /\ total_freed = 0
  /\ live = [a \in {} |-> 0]
  /\ merges = 0

Set(f, a, v) == [x \in DOMAIN f \union {a} |-> IF x = a THEN v ELSE f[x]]

Fits(a, size) == block[a].free /\ block[a].size >= size + H

\* Headers after block a is taken for a request of this size.
MutTake(a, size) ==
  LET b == block[a] total == size + H rest == a + size IN
  IF b.size > total + H
    THEN Set(Set(block, a, [next |-> rest, size |-> total, free |-> FALSE]),
             rest, [next |-> b.next, size |-> b.size - total, free |-> TRUE])
    ELSE Set(block, a, [b EXCEPT !.free = FALSE])

Take(a, size) ==
  LET b == block[a] total == size + H rest == a + total IN
  IF b.size > total + H
    THEN Set(Set(block, a, [next |-> rest, size |-> total, free |-> FALSE]),
             rest, [next |-> b.next, size |-> b.size - total, free |-> TRUE])
    ELSE Set(block, a, [b EXCEPT !.free = FALSE])

\* What a client may write, its header included.
Extent(a) == a .. (a + H + live[a] - 1)

Intact ==
  /\ \A c \in Chain(block) : block[c].next # Null => c < block[c].next
  /\ \A a \in DOMAIN live :
       /\ Extent(a) \subseteq Addrs
       /\ \A c \in Chain(block) : a # c => c \notin Extent(a)

\* First fit along the chain, whose addresses increase; null when none fits.
alloc(size) ==
  \/ \E a \in Chain(block) :
       /\ Fits(a, size)
       /\ \A c \in Chain(block) : Fits(c, size) => a <= c
       /\ total_allocated + HEAP <= MaxTotal
       /\ block' = Take(a, size)
       /\ total_allocated' = total_allocated + block'[a].size
       /\ live' = Set(live, a, size)
       /\ UNCHANGED <<total_freed, merges>>
  \/ (\A a \in Chain(block) : ~Fits(a, size)) /\ UNCHANGED vars

\* The single pass of dealloc over the chain: each free block absorbs a free
\* successor, at most one, and the pass goes on after it.
MutMergedSize(x, y) == x + H

MergedSize(x, y) == x + y + H

MutCoalesce(b0) ==
  LET pass[n \in 0 .. HEAP] ==
        IF n = 0 THEN <<b0, 0, 0>>
        ELSE LET p == pass[n - 1] b == p[1] a == p[2] m == p[3] IN
             CASE a = Null -> p
               [] a # Null /\ b[a].next # Null /\ b[b[a].next].free ->
                    LET c == b[a].next IN
                    <<[b EXCEPT ![a] = [next |-> b[c].next, free |-> TRUE,
                                        size |-> MergedSize(b[a].size, b[c].size)]],
                      b[c].next, m + 1>>
               [] OTHER -> <<b, b[a].next, m>>
  IN  pass[HEAP]

Coalesce(b0) ==
  LET pass[n \in 0 .. HEAP] ==      \* <<headers, where the pass is, merges>>
        IF n = 0 THEN <<b0, 0, 0>>
        ELSE LET p == pass[n - 1] b == p[1] a == p[2] m == p[3] IN
             CASE a = Null -> p
               [] a # Null /\ b[a].next # Null /\ b[a].free /\ b[b[a].next].free ->
                    LET c == b[a].next IN
                    <<[b EXCEPT ![a] = [next |-> b[c].next, free |-> TRUE,
                                        size |-> MergedSize(b[a].size, b[c].size)]],
                      b[c].next, m + 1>>
               [] OTHER -> <<b, b[a].next, m>>
  IN  pass[HEAP]

\* A header that left the chain is only ever written again, never read.
OnChain(b) == [a \in Chain(b) |-> b[a]]

dealloc(a) ==
  LET done == Coalesce([block EXCEPT ![a].free = TRUE]) IN
  /\ a \in DOMAIN live
  /\ total_freed' = total_freed + block[a].size
  /\ block' = OnChain(done[1]) /\ merges' = merges + done[3]
  /\ live' = [x \in DOMAIN live \ {a} |-> live[x]]
  /\ UNCHANGED total_allocated

Next ==
  /\ Intact
  /\ (\E s \in Sizes : alloc(s)) \/ (\E a \in DOMAIN live : dealloc(a))

Spec == Init /\ [][Next]_vars
-----------------------------------------------------------------------------
SizeSum(S) == MapThenSumSet(LAMBDA a : block[a].size, S)

(* The sizes along the chain add up to the heap, less one header, plus one   *)
(* header for every coalescing: dealloc adds the header of the block it      *)
(* absorbs to a size that already contains it.                               *)
ChainSize == Intact => SizeSum(Chain(block)) = HEAP - H + merges * H

(* The pass of dealloc never absorbs or loses a block that a client holds:   *)
(* the blocks marked as used on the chain are the ones held.  So stats() is  *)
(* exact: what was allocated and not freed is the size of those blocks,      *)
(* whatever was split and coalesced in between.                              *)
InUseExact ==
  Intact =>
    /\ {a \in Chain(block) : ~block[a].free} = DOMAIN live
    /\ total_allocated - total_freed = SizeSum(DOMAIN live)

(* Until dealloc has coalesced two blocks, what alloc hands out lies inside  *)
(* the heap and overlaps neither another grant nor any header.               *)
DisjointUntilMerge == merges = 0 => Intact
=============================================================================
