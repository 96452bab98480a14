----------------------------- MODULE MCUserland -----------------------------
EXTENDS Userland

Segments == {[type |-> t, vaddr |-> v, filesz |-> f, memsz |-> m] :
               t \in {PT_LOAD, 2}, v \in 0 .. 5, f \in 0 .. 2, m \in 0 .. 3}
Sound(p) == p.filesz <= p.memsz /\ p.vaddr + p.memsz <= 8

\* Pairs of segments, apart, adjacent in a page or overlapping, entered where
\* the first one begins; and files that are no executables.
MCImages ==
  {[magic |-> "ELF", type |-> ET_EXEC, entry |-> p.vaddr, phdrs |-> <<p, q>>] :
     p \in {x \in Segments : Sound(x)},
     q \in {x \in Segments : Sound(x) /\ x.type = PT_LOAD /\ x.vaddr \in 3 .. 4}}
  \union {[magic |-> "other", type |-> ET_EXEC, entry |-> 1, phdrs |-> <<>>],
          [magic |-> "ELF", type |-> 3, entry |-> 1, phdrs |-> <<>>]}
FrameSymmetry == Permutations(Frames)

MCTexts == {<<>>, <<"a">>, <<"a", "b", "a">>, <<"LF", "b">>, <<"LF", "LF">>, <<"BEL", "b">>}
MCCalls == {SYS_EXIT, 2, SYS_WRITE, SYS_ALLOC, SYS_FREE}

CONSTANTS root, home, bare    \* bare has no callbacks

MCTargets == {<<"/">>, <<"/", "a">>}
MCPaths == {<<"/", "a">>, <<"/", "a", "b">>, <<"b">>}
MCFileSystems == {root, home, bare}
MCHasMount == {root}
MCHasGetInode == {root, home}
MCHasOpen == {home}
MCHasRead == {root}
MCKnown == (root :> {<<>>, <<"a">>, <<"a", "b">>}) @@ (home :> {<<"b">>}) @@ (bare :> {})

\* Each class with no access, one, two of them, or all.
MCModes == {64 * o + 8 * g + t : o \in {0, 1, 4, 6}, g \in {0, 2, 7}, t \in {0, 5}}
=============================================================================
