--------------------------------- MODULE Elf ---------------------------------
(***************************************************************************)
(* kernel/userspace/elf_loader.c: elf_load brings the PT_LOAD segments of  *)
(* an executable into memory, page by page, taking a frame for each page.  *)
(* An address is in units of half a page.  A byte of the file is named by  *)
(* the segment and the position it is from; a new frame holds old data.    *)
(***************************************************************************)
EXTENDS Integers, Sequences, FiniteSets

CONSTANTS Images,        \* executables: [magic, type, entry, phdrs]
          Frames,        \* the frames the kernel can still allocate
          NoFrame,       \* a page that is not mapped
          Junk, Zero     \* what a fresh frame holds; a byte of .bss

PT_LOAD == 1
ET_EXEC == 2
PAGE == 2
Pages == 0 .. 3

ASSUME ElfConstants ==
  /\ NoFrame \notin Frames
  /\ \A im \in Images : \A n \in DOMAIN im.phdrs :
       LET p == im.phdrs[n] IN
       /\ p.vaddr \in Nat /\ p.memsz \in Nat /\ p.filesz \in 0 .. p.memsz
       /\ p.vaddr + p.memsz <= PAGE * Cardinality(Pages)

VARIABLES elf,           \* the image being loaded
          pc, i, page,   \* the loader: "idle", "segment", "map", "done", "failed", "returned"
          table,         \* page -> frame, or NoFrame
          mem,           \* frame -> its PAGE cells
          free           \* frames not handed out

elf_vars == <<elf, pc, i, page, table, mem, free>>

ElfInit ==
  /\ elf = <<>>
  /\ pc = "idle" /\ i = 0 /\ page = 0
  /\ table = [p \in Pages |-> NoFrame]
  /\ free = Frames
  /\ mem = [f \in Frames |-> [c \in 0 .. PAGE - 1 |-> Junk]]

phdr == elf.phdrs[i]
start_page == phdr.vaddr \div PAGE
end_page == (phdr.vaddr + phdr.memsz + PAGE - 1) \div PAGE

\* The rest of the kernel takes frames of its own.
sys_alloc_page ==
  /\ pc = "idle"
  /\ \E f \in free : free' = free \ {f}
  /\ UNCHANGED <<elf, pc, i, page, table, mem>>

\* The header decides whether the segments are looked at.
elf_load(elf_data) ==
  /\ elf' = elf_data
  /\ pc' = IF elf_data.magic = "ELF" /\ elf_data.type = ET_EXEC THEN "segment" ELSE "failed"
  /\ i' = 1
  /\ UNCHANGED <<page, table, mem, free>>

NextSegment ==
  /\ pc = "segment"
  /\ \/ /\ i > Len(elf.phdrs)
        /\ pc' = "done"
        /\ UNCHANGED <<i, page>>
     \/ /\ i <= Len(elf.phdrs)
        /\ ~(phdr.type = PT_LOAD /\ phdr.memsz > 0)
        /\ i' = i + 1
        /\ UNCHANGED <<pc, page>>
     \/ /\ i <= Len(elf.phdrs)
        /\ phdr.type = PT_LOAD /\ phdr.memsz > 0
        /\ pc' = "map" /\ page' = start_page
        /\ UNCHANGED i
  /\ UNCHANGED <<elf, table, mem, free>>

MutAllocPageAt ==
  /\ pc = "map" /\ page < end_page
  /\ \/ /\ free = {}
        /\ page' = page + 1
        /\ UNCHANGED <<pc, table, free>>
     \/ \E f \in free :
          /\ table' = [table EXCEPT ![page] = f]
          /\ free' = free \ {f}
          /\ page' = page + 1
          /\ UNCHANGED pc
  /\ UNCHANGED <<elf, i, mem>>

MutKeepsFree ==
  /\ pc = "map" /\ page < end_page
  /\ \/ /\ free = {}
        /\ pc' = "failed"
        /\ UNCHANGED <<page, table, free>>
     \/ \E f \in free :
          /\ table' = [table EXCEPT ![page] = f]
          /\ page' = page + 1
          /\ UNCHANGED <<pc, free>>
  /\ UNCHANGED <<elf, i, mem>>

\* One turn of the mapping loop; the mapping there was is replaced.
alloc_page_at ==
  /\ pc = "map" /\ page < end_page
  /\ \/ /\ free = {}
        /\ pc' = "failed"
        /\ UNCHANGED <<page, table, free>>
     \/ \E f \in free :
          /\ table' = [table EXCEPT ![page] = f]
          /\ free' = free \ {f}
          /\ page' = page + 1
          /\ UNCHANGED pc
  /\ UNCHANGED <<elf, i, mem>>

\* The cell at address a after the memcpy and the clearing of .bss.
Filled(a, old) ==
  CASE a - phdr.vaddr \in 0 .. phdr.filesz - 1 -> <<i, a - phdr.vaddr>>
    [] a - phdr.vaddr \in phdr.filesz .. phdr.memsz - 1 -> Zero
    [] OTHER -> old

Fill ==
  /\ pc = "map" /\ page >= end_page
  /\ mem' = [f \in Frames |-> [c \in 0 .. PAGE - 1 |->
       IF \E p \in Pages : table[p] = f
         THEN Filled(PAGE * (CHOOSE p \in Pages : table[p] = f) + c, mem[f][c])
         ELSE mem[f][c]]]
  /\ i' = i + 1 /\ pc' = "segment"
  /\ UNCHANGED <<elf, page, table, free>>

ElfNext ==
  \/ sys_alloc_page
  \/ pc = "idle" /\ \E elf_data \in Images : elf_load(elf_data)
  \/ NextSegment \/ alloc_page_at \/ Fill
-----------------------------------------------------------------------------
Load(n) == elf.phdrs[n].type = PT_LOAD /\ elf.phdrs[n].memsz > 0
Span(n) == elf.phdrs[n].vaddr .. (elf.phdrs[n].vaddr + elf.phdrs[n].memsz - 1)
PagesOf(n) == {a \div PAGE : a \in Span(n)}
Cell(a) == mem[table[a \div PAGE]][a % PAGE]
Loaded(n) ==
  \A a \in Span(n) :
    LET off == a - elf.phdrs[n].vaddr IN
    /\ table[a \div PAGE] # NoFrame
    /\ Cell(a) = IF off < elf.phdrs[n].filesz THEN <<n, off>> ELSE Zero

(* During the load no frame backs two pages, and none that backs a page can  *)
(* be handed out again.                                                      *)
FramesExclusive ==
  /\ \A p, q \in Pages : p # q /\ table[p] # NoFrame => table[p] # table[q]
  /\ \A p \in Pages : table[p] \notin free
=============================================================================
