-------------------------------- MODULE Vmm --------------------------------
(***************************************************************************)
(* The page tables of kernel/mem/vmm.rs with the callers that drive them:  *)
(* the page-fault bridge of lib/libcrust/bridge.rs and the ELF loader's    *)
(* alloc_page_at.  Frames come from an allocator that keeps the contract   *)
(* of FrameAllocator (Pmm implements it); no caller gives a frame back.    *)
(* A page directory entry is the table it names, a table entry the frame   *)
(* it maps, None an entry whose present bit is 0.  Flags are left out.     *)
(***************************************************************************)
EXTENDS FiniteSets

CONSTANTS Frames,       \* the allocator's pool
          Dirs,         \* page directories the kernel switches between
          PdIdx, PtIdx, \* virt >> 22 and (virt >> 12) & 0x3FF
          None, NoDir, Unset

ASSUME VmmConstants ==
  /\ None \notin Frames /\ NoDir \notin Dirs
  /\ Unset \notin Frames /\ Unset # None

VARIABLES held,             \* frames alloc_page has granted
          page_directory,   \* the loaded directory
          pd,               \* directory -> pd_index -> table frame or None
          pt,               \* frame, read as a page table: pt_index -> frame or None
          halted,           \* unwrap() of a refused alloc_page: the kernel panicked
          tlb,              \* the processor's cached translations
          known,            \* ghost: what map_page/unmap_page last did to a page
          dirty,            \* ghost: pages rewritten since their last flush
          lost              \* ghost: granted frames that nothing refers to any more

vars == <<held, page_directory, pd, pt, halted, tlb, known, dirty, lost>>

Virt == PdIdx \X PtIdx
Entry == Frames \union {None}

\* The translation the processor finds in the tables in memory.
Walk(d, v) == IF pd[d][v[1]] = None THEN None ELSE pt[pd[d][v[1]]][v[2]]

Init ==
  /\ held = {} /\ lost = {} /\ dirty = {} /\ halted = FALSE
  /\ page_directory = NoDir
  /\ pd = [d \in Dirs |-> [i \in PdIdx |-> None]]
  /\ pt = [f \in Frames |-> [j \in PtIdx |-> None]]
  /\ tlb = [v \in Virt |-> None]
  /\ known = [d \in Dirs |-> [v \in Virt |-> Unset]]

Replaced(d, v) == {known[d][v]} \intersect Frames

\* map_page(v, f) once the caller holds h.  A new table is not cleared: its
\* other entries are whatever the frame contained.
MutMapReplacesTable(v, f, h) ==
  /\ known' = [known EXCEPT ![page_directory][v] = f]
  /\ lost' = lost \union Replaced(page_directory, v)
  /\ \E t \in Frames \ h, contents \in [PtIdx -> Entry] :
       /\ pd' = [pd EXCEPT ![page_directory][v[1]] = t]
       /\ pt' = [pt EXCEPT ![t] = [contents EXCEPT ![v[2]] = f]]
       /\ held' = h \union {t}
       /\ UNCHANGED halted

MutMapReusesFrame(v, f, h) ==
  /\ pd[page_directory][v[1]] = None
  /\ known' = [known EXCEPT ![page_directory][v] = f]
  /\ pd' = [pd EXCEPT ![page_directory][v[1]] = f]
  /\ pt' = [pt EXCEPT ![f][v[2]] = f]
  /\ held' = h
  /\ UNCHANGED <<halted, lost>>

map_page(v, f, h) ==
  LET table == pd[page_directory][v[1]] IN
  \/ /\ table # None
     /\ pt' = [pt EXCEPT ![table][v[2]] = f]
     /\ known' = [known EXCEPT ![page_directory][v] = f]
     /\ lost' = lost \union Replaced(page_directory, v)
     /\ held' = h
     /\ UNCHANGED <<pd, halted>>
  \/ /\ table = None
     /\ \E t \in Frames \ h, contents \in [PtIdx -> Entry] :
          /\ pd' = [pd EXCEPT ![page_directory][v[1]] = t]
          /\ pt' = [pt EXCEPT ![t] = [contents EXCEPT ![v[2]] = f]]
          /\ held' = h \union {t}
     /\ known' = [known EXCEPT ![page_directory][v] = f]
     /\ UNCHANGED <<halted, lost>>
  \/ /\ table = None /\ h = Frames
     /\ halted' = TRUE
     /\ held' = h
     /\ lost' = lost \union {f}
     /\ UNCHANGED <<pd, pt, known>>

Running == page_directory # NoDir /\ ~halted

\* The processor faults on a page it can translate neither from the TLB nor
\* from the tables; with no frame left the handler returns 0.
rust_handle_page_fault(v) ==
  /\ Running
  /\ tlb[v] = None /\ Walk(page_directory, v) = None
  /\ \/ \E f \in Frames \ held : map_page(v, f, held \union {f})
     \/ held = Frames /\ UNCHANGED <<held, pd, pt, halted, known, lost>>
  /\ UNCHANGED <<page_directory, tlb, dirty>>

\* The loader maps over whatever the page held and flushes nothing.
alloc_page_at(v) ==
  /\ Running
  /\ \/ /\ \E f \in Frames \ held : map_page(v, f, held \union {f})
        /\ dirty' = dirty \union {v}
     \/ held = Frames /\ UNCHANGED <<held, pd, pt, halted, known, dirty, lost>>
  /\ UNCHANGED <<page_directory, tlb>>

\* Without a table for the page this does nothing.
unmap_page(v) ==
  LET table == pd[page_directory][v[1]] IN
  /\ Running
  /\ IF table # None
       THEN /\ pt' = [pt EXCEPT ![table][v[2]] = None]
            /\ known' = [known EXCEPT ![page_directory][v] = None]
            /\ lost' = lost \union Replaced(page_directory, v)
            /\ dirty' = dirty \union {v}
       ELSE UNCHANGED <<pt, known, lost, dirty>>
  /\ UNCHANGED <<held, page_directory, pd, halted, tlb>>

\* Loading cr3 empties the TLB.
MutSwitchKeepsCr3(d) ==
  /\ ~halted
  /\ page_directory' = d
  /\ dirty' = {}
  /\ UNCHANGED <<held, pd, pt, halted, tlb, known, lost>>

switch_directory(d) ==
  /\ ~halted
  /\ page_directory' = d
  /\ tlb' = [v \in Virt |-> None]
  /\ dirty' = {}
  /\ UNCHANGED <<held, pd, pt, halted, known, lost>>

tlb_flush(v) ==
  /\ Running
  /\ tlb' = [tlb EXCEPT ![v] = None]
  /\ dirty' = dirty \ {v}
  /\ UNCHANGED <<held, page_directory, pd, pt, halted, known, lost>>

\* Hardware: a translation that misses the TLB is read from memory and cached.
TlbFill(v) ==
  /\ Running
  /\ tlb[v] = None /\ Walk(page_directory, v) # None
  /\ tlb' = [tlb EXCEPT ![v] = Walk(page_directory, v)]
  /\ UNCHANGED <<held, page_directory, pd, pt, halted, known, dirty, lost>>

Next ==
  \/ \E d \in Dirs : switch_directory(d)
  \/ \E v \in Virt :
       \/ rust_handle_page_fault(v)
       \/ alloc_page_at(v)
       \/ unmap_page(v)
       \/ tlb_flush(v)
       \/ TlbFill(v)

Spec == Init /\ [][Next]_vars
-----------------------------------------------------------------------------
(* In every directory, the tables in memory translate each page to what      *)
(* map_page or unmap_page last did to it: neither a page fault elsewhere,    *)
(* nor the creation of an uncleared table, nor a directory switch changes    *)
(* the translation of a page that has been mapped.                           *)
WalkIsLastMap ==
  \A d \in Dirs, v \in Virt : known[d][v] # Unset => Walk(d, v) = known[d][v]

Tables == {pd[d][i] : d \in Dirs, i \in PdIdx} \ {None}
Mapped == {known[d][v] : d \in Dirs, v \in Virt} \intersect Frames

(* Every granted frame has exactly one use: it is the table of one directory *)
(* slot, or the target of one mapping, or it was unmapped or replaced and is *)
(* lost, as nothing ever passes it to free_page.                             *)
FramePartition ==
  /\ held = Tables \union Mapped \union lost
  /\ Tables \intersect Mapped = {}
  /\ lost \intersect (Tables \union Mapped) = {}
  /\ \A d, e \in Dirs : \A i, j \in PdIdx :
       pd[d][i] = pd[e][j] /\ pd[d][i] # None => d = e /\ i = j
  /\ \A d, e \in Dirs : \A v, w \in Virt :
       known[d][v] = known[e][w] /\ known[d][v] \in Frames => d = e /\ v = w

(* The TLB disagrees with the tables only on pages that unmap_page or the    *)
(* loader rewrote since the last invlpg or cr3 load: demand paging itself    *)
(* never needs the flush that rust_handle_page_fault leaves out.             *)
TlbCoherent ==
  \A v \in Virt :
    tlb[v] # None => v \in dirty \/ tlb[v] = Walk(page_directory, v)
=============================================================================
