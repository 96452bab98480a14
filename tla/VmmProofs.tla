----------------------------- MODULE VmmProofs -----------------------------
(***************************************************************************)
(* The three invariants of Vmm, for every pool of frames, set of page      *)
(* directories and size of the tables.                                     *)
(***************************************************************************)
EXTENDS Vmm, TLAPS

Types ==
  /\ held \in SUBSET Frames /\ lost \in SUBSET Frames
  /\ page_directory \in Dirs \union {NoDir}
  /\ pd \in [Dirs -> [PdIdx -> Entry]]
  /\ pt \in [Frames -> [PtIdx -> Entry]]
  /\ tlb \in [Virt -> Entry]
  /\ known \in [Dirs -> [Virt -> Entry \union {Unset}]]
  /\ dirty \in SUBSET Virt

\* A page that was mapped or unmapped has a table, for good.
HasTable == \A d \in Dirs, v \in Virt : known[d][v] # Unset => pd[d][v[1]] # None

\* WalkIsLastMap says nothing of a page without a table, and TlbCoherent needs
\* to know that no two directory slots share one.
IndInv == Types /\ HasTable /\ WalkIsLastMap /\ FramePartition /\ TlbCoherent
-----------------------------------------------------------------------------
(* map_page of a frame just granted, in the first of its cases: the entry of *)
(* v in a table that exists is the only one it changes.                      *)
LEMMA MapInTable ==
  ASSUME IndInv, page_directory \in Dirs, UNCHANGED page_directory,
         NEW v \in Virt, NEW f \in Frames \ held,
         pd[page_directory][v[1]] # None,
         pt' = [pt EXCEPT ![pd[page_directory][v[1]]][v[2]] = f],
         known' = [known EXCEPT ![page_directory][v] = f],
         lost' = lost \union Replaced(page_directory, v),
         held' = held \union {f}, UNCHANGED pd
  PROVE  /\ pt' \in [Frames -> [PtIdx -> Entry]]
         /\ known' \in [Dirs -> [Virt -> Entry \union {Unset}]]
         /\ held' \in SUBSET Frames /\ lost' \in SUBSET Frames
         /\ HasTable' /\ WalkIsLastMap' /\ FramePartition'
         /\ \A w \in Virt \ {v} : Walk(page_directory, w)' = Walk(page_directory, w)
<1> DEFINE D == page_directory
           t == pd[D][v[1]]
<1>1. /\ t \in Frames /\ t \in Tables /\ t \in held
      /\ v[1] \in PdIdx /\ v[2] \in PtIdx /\ v = <<v[1], v[2]>>
  BY DEF IndInv, Types, FramePartition, Tables, Virt, Entry
<1>2. /\ pt' \in [Frames -> [PtIdx -> Entry]]
      /\ known' \in [Dirs -> [Virt -> Entry \union {Unset}]]
      /\ held' \in SUBSET Frames /\ lost' \in SUBSET Frames
  BY <1>1 DEF IndInv, Types, Replaced, Entry
<1>3. \A e \in Dirs, w \in Virt : known'[e][w] = IF e = D /\ w = v THEN f ELSE known[e][w]
  BY DEF IndInv, Types
<1>4. HasTable'
  BY <1>3 DEF IndInv, HasTable
<1>5. \A e \in Dirs, w \in Virt : ~(e = D /\ w = v) => Walk(e, w)' = Walk(e, w)
  <2> SUFFICES ASSUME NEW e \in Dirs, NEW w \in Virt, ~(e = D /\ w = v)
               PROVE  Walk(e, w)' = Walk(e, w)
    OBVIOUS
  <2>1. w[1] \in PdIdx /\ w[2] \in PtIdx /\ w = <<w[1], w[2]>>
    BY DEF Virt
  <2>2. CASE pd[e][w[1]] = None
    BY <2>2 DEF Walk
  <2>3. CASE pd[e][w[1]] # None
    <3>1. pd[e][w[1]] = t => e = D /\ w[1] = v[1]
      BY <1>1, <2>1 DEF IndInv, FramePartition, Types, Entry
    <3>2. pd[e][w[1]] \in Frames
      BY <2>1, <2>3 DEF IndInv, Types, Entry
    <3>3. ~(pd[e][w[1]] = t /\ w[2] = v[2])
      BY <3>1, <2>1, <1>1
    <3>4. pt'[pd[e][w[1]]][w[2]] = pt[pd[e][w[1]]][w[2]]
      BY <3>2, <3>3, <2>1, <1>1 DEF IndInv, Types
    <3> QED BY <3>4 DEF Walk
  <2> QED BY <2>2, <2>3
<1>6. Walk(D, v)' = f
  BY <1>1, <1>2 DEF Walk, IndInv, Types
<1>7. WalkIsLastMap'
  BY <1>3, <1>5, <1>6 DEF WalkIsLastMap, IndInv
<1>8. FramePartition'
  <2>1. Tables' = Tables
    BY DEF Tables
  <2>2. f \notin Tables /\ f \notin Mapped /\ f \notin lost
    BY DEF IndInv, FramePartition
  <2>3. Mapped' = (Mapped \ Replaced(D, v)) \union {f}
    <3>1. ASSUME NEW x \in Mapped' PROVE x = f \/ x \in Mapped \ Replaced(D, v)
      <4>1. PICK e \in Dirs, w \in Virt : x = known'[e][w] /\ x \in Frames
        BY <3>1 DEF Mapped
      <4>2. CASE e = D /\ w = v
        BY <4>1, <4>2, <1>3
      <4>3. CASE ~(e = D /\ w = v)
        <5>1. x = known[e][w] /\ x \in Mapped
          BY <4>1, <4>3, <1>3 DEF Mapped
        <5>2. x # known[D][v]
          BY <5>1, <4>1, <4>3 DEF IndInv, FramePartition
        <5> QED BY <5>1, <5>2 DEF Replaced
      <4> QED BY <4>2, <4>3
    <3>2. f \in Mapped'
      BY <1>3 DEF Mapped
    <3>3. ASSUME NEW x \in Mapped \ Replaced(D, v) PROVE x \in Mapped'
      <4>1. PICK e \in Dirs, w \in Virt : x = known[e][w] /\ x \in Frames
        BY <3>3 DEF Mapped
      <4>2. ~(e = D /\ w = v)
        BY <4>1 DEF Replaced
      <4> QED BY <4>1, <4>2, <1>3 DEF Mapped
    <3> QED BY <3>1, <3>2, <3>3
  <2>4. Replaced(D, v) \subseteq Mapped
    BY DEF Replaced, Mapped
  <2>5. /\ held' = Tables' \union Mapped' \union lost'
        /\ Tables' \intersect Mapped' = {}
        /\ lost' \intersect (Tables' \union Mapped') = {}
    BY <2>1, <2>2, <2>3, <2>4 DEF IndInv, FramePartition
  <2>6. \A d, e \in Dirs : \A w, x \in Virt :
          known'[d][w] = known'[e][x] /\ known'[d][w] \in Frames => d = e /\ w = x
    <3>1. \A e \in Dirs, w \in Virt : known[e][w] # f
      BY <2>2 DEF Mapped
    <3> QED BY <1>3, <3>1 DEF IndInv, FramePartition
  <2>7. \A d, e \in Dirs : \A i, j \in PdIdx :
          pd'[d][i] = pd'[e][j] /\ pd'[d][i] # None => d = e /\ i = j
    BY DEF IndInv, FramePartition
  <2> QED BY <2>5, <2>6, <2>7 DEF FramePartition
<1> QED BY <1>2, <1>4, <1>5, <1>7, <1>8

(* map_page in its second case: the new table is a second frame, which no    *)
(* slot and no mapping uses, so what it happens to contain concerns only     *)
(* pages that were never mapped.                                             *)
LEMMA MapWithNewTable ==
  ASSUME IndInv, page_directory \in Dirs, UNCHANGED page_directory,
         NEW v \in Virt, NEW f \in Frames \ held,
         pd[page_directory][v[1]] = None,
         NEW t \in Frames \ (held \union {f}), NEW contents \in [PtIdx -> Entry],
         pd' = [pd EXCEPT ![page_directory][v[1]] = t],
         pt' = [pt EXCEPT ![t] = [contents EXCEPT ![v[2]] = f]],
         known' = [known EXCEPT ![page_directory][v] = f],
         held' = (held \union {f}) \union {t}, UNCHANGED lost
  PROVE  /\ pd' \in [Dirs -> [PdIdx -> Entry]]
         /\ pt' \in [Frames -> [PtIdx -> Entry]]
         /\ known' \in [Dirs -> [Virt -> Entry \union {Unset}]]
         /\ held' \in SUBSET Frames /\ lost' \in SUBSET Frames
         /\ HasTable' /\ WalkIsLastMap' /\ FramePartition'
         /\ \A w \in Virt : Walk(page_directory, w) # None
                              => Walk(page_directory, w)' = Walk(page_directory, w)
<1> DEFINE D == page_directory
<1>1. v[1] \in PdIdx /\ v[2] \in PtIdx /\ v = <<v[1], v[2]>>
  BY DEF Virt
<1>2. /\ pd' \in [Dirs -> [PdIdx -> Entry]]
      /\ pt' \in [Frames -> [PtIdx -> Entry]]
      /\ known' \in [Dirs -> [Virt -> Entry \union {Unset}]]
      /\ held' \in SUBSET Frames /\ lost' \in SUBSET Frames
  BY <1>1 DEF IndInv, Types, Entry
<1>3. \A e \in Dirs, w \in Virt : known'[e][w] = IF e = D /\ w = v THEN f ELSE known[e][w]
  BY DEF IndInv, Types
<1>4. \A e \in Dirs, i \in PdIdx : pd'[e][i] = IF e = D /\ i = v[1] THEN t ELSE pd[e][i]
  BY <1>1 DEF IndInv, Types
<1>5. t # None /\ t # f /\ f \notin Tables /\ f \notin Mapped /\ f \notin lost
  BY VmmConstants DEF IndInv, FramePartition
<1>6. t \notin Tables /\ t \notin Mapped /\ t \notin lost
  BY DEF IndInv, FramePartition
<1>7. HasTable'
  <2> SUFFICES ASSUME NEW e \in Dirs, NEW w \in Virt, known'[e][w] # Unset PROVE pd'[e][w[1]] # None
    BY DEF HasTable
  <2>1. w[1] \in PdIdx
    BY DEF Virt
  <2> QED BY <1>3, <1>4, <1>5, <2>1 DEF IndInv, HasTable
<1>8. \A e \in Dirs, w \in Virt : pd[e][w[1]] # None => Walk(e, w)' = Walk(e, w)
  <2> SUFFICES ASSUME NEW e \in Dirs, NEW w \in Virt, pd[e][w[1]] # None PROVE Walk(e, w)' = Walk(e, w)
    OBVIOUS
  <2>1. w[1] \in PdIdx /\ w[2] \in PtIdx
    BY DEF Virt
  <2>2. pd[e][w[1]] \in Tables /\ pd[e][w[1]] \in Frames
    BY <2>1 DEF Tables, IndInv, Types, Entry
  <2>3. pd'[e][w[1]] = pd[e][w[1]]
    BY <2>1, <1>4
  <2>4. pt'[pd[e][w[1]]] = pt[pd[e][w[1]]]
    BY <2>2, <1>6 DEF IndInv, Types
  <2>5. Walk(e, w)' = IF pd'[e][w[1]] = None THEN None ELSE pt'[pd'[e][w[1]]][w[2]]
    BY DEF Walk
  <2>6. Walk(e, w) = pt[pd[e][w[1]]][w[2]]
    BY DEF Walk
  <2> HIDE DEF Walk
  <2> QED BY <2>3, <2>4, <2>5, <2>6
<1>9. Walk(D, v)' = f
  BY <1>1, <1>4, <1>5 DEF Walk, IndInv, Types
<1>10. WalkIsLastMap'
  <2> SUFFICES ASSUME NEW e \in Dirs, NEW w \in Virt, known'[e][w] # Unset
               PROVE  Walk(e, w)' = known'[e][w]
    BY DEF WalkIsLastMap
  <2>1. CASE e = D /\ w = v
    BY <2>1, <1>3, <1>9
  <2>2. CASE ~(e = D /\ w = v)
    BY <2>2, <1>3, <1>8 DEF IndInv, HasTable, WalkIsLastMap
  <2> QED BY <2>1, <2>2
<1>11. FramePartition'
  <2>1. Tables' = Tables \union {t}
    <3>1. ASSUME NEW x \in Tables' PROVE x \in Tables \union {t}
      BY <3>1, <1>4 DEF Tables
    <3>2. t \in Tables'
      BY <1>1, <1>4, <1>5 DEF Tables
    <3>3. ASSUME NEW x \in Tables PROVE x \in Tables'
      BY <3>3, <1>4 DEF Tables
    <3> QED BY <3>1, <3>2, <3>3
  <2>2. Mapped' = Mapped \union {f}
    <3>1. known[D][v] = Unset
      BY DEF IndInv, HasTable
    <3>2. ASSUME NEW x \in Mapped' PROVE x \in Mapped \union {f}
      BY <3>2, <1>3 DEF Mapped
    <3>3. f \in Mapped'
      BY <1>3 DEF Mapped
    <3>4. ASSUME NEW x \in Mapped PROVE x \in Mapped'
      BY <3>4, <3>1, <1>3, VmmConstants DEF Mapped
    <3> QED BY <3>2, <3>3, <3>4
  <2>3. /\ held' = Tables' \union Mapped' \union lost'
        /\ Tables' \intersect Mapped' = {}
        /\ lost' \intersect (Tables' \union Mapped') = {}
    BY <2>1, <2>2, <1>5, <1>6 DEF IndInv, FramePartition
  <2>4. \A d, e \in Dirs : \A w, x \in Virt :
          known'[d][w] = known'[e][x] /\ known'[d][w] \in Frames => d = e /\ w = x
    <3>1. \A e \in Dirs, w \in Virt : known[e][w] # f
      BY <1>5 DEF Mapped
    <3> QED BY <1>3, <3>1 DEF IndInv, FramePartition
  <2>5. \A d, e \in Dirs : \A i, j \in PdIdx :
          pd'[d][i] = pd'[e][j] /\ pd'[d][i] # None => d = e /\ i = j
    <3>1. \A e \in Dirs, i \in PdIdx : pd[e][i] # t
      BY <1>5, <1>6 DEF Tables
    <3> QED BY <1>4, <3>1 DEF IndInv, FramePartition
  <2> QED BY <2>3, <2>4, <2>5 DEF FramePartition
<1>12. \A w \in Virt : Walk(D, w) # None => Walk(D, w)' = Walk(D, w)
  BY <1>8 DEF Walk
<1> QED BY <1>2, <1>7, <1>10, <1>11, <1>12

(* What map_page of a newly granted frame does to everything but the TLB: a  *)
(* page other than v that the tables translate, they translate as before.    *)
LEMMA MapPage ==
  ASSUME IndInv, page_directory \in Dirs, UNCHANGED page_directory,
         NEW v \in Virt, NEW f \in Frames \ held, map_page(v, f, held \union {f})
  PROVE  /\ pd' \in [Dirs -> [PdIdx -> Entry]]
         /\ pt' \in [Frames -> [PtIdx -> Entry]]
         /\ known' \in [Dirs -> [Virt -> Entry \union {Unset}]]
         /\ held' \in SUBSET Frames /\ lost' \in SUBSET Frames
         /\ HasTable' /\ WalkIsLastMap' /\ FramePartition'
         /\ \A w \in Virt \ {v} : Walk(page_directory, w) # None
                                    => Walk(page_directory, w)' = Walk(page_directory, w)
<1> DEFINE table == pd[page_directory][v[1]]
<1> USE VmmConstants
<1>1. CASE /\ table # None
           /\ pt' = [pt EXCEPT ![table][v[2]] = f]
           /\ known' = [known EXCEPT ![page_directory][v] = f]
           /\ lost' = lost \union Replaced(page_directory, v)
           /\ held' = held \union {f}
           /\ UNCHANGED <<pd, halted>>
  <2>1. pd' = pd /\ pd \in [Dirs -> [PdIdx -> Entry]]
    BY <1>1 DEF IndInv, Types
  <2> QED BY <1>1, <2>1, MapInTable
<1>2. CASE /\ table = None
           /\ \E t \in Frames \ (held \union {f}), contents \in [PtIdx -> Entry] :
                /\ pd' = [pd EXCEPT ![page_directory][v[1]] = t]
                /\ pt' = [pt EXCEPT ![t] = [contents EXCEPT ![v[2]] = f]]
                /\ held' = (held \union {f}) \union {t}
           /\ known' = [known EXCEPT ![page_directory][v] = f]
           /\ UNCHANGED <<halted, lost>>
  <2>1. PICK t \in Frames \ (held \union {f}), contents \in [PtIdx -> Entry] :
                /\ pd' = [pd EXCEPT ![page_directory][v[1]] = t]
                /\ pt' = [pt EXCEPT ![t] = [contents EXCEPT ![v[2]] = f]]
                /\ held' = (held \union {f}) \union {t}
    BY <1>2
  <2> QED BY <1>2, <2>1, MapWithNewTable
<1>3. CASE /\ table = None /\ held \union {f} = Frames
           /\ halted' = TRUE
           /\ held' = held \union {f}
           /\ lost' = lost \union {f}
           /\ UNCHANGED <<pd, pt, known>>
  <2>1. Tables' = Tables /\ Mapped' = Mapped
    BY <1>3 DEF Tables, Mapped
  <2>2. f \notin Tables /\ f \notin Mapped
    BY DEF IndInv, FramePartition
  <2>3. FramePartition'
    BY <1>3, <2>1, <2>2 DEF IndInv, FramePartition
  <2>4. \A d, w : Walk(d, w)' = Walk(d, w)
    BY <1>3 DEF Walk
  <2>5. HasTable' /\ WalkIsLastMap'
    BY <1>3, <2>4 DEF IndInv, HasTable, WalkIsLastMap
  <2> QED BY <1>3, <2>3, <2>4, <2>5 DEF IndInv, Types
<1> QED BY <1>1, <1>2, <1>3 DEF map_page

LEMMA InitIndInv == Init => IndInv
<1> SUFFICES ASSUME Init PROVE IndInv
  OBVIOUS
<1>1. Types
  BY DEF Init, Types, Entry
<1>2. Tables = {} /\ Mapped = {}
  BY VmmConstants DEF Init, Tables, Mapped
<1>3. FramePartition
  BY <1>2, VmmConstants DEF Init, FramePartition
<1>4. HasTable /\ WalkIsLastMap /\ TlbCoherent
  BY DEF Init, HasTable, WalkIsLastMap, TlbCoherent
<1> QED BY <1>1, <1>3, <1>4 DEF IndInv

LEMMA NextIndInv == IndInv /\ [Next]_vars => IndInv'
<1> SUFFICES ASSUME IndInv, [Next]_vars PROVE IndInv'
  OBVIOUS
<1> USE VmmConstants
<1>1. ASSUME UNCHANGED <<held, pd, pt, known, lost>> PROVE HasTable' /\ WalkIsLastMap' /\ FramePartition'
  BY <1>1 DEF IndInv, HasTable, WalkIsLastMap, FramePartition, Walk, Tables, Mapped
<1>2. ASSUME NEW d \in Dirs, switch_directory(d) PROVE IndInv'
  <2>1. Types'
    BY <1>2 DEF IndInv, Types, switch_directory, Entry
  <2>2. TlbCoherent'
    BY <1>2 DEF TlbCoherent, switch_directory
  <2> QED BY <1>1, <1>2, <2>1, <2>2 DEF IndInv, switch_directory
<1>3. ASSUME NEW v \in Virt, rust_handle_page_fault(v) PROVE IndInv'
  <2>1. page_directory \in Dirs /\ UNCHANGED <<page_directory, tlb, dirty>> /\ tlb[v] = None
    BY <1>3 DEF rust_handle_page_fault, Running, IndInv, Types
  <2>2. CASE held = Frames /\ UNCHANGED <<held, pd, pt, halted, known, lost>>
    <3>1. Types' /\ TlbCoherent'
      BY <2>1, <2>2 DEF IndInv, Types, TlbCoherent, Walk
    <3> QED BY <1>1, <2>2, <3>1 DEF IndInv
  <2>3. ASSUME NEW f \in Frames \ held, map_page(v, f, held \union {f}) PROVE IndInv'
    <3>1. Types' /\ HasTable' /\ WalkIsLastMap' /\ FramePartition'
      BY <2>1, <2>3, MapPage DEF IndInv, Types
    <3>2. TlbCoherent'
      <4> SUFFICES ASSUME NEW w \in Virt, tlb[w] # None, w \notin dirty
                   PROVE  tlb[w] = Walk(page_directory, w)'
        BY <2>1 DEF TlbCoherent, Walk
      <4>1. tlb[w] = Walk(page_directory, w) /\ w # v
        BY <2>1 DEF IndInv, TlbCoherent
      <4> QED BY <4>1, <2>1, <2>3, MapPage
    <3> QED BY <3>1, <3>2 DEF IndInv
  <2> QED BY <1>3, <2>2, <2>3 DEF rust_handle_page_fault
<1>4. ASSUME NEW v \in Virt, alloc_page_at(v) PROVE IndInv'
  <2>1. page_directory \in Dirs /\ UNCHANGED <<page_directory, tlb>>
    BY <1>4 DEF alloc_page_at, Running, IndInv, Types
  <2>2. CASE held = Frames /\ UNCHANGED <<held, pd, pt, halted, known, dirty, lost>>
    <3>1. Types' /\ TlbCoherent'
      BY <2>1, <2>2 DEF IndInv, Types, TlbCoherent, Walk
    <3> QED BY <1>1, <2>2, <3>1 DEF IndInv
  <2>3. ASSUME NEW f \in Frames \ held, map_page(v, f, held \union {f}), dirty' = dirty \union {v}
        PROVE  IndInv'
    <3>1. Types' /\ HasTable' /\ WalkIsLastMap' /\ FramePartition'
      BY <2>1, <2>3, MapPage DEF IndInv, Types
    <3>2. TlbCoherent'
      <4> SUFFICES ASSUME NEW w \in Virt, tlb[w] # None, w \notin dirty'
                   PROVE  tlb[w] = Walk(page_directory, w)'
        BY <2>1 DEF TlbCoherent, Walk
      <4>1. tlb[w] = Walk(page_directory, w) /\ w # v
        BY <2>3 DEF IndInv, TlbCoherent
      <4> QED BY <4>1, <2>1, <2>3, MapPage
    <3> QED BY <3>1, <3>2 DEF IndInv
  <2> QED BY <1>4, <2>2, <2>3 DEF alloc_page_at
<1>5. ASSUME NEW v \in Virt, unmap_page(v) PROVE IndInv'
  <2> DEFINE D == page_directory
             t == pd[D][v[1]]
  <2>1. D \in Dirs /\ UNCHANGED <<held, page_directory, pd, tlb>>
    BY <1>5 DEF unmap_page, Running, IndInv, Types
  <2>2. CASE t = None
    <3>1. UNCHANGED <<held, pd, pt, known, lost, dirty, tlb, page_directory>>
      BY <1>5, <2>2 DEF unmap_page
    <3>2. Types' /\ TlbCoherent'
      BY <3>1 DEF IndInv, Types, TlbCoherent, Walk
    <3> QED BY <1>1, <3>1, <3>2 DEF IndInv
  <2>3. CASE t # None
    <3>1. /\ pt' = [pt EXCEPT ![t][v[2]] = None]
          /\ known' = [known EXCEPT ![D][v] = None]
          /\ lost' = lost \union Replaced(D, v)
          /\ dirty' = dirty \union {v}
      BY <1>5, <2>3 DEF unmap_page
    <3>2. t \in Frames /\ v[1] \in PdIdx /\ v[2] \in PtIdx /\ v = <<v[1], v[2]>>
      BY <2>1, <2>3 DEF IndInv, Types, Virt, Entry
    <3>3. \A e \in Dirs, w \in Virt : known'[e][w] = IF e = D /\ w = v THEN None ELSE known[e][w]
      BY <2>1, <3>1 DEF IndInv, Types
    <3>4. Types'
      BY <2>1, <3>1, <3>2 DEF IndInv, Types, Replaced, Entry
    <3>5. HasTable'
      BY <2>1, <2>3, <3>3 DEF IndInv, HasTable
    <3>6. \A e \in Dirs, w \in Virt : ~(e = D /\ w = v) => Walk(e, w)' = Walk(e, w)
      <4> SUFFICES ASSUME NEW e \in Dirs, NEW w \in Virt, ~(e = D /\ w = v)
                   PROVE  Walk(e, w)' = Walk(e, w)
        OBVIOUS
      <4>1. w[1] \in PdIdx /\ w[2] \in PtIdx /\ w = <<w[1], w[2]>>
        BY DEF Virt
      <4>2. CASE pd[e][w[1]] = None
        BY <2>1, <4>2 DEF Walk
      <4>3. CASE pd[e][w[1]] # None
        <5>1. pd[e][w[1]] = t => e = D /\ w[1] = v[1]
          BY <2>1, <2>3, <3>2, <4>1 DEF IndInv, FramePartition
        <5>2. pd[e][w[1]] \in Frames
          BY <4>1, <4>3 DEF IndInv, Types, Entry
        <5>3. ~(pd[e][w[1]] = t /\ w[2] = v[2])
          BY <5>1, <4>1, <3>2
        <5>4. pt'[pd[e][w[1]]][w[2]] = pt[pd[e][w[1]]][w[2]]
          BY <3>1, <3>2, <4>1, <5>2, <5>3 DEF IndInv, Types
        <5> QED BY <2>1, <5>4 DEF Walk
      <4> QED BY <4>2, <4>3
    <3>7. Walk(D, v)' = None
      BY <2>1, <3>1, <3>2 DEF Walk, IndInv, Types
    <3>8. WalkIsLastMap'
      BY <2>1, <3>3, <3>6, <3>7 DEF WalkIsLastMap, IndInv
    <3>9. TlbCoherent'
      BY <2>1, <3>1, <3>6 DEF TlbCoherent, IndInv
    <3>10. FramePartition'
      <4>1. Tables' = Tables
        BY <2>1 DEF Tables
      <4>2. Mapped' = Mapped \ Replaced(D, v)
        <5>1. ASSUME NEW x \in Mapped' PROVE x \in Mapped \ Replaced(D, v)
          <6>1. PICK e \in Dirs, w \in Virt : x = known'[e][w] /\ x \in Frames
            BY <5>1 DEF Mapped
          <6>2. ~(e = D /\ w = v) /\ x = known[e][w]
            BY <6>1, <3>3
          <6>3. x # known[D][v]
            BY <6>1, <6>2, <2>1 DEF IndInv, FramePartition
          <6> QED BY <6>1, <6>2, <6>3 DEF Mapped, Replaced
        <5>2. ASSUME NEW x \in Mapped \ Replaced(D, v) PROVE x \in Mapped'
          <6>1. PICK e \in Dirs, w \in Virt : x = known[e][w] /\ x \in Frames
            BY <5>2 DEF Mapped
          <6>2. ~(e = D /\ w = v)
            BY <6>1 DEF Replaced
          <6> QED BY <6>1, <6>2, <3>3 DEF Mapped
        <5> QED BY <5>1, <5>2
      <4>3. Replaced(D, v) \subseteq Mapped
        BY <2>1 DEF Replaced, Mapped
      <4>4. /\ held' = Tables' \union Mapped' \union lost'
            /\ Tables' \intersect Mapped' = {}
            /\ lost' \intersect (Tables' \union Mapped') = {}
        BY <2>1, <3>1, <4>1, <4>2, <4>3 DEF IndInv, FramePartition
      <4>5. \A d, e \in Dirs : \A w, x \in Virt :
              known'[d][w] = known'[e][x] /\ known'[d][w] \in Frames => d = e /\ w = x
        BY <3>3 DEF IndInv, FramePartition
      <4>6. \A d, e \in Dirs : \A i, j \in PdIdx :
              pd'[d][i] = pd'[e][j] /\ pd'[d][i] # None => d = e /\ i = j
        BY <2>1 DEF IndInv, FramePartition
      <4> QED BY <4>4, <4>5, <4>6 DEF FramePartition
    <3> QED BY <3>4, <3>5, <3>8, <3>9, <3>10 DEF IndInv
  <2> QED BY <2>2, <2>3
<1>6. ASSUME NEW v \in Virt, tlb_flush(v) PROVE IndInv'
  <2>1. Types'
    BY <1>6 DEF IndInv, Types, tlb_flush, Entry
  <2>2. TlbCoherent'
    BY <1>6 DEF IndInv, Types, TlbCoherent, Walk, tlb_flush
  <2> QED BY <1>1, <1>6, <2>1, <2>2 DEF IndInv, tlb_flush
<1>7. ASSUME NEW v \in Virt, TlbFill(v) PROVE IndInv'
  <2>1. page_directory \in Dirs /\ v[1] \in PdIdx /\ v[2] \in PtIdx
    BY <1>7 DEF TlbFill, Running, IndInv, Types, Virt
  <2>2. Walk(page_directory, v) \in Entry
    BY <2>1 DEF Walk, IndInv, Types, Entry
  <2>3. Types'
    BY <1>7, <2>2 DEF IndInv, Types, TlbFill
  <2>4. TlbCoherent'
    BY <1>7 DEF IndInv, Types, TlbCoherent, Walk, TlbFill
  <2> QED BY <1>1, <1>7, <2>3, <2>4 DEF IndInv, TlbFill
<1>8. CASE UNCHANGED vars
  <2>1. Types' /\ TlbCoherent'
    BY <1>8 DEF IndInv, Types, TlbCoherent, Walk, vars
  <2> QED BY <1>1, <1>8, <2>1 DEF IndInv, vars
<1> QED BY <1>2, <1>3, <1>4, <1>5, <1>6, <1>7, <1>8 DEF Next

LEMMA Invariance == Spec => []IndInv
BY InitIndInv, NextIndInv, PTL DEF Spec
-----------------------------------------------------------------------------
(* The tables translate every page as map_page or unmap_page last left it,   *)
(* whatever an uncleared table contains.                                     *)
THEOREM VmmWalkIsLastMap == Spec => []WalkIsLastMap
<1>1. IndInv => WalkIsLastMap
  BY DEF IndInv
<1> QED BY Invariance, <1>1, PTL

(* Every frame that alloc_page granted to the page-fault bridge, the loader  *)
(* or map_page itself has exactly one use, or is lost.                       *)
THEOREM VmmFramePartition == Spec => []FramePartition
<1>1. IndInv => FramePartition
  BY DEF IndInv
<1> QED BY Invariance, <1>1, PTL

(* Demand paging needs no flush: the TLB is stale only on pages that         *)
(* unmap_page or the loader rewrote since their last flush.                  *)
THEOREM VmmTlbCoherent == Spec => []TlbCoherent
<1>1. IndInv => TlbCoherent
  BY DEF IndInv
<1> QED BY Invariance, <1>1, PTL
=============================================================================
