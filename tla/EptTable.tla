------------------------------ MODULE EptTable ------------------------------
(***************************************************************************)
(* The EPT page-table manager of src/main.cpp (ept_init, ept_add_page,     *)
(* ept_translate, ept_free, lines 117-201).                                *)
(*                                                                         *)
(* Each directory node (PML4, PDPT, PD) is a two-page heap block: the     *)
(* first page holds the hardware entries __pa(child) | EPT_DEFAULTS, the   *)
(* second page (index PAGE_OFFSET + i) the host-virtual child pointer the  *)
(* software walks use.  A PT is a single page of leaf entries              *)
(* pa | EPT_DEFAULTS | EPT_CACHE_WRITEBACK.  The index width is the        *)
(* constant IdxBits (9 in the code); heap blocks are the numbers           *)
(* 1..HeapBlocks and NULL is 0.  An entry is kept as the pair of its       *)
(* frame part (entry >> 12) and its low twelve bits.                       *)
(***************************************************************************)
EXTENDS Naturals, FiniteSets, Bitwise

CONSTANTS IdxBits,      \* width of one level index (0x1FF: 9 bits)
          HiBits,       \* guest page-number bits above the four indices
          Frames,       \* host frames of the pages handed to ept_add_page
          Offsets,      \* byte offsets within the page of those addresses
          HeapBlocks,   \* blocks IOMallocAligned can hand out
          MaxAdds       \* bound on ept_add_page calls

ASSUME IdxBits \in 1..9 /\ HiBits \in 0..2 /\ HeapBlocks \in Nat \ {0}

VARIABLES status,   \* "live", "panic" (NULL dereferenced), "freed"
          root,     \* vcpu->pml4
          hw,       \* first page of every block: hardware entries
          sw,       \* second page of every block: host-virtual pointers
          alloc,    \* pages of each allocated block (0: not allocated)
          freed,    \* pages handed to IOFree for each block by ept_free
          adds      \* ept_add_page calls so far

vars == <<status, root, hw, sw, alloc, freed, adds>>

NULL == 0
PageSize == 4096
Blocks == 1..HeapBlocks
Idx == 0 .. 2^IdxBits - 1
Gpn == 0 .. 2^(4 * IdxBits + HiBits) - 1       \* guest_phys_addr >> 12
EPT_DEFAULTS == 7                               \* read | write | execute
EPT_CACHE_WRITEBACK == 6 * 8                    \* memory type 6 << 3
Entry == [addr : Blocks \cup Frames \cup {0}, bits : 0 .. PageSize - 1]
ZeroEntry == [addr |-> 0, bits |-> 0]

(* (gpa >> (12 + 9k)) & 0x1FF: k = 3 for the PML4 index down to 0 for    *)
(* the PT index.                                                           *)
Index(g, k) == (g \div 2^(k * IdxBits)) % 2^IdxBits

(* Contents a block has before IOCallocAligned zeroes it: stale pointers  *)
(* left by an earlier owner of the heap block.                             *)
Stale(n) == (n % HeapBlocks) + 1

(* ept_init: vcpu->pml4 = IOCallocAligned(PAGE_SIZE*2, PAGE_SIZE).        *)
Init ==
  /\ status = "live"
  /\ root = 1
  /\ alloc = [n \in Blocks |-> IF n = 1 THEN 2 ELSE 0]
  /\ hw = [n \in Blocks |-> [i \in Idx |->
            IF n = 1 THEN ZeroEntry
            ELSE [addr |-> Stale(n), bits |-> EPT_DEFAULTS]]]
  /\ sw = [n \in Blocks |-> [i \in Idx |-> IF n = 1 THEN NULL ELSE Stale(n)]]
  /\ freed = [n \in Blocks |-> 0]
  /\ adds = 0

-----------------------------------------------------------------------------
(* The walks.  m is the memory: a record of hw, sw and alloc.              *)

(* ept_translate: follow the host-virtual pointers; a NULL level gives 0, *)
(* otherwise pt[pt_idx] & ~(PAGE_SIZE-1), kept here as the frame.          *)
ept_translate(m, r, g) ==
  LET pdpt == m.sw[r][Index(g, 3)]
      pd   == IF pdpt = NULL THEN NULL ELSE m.sw[pdpt][Index(g, 2)]
      pt   == IF pd = NULL THEN NULL ELSE m.sw[pd][Index(g, 1)]
  IN IF pt = NULL THEN 0 ELSE m.hw[pt][Index(g, 0)].addr

(* What the processor's EPT walk finds from the EPT pointer: an entry is   *)
(* present when one of its read/write/execute bits is set.                 *)
Present(e) == e.bits % 8 # 0
HwTranslate(m, r, g) ==
  LET e4 == m.hw[r][Index(g, 3)]
      e3 == IF Present(e4) THEN m.hw[e4.addr][Index(g, 2)] ELSE ZeroEntry
      e2 == IF Present(e3) THEN m.hw[e3.addr][Index(g, 1)] ELSE ZeroEntry
      e1 == IF Present(e2) THEN m.hw[e2.addr][Index(g, 0)] ELSE ZeroEntry
  IN IF Present(e1) THEN e1.addr ELSE 0

Memory == [hw |-> hw, sw |-> sw, alloc |-> alloc, cur |-> root]

(* Fault-injection variants of Descend: IOMallocAligned without the bzero *)
(* of IOCallocAligned; the hardware half of the parent left unwritten.     *)
DescendNoZero(m, i, pages) ==
  LET parent == m.cur
      free   == {n \in Blocks : m.alloc[n] = 0}
      c      == CHOOSE n \in free : \A k \in free : n <= k
  IN IF m.sw[parent][i] # NULL THEN [m EXCEPT !.cur = m.sw[parent][i]]
     ELSE IF free = {} THEN [m EXCEPT !.cur = NULL]
     ELSE [m EXCEPT !.alloc[c] = pages, !.sw[parent][i] = c,
                    !.hw[parent][i] = [addr |-> c, bits |-> EPT_DEFAULTS],
                    !.cur = c]
DescendNoHwEntry(m, i, pages) ==
  LET parent == m.cur
      free   == {n \in Blocks : m.alloc[n] = 0}
      c      == CHOOSE n \in free : \A k \in free : n <= k
  IN IF m.sw[parent][i] # NULL THEN [m EXCEPT !.cur = m.sw[parent][i]]
     ELSE IF free = {} THEN [m EXCEPT !.cur = NULL]
     ELSE [m EXCEPT !.alloc[c] = pages, !.hw[c] = [k \in Idx |-> ZeroEntry],
                    !.sw[c] = IF pages = 2 THEN [k \in Idx |-> NULL] ELSE @,
                    !.sw[parent][i] = c, !.cur = c]
(* One "allocate the child in the parent if NULL" block of ept_add_page:   *)
(* reuse the child, or take a zeroed block of the given pages and write    *)
(* both halves of the parent.  When IOCallocAligned returns NULL the       *)
(* parent gets __pa(NULL) | EPT_DEFAULTS and the next dereference faults;  *)
(* cur = NULL records that.                                                *)
Descend(m, i, pages) ==
  LET parent == m.cur
      child  == m.sw[parent][i]
      free   == {n \in Blocks : m.alloc[n] = 0}
      c      == CHOOSE n \in free : \A k \in free : n <= k
  IN IF child # NULL THEN [m EXCEPT !.cur = child]
     ELSE IF free = {}
     THEN [m EXCEPT !.hw[parent][i] = [addr |-> 0, bits |-> EPT_DEFAULTS],
                    !.cur = NULL]
     ELSE [m EXCEPT !.alloc[c] = pages,
                    !.hw[c] = [k \in Idx |-> ZeroEntry],
                    !.sw[c] = IF pages = 2 THEN [k \in Idx |-> NULL] ELSE @,
                    !.sw[parent][i] = c,
                    !.hw[parent][i] = [addr |-> c, bits |-> EPT_DEFAULTS],
                    !.cur = c]

(* ept_add_page(vcpu, gpa, pa): allocate the missing PDPT, PD and PT in    *)
(* that order, then pt[pt_idx] = pa | EPT_DEFAULTS | EPT_CACHE_WRITEBACK.  *)
(* A NULL from IOCallocAligned is dereferenced at once: a kernel panic.    *)
ept_add_page(g, pa) ==
  LET m1 == Descend(Memory, Index(g, 3), 2)
      m2 == IF m1.cur = NULL THEN m1 ELSE Descend(m1, Index(g, 2), 2)
      m3 == IF m2.cur = NULL THEN m2 ELSE Descend(m2, Index(g, 1), 1)
      leaf == [addr |-> pa \div PageSize,
               bits |-> (pa % PageSize) | (EPT_DEFAULTS + EPT_CACHE_WRITEBACK)]
  IN /\ status = "live"
     /\ adds < MaxAdds
     /\ adds' = adds + 1
     /\ alloc' = m3.alloc
     /\ sw' = m3.sw
     /\ IF m3.cur = NULL
        THEN hw' = m3.hw /\ status' = "panic"
        ELSE hw' = [m3.hw EXCEPT ![m3.cur][Index(g, 0)] = leaf]
             /\ status' = "live"
     /\ UNCHANGED <<root, freed>>

(* ept_free (at KVM close): for every non-NULL PDPT pointer of the PML4,   *)
(* every PD pointer of that PDPT and every PT pointer of that PD, IOFree   *)
(* the PT with PAGE_SIZE, the PD and the PDPT with PAGE_SIZE*2; then the   *)
(* PML4.  freed counts the pages handed to IOFree for each block.          *)
Children(n) == {sw[n][i] : i \in Idx} \ {NULL}
Pdpts == Children(root)
Pds == UNION {Children(p) : p \in Pdpts}
FreeCalls(n, parents, pages) ==
  pages * Cardinality({<<p, i>> \in parents \X Idx : sw[p][i] = n})

(* Fault-injection variant of ept_free: the PT freed with PAGE_SIZE*2,    *)
(* the size of the other levels.                                           *)
ept_free_pt_two_pages ==
  /\ status = "live"
  /\ freed' = [n \in Blocks |->
                 FreeCalls(n, Pds, 2) + FreeCalls(n, Pdpts, 2)
                 + FreeCalls(n, {root}, 2) + (IF n = root THEN 2 ELSE 0)]
  /\ status' = "freed"
  /\ UNCHANGED <<root, hw, sw, alloc, adds>>

ept_free ==
  /\ status = "live"
  /\ freed' = [n \in Blocks |->
                 FreeCalls(n, Pds, 1) + FreeCalls(n, Pdpts, 2)
                 + FreeCalls(n, {root}, 2) + (IF n = root THEN 2 ELSE 0)]
  /\ status' = "freed"
  /\ UNCHANGED <<root, hw, sw, alloc, adds>>

Next ==
  \/ \E g \in Gpn, f \in Frames, o \in Offsets : ept_add_page(g, f * PageSize + o)
  \/ ept_free

Spec == Init /\ [][Next]_vars

-----------------------------------------------------------------------------
TypeOK ==
  /\ status \in {"live", "panic", "freed"}
  /\ root \in Blocks
  /\ hw \in [Blocks -> [Idx -> Entry]]
  /\ sw \in [Blocks -> [Idx -> Blocks \cup {NULL}]]
  /\ alloc \in [Blocks -> 0..2]
  /\ freed \in [Blocks -> Nat]
  /\ adds \in 0..MaxAdds

(* The processor's walk through the hardware halves and ept_translate's    *)
(* walk through the host-virtual halves agree on every guest page: the     *)
(* two writes of each allocation block of ept_add_page keep the halves in  *)
(* step, and zeroing keeps stale heap contents out of both walks.          *)
HwWalkMatchesSwWalk ==
  status = "live" =>
    \A g \in Gpn : HwTranslate(Memory, root, g) = ept_translate(Memory, root, g)

(* ept_free hands every block the table ever allocated to IOFree exactly   *)
(* once and with the size it was allocated with (PT one page, the other    *)
(* levels two), and frees nothing else.                                    *)
FreeReleasesEachBlockOnce ==
  status = "freed" => \A n \in Blocks : freed[n] = alloc[n]

(* The page-table manager implements GuestMemory: ept_translate of every   *)
(* guest page is the frame of the last ept_add_page of that page.          *)
GM == INSTANCE GuestMemory WITH
        Pages <- Gpn, Absent <- 0,
        gmem <- [g \in Gpn |-> IF status = "freed" THEN 0
                               ELSE ept_translate(Memory, root, g)],
        alive <- status # "freed"
ImplementsGuestMemory == GM!Spec
=============================================================================
