----------------------------- MODULE MemRegion ------------------------------
(***************************************************************************)
(* kvm_set_user_memory_region (src/main.cpp 811-836) over the EPT table:   *)
(* wire the user range (md->prepare), then for each page at offset off     *)
(* ask the pinning service for its physical address and ept_add_page it    *)
(* at guest_phys_addr + off.  A region is abstracted to its first guest    *)
(* page, its length in pages and the in-page offset of userspace_addr;     *)
(* the pinning service answers with any frame, or 0 for a page it cannot   *)
(* resolve.  The ioctl runs under ioctl_lock, so calls do not overlap.     *)
(***************************************************************************)
EXTENDS EptTable

CONSTANTS MaxPages,     \* memory_size / PAGE_SIZE of a region
          MaxRegions    \* bound on KVM_SET_USER_MEMORY_REGION calls

VARIABLES rpc,      \* "idle" or "loop" (inside the for loop)
          mr,       \* the region of the current or last call
          off,      \* loop offset, in pages
          got,      \* ghost: frame installed for each offset of this call
          result,   \* return value of the last call: 0 or EINVAL
          regions   \* calls so far

ASSUME MaxAdds >= MaxRegions * MaxPages

regionVars == <<rpc, mr, off, got, result, regions>>
allVars == <<vars, regionVars>>

EINVAL == 22                \* errno EINVAL
Region == [gpn : Gpn, npages : 1..MaxPages, uoff : Offsets]
NoRegion == [gpn |-> 0, npages |-> 0, uoff |-> 0]

RegionInit ==
  /\ Init
  /\ rpc = "idle"
  /\ mr = NoRegion
  /\ off = 0
  /\ got = [k \in 0..MaxPages - 1 |-> 0]
  /\ result = 0
  /\ regions = 0

(* Entry and md->prepare: a failure to wire the range returns EINVAL      *)
(* before any page is mapped.  No check of the alignment happens here.    *)
SetRegionStart(r) ==
  /\ rpc = "idle" /\ status = "live"
  /\ regions < MaxRegions
  /\ r.gpn + r.npages - 1 \in Gpn
  /\ regions' = regions + 1
  /\ mr' = r
  /\ off' = 0
  /\ got' = [k \in 0..MaxPages - 1 |-> 0]
  /\ \/ rpc' = "loop" /\ UNCHANGED result
     \/ rpc' = "idle" /\ result' = EINVAL
  /\ UNCHANGED vars

(* Fault-injection variants of SetRegionPage: every page mapped at         *)
(* guest_phys_addr (the + off dropped), and the loop run while             *)
(* off <= memory_size (one page too many).                                 *)
SetRegionPageNoOffset ==
  /\ rpc = "loop"
  /\ off < mr.npages
  /\ \E f \in Frames \cup {0} :
       IF f = 0
       THEN /\ rpc' = "idle" /\ result' = EINVAL
            /\ UNCHANGED <<vars, mr, off, got, regions>>
       ELSE /\ ept_add_page(mr.gpn, f * PageSize + mr.uoff)
            /\ got' = [got EXCEPT ![off] = f]
            /\ off' = off + 1
            /\ UNCHANGED <<rpc, mr, result, regions>>
SetRegionPageOverrun ==
  /\ rpc = "loop"
  /\ off <= mr.npages
  /\ \E f \in Frames \cup {0} :
       IF f = 0
       THEN /\ rpc' = "idle" /\ result' = EINVAL
            /\ UNCHANGED <<vars, mr, off, got, regions>>
       ELSE /\ ept_add_page(mr.gpn + off, f * PageSize + mr.uoff)
            /\ got' = [got EXCEPT ![off] = f]
            /\ off' = off + 1
            /\ UNCHANGED <<rpc, mr, result, regions>>

(* One iteration: pa = md->getPhysicalSegment(off); pa != 0 maps the page *)
(* at guest_phys_addr + off, pa == 0 returns EINVAL leaving the pages of  *)
(* the earlier iterations mapped.                                          *)
SetRegionPage ==
  /\ rpc = "loop"
  /\ off < mr.npages
  /\ \E f \in Frames \cup {0} :
       IF f = 0
       THEN /\ rpc' = "idle" /\ result' = EINVAL
            /\ UNCHANGED <<vars, mr, off, got, regions>>
       ELSE /\ ept_add_page(mr.gpn + off, f * PageSize + mr.uoff)
            /\ got' = [got EXCEPT ![off] = f]
            /\ off' = off + 1
            /\ UNCHANGED <<rpc, mr, result, regions>>

(* The loop has covered memory_size: return 0.                             *)
SetRegionDone ==
  /\ rpc = "loop"
  /\ off = mr.npages
  /\ rpc' = "idle" /\ result' = 0
  /\ UNCHANGED <<vars, mr, off, got, regions>>

(* KVM close frees the table; it cannot overlap an ioctl on the handle.    *)
Close ==
  /\ rpc = "idle"
  /\ ept_free
  /\ UNCHANGED regionVars

RegionNext ==
  \/ \E r \in Region : SetRegionStart(r)
  \/ SetRegionPage
  \/ SetRegionDone
  \/ Close

RegionSpec == RegionInit /\ [][RegionNext]_allVars

-----------------------------------------------------------------------------
RegionTypeOK ==
  /\ TypeOK
  /\ rpc \in {"idle", "loop"}
  /\ mr \in Region \cup {NoRegion}
  /\ off \in 0..MaxPages
  /\ got \in [0..MaxPages - 1 -> Frames \cup {0}]
  /\ result \in {0, EINVAL}
  /\ regions \in 0..MaxRegions

(* A call that returns 0 has mapped every page of the region: the page at *)
(* guest_phys_addr + k translates to the frame the pinning service gave    *)
(* for userspace_addr + k, including across page-table boundaries.         *)
RegionInstalled ==
  (rpc = "idle" /\ result = 0 /\ mr # NoRegion /\ status = "live") =>
    \A k \in 0..mr.npages - 1 :
      ept_translate(Memory, root, mr.gpn + k) = got[k]
=============================================================================
