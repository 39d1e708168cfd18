--------------------------- MODULE PageAllocator ---------------------------
(***************************************************************************)
(* The page memory manager of the C runtime                                *)
(* (src/runtime/crt/memory/page_allocator.c), from which a device without  *)
(* an operating system gets its memory.  Blocks are whole pages.  A block  *)
(* is carved from the end of the used part of the pool and keeps its size  *)
(* for good: Free puts it on free_map and Allocate takes the first block   *)
(* there that is large enough, all of it.                                  *)
(*                                                                         *)
(* An address is the number of the page it points to; NULL is the address  *)
(* in metadata that was zeroed and never written.  The client is a set of  *)
(* handles, each of which holds at most one block, and frees only what it  *)
(* holds.  PageMemoryManager_Realloc is left out: nothing calls it, and    *)
(* the interface has no entry for it.                                      *)
(***************************************************************************)
EXTENDS Integers, FiniteSets

CONSTANTS PoolBytes,     \* memory_pool_size_bytes
          PageBytes,     \* 1 << page_size_bytes_log2
          ManagerBytes,  \* sizeof(MemoryManager)
          MetaBytes,     \* sizeof(Page) + sizeof(PageEntry) + sizeof(IndexedEntry)
          Requests,      \* the sizes in bytes that clients ask for
          Handle,        \* what holds the blocks: an array's data, its shape...
          NoBlock        \* a handle without a block

ASSUME LayoutAssumption ==
  /\ PageBytes \in Nat \ {0}
  /\ MetaBytes \in Nat
  /\ ManagerBytes \in Nat
  /\ PoolBytes \in Nat
  /\ PoolBytes >= ManagerBytes
ASSUME RequestsAssumption == Requests \subseteq Nat
ASSUME NoBlockAssumption == NoBlock \notin [data : Int, bytes : Nat]

VARIABLES
  num_pages,   \* ptable.num_pages: pages handed out so far
  pmap,        \* pmap.entries: what block starts at an address
  pmap_num,    \* pmap.num_pages: how many of them are valid
  free_map,    \* free_map.entries: the blocks that were freed
  free_num,    \* free_map.num_entries
  vleak_size,  \* interface.vleak_size
  held,        \* the block of each handle: its address and the size asked for
  status       \* "running", "aborted" (a CHECK failed) or "overrun"

manager == <<num_pages, pmap, pmap_num, free_map, free_num, vleak_size>>
vars == <<manager, held, status>>

\* The pages that PageMemoryManagerCreate fits into the pool, before the
\* manager and before one Page, PageEntry and IndexedEntry for each of them.
MaxPages == (PoolBytes - ManagerBytes) \div (PageBytes + MetaBytes)

NULL == -1
Entries == 1 .. MaxPages
Page == [ptable_begin : Nat, num_pages : Nat, data : Int]
ZeroPage == [ptable_begin |-> 0, num_pages |-> 0, data |-> NULL]

PageCreate(begin, npage) ==
  [ptable_begin |-> begin, num_pages |-> npage, data |-> begin]

\* Sizes are far below 2^32, so neither the sum in size_t nor the casts to
\* unsigned and uint32_t cut anything off.
NumPages(num_bytes) == (num_bytes + PageBytes - 1) \div PageBytes

\* PageMemoryManagerCreate zeroes the pool and lays the metadata out.
Init ==
  /\ num_pages = 0
  /\ pmap = [i \in Entries |-> [addr |-> NULL, page |-> ZeroPage]]
  /\ pmap_num = 0
  /\ free_map = [i \in Entries |-> [index |-> 0, page |-> ZeroPage]]
  /\ free_num = 0
  /\ vleak_size = 0
  /\ held = [h \in Handle |-> NoBlock]
  /\ status = "running"

\* Mutant: a block one page too small will do.
LowerBoundSmall(k, npage) ==
  /\ k \in 1 .. free_num
  /\ free_map[k].index >= npage - 1
  /\ \A j \in 1 .. k - 1 : free_map[j].index < npage - 1
\* Mutant: the search goes on past num_entries.
LowerBoundStale(k, npage) ==
  /\ k \in Entries
  /\ free_map[k].index >= npage
  /\ \A j \in 1 .. k - 1 : free_map[j].index < npage

\* k is the entry that MultiMap_LowerBound returns; no entry is.
LowerBound(k, npage) ==
  /\ k \in 1 .. free_num
  /\ free_map[k].index >= npage
  /\ \A j \in 1 .. k - 1 : free_map[j].index < npage
NoLowerBound(npage) == \A k \in 1 .. free_num : free_map[k].index < npage

\* i is the entry that TLB_Find returns; no entry is.
Found(i, addr) ==
  /\ i \in 1 .. pmap_num
  /\ pmap[i].addr = addr
  /\ \A j \in 1 .. i - 1 : pmap[j].addr # addr
NotFound(addr) == \A i \in 1 .. pmap_num : pmap[i].addr # addr

\* Mutant: the last entry goes, whichever was taken.
MultiMap_EraseLast(k) == free_num' = free_num - 1 /\ UNCHANGED free_map
\* Mutant: num_entries is not lowered.
MultiMap_EraseUncounted(k) ==
  /\ free_map' = [i \in Entries |-> IF i \in k .. free_num - 1
                                    THEN free_map[i + 1] ELSE free_map[i]]
  /\ UNCHANGED free_num

\* The later entries move down by one; the last one stays behind, unused.
MultiMap_Erase(k) ==
  /\ free_map' = [i \in Entries |-> IF i \in k .. free_num - 1
                                    THEN free_map[i + 1] ELSE free_map[i]]
  /\ free_num' = free_num - 1

\* Mutant: the block overwrites the one freed before it.
MultiMap_InsertOver(page) ==
  /\ free_map' = [free_map EXCEPT ![IF free_num = 0 THEN 1 ELSE free_num] =
                    [index |-> page.num_pages, page |-> page]]
  /\ free_num' = free_num + 1

\* Written once for each page of the block: not at all for a block of none.
MultiMap_Insert(page) ==
  /\ free_map' = IF page.num_pages = 0 THEN free_map
                 ELSE [free_map EXCEPT ![free_num + 1] =
                         [index |-> page.num_pages, page |-> page]]
  /\ free_num' = free_num + 1

TLB_Set(addr, page) ==
  \/ /\ NotFound(addr)
     /\ pmap_num < MaxPages
     /\ pmap' = [pmap EXCEPT ![pmap_num + 1] = [addr |-> addr, page |-> page]]
     /\ pmap_num' = pmap_num + 1
     /\ UNCHANGED status
  \/ \* The entry past the last one is the first of free_map.
     /\ NotFound(addr)
     /\ pmap_num >= MaxPages
     /\ status' = "overrun"
     /\ UNCHANGED <<pmap, pmap_num>>
  \/ /\ \E i \in 1 .. pmap_num :
          /\ Found(i, addr)
          /\ pmap' = [pmap EXCEPT ![i] = [addr |-> addr, page |-> page]]
     /\ UNCHANGED <<pmap_num, status>>

Hold(h, addr, num_bytes) ==
  /\ held' = [held EXCEPT ![h] = [data |-> addr, bytes |-> num_bytes]]
  /\ vleak_size' = vleak_size + 1

MayAllocate(h) == status = "running" /\ held[h] = NoBlock

(***************************************************************************)
(* PageMemoryManager_Allocate: from free_map, from the end of the pool, or *)
(* not at all (kTvmErrorPlatformNoMemory).                                 *)
(***************************************************************************)
AllocateFreed(h, num_bytes) ==
  /\ MayAllocate(h)
  /\ \E k \in Entries :
       /\ LowerBound(k, NumPages(num_bytes))
       /\ MultiMap_Erase(k)
       /\ Hold(h, free_map[k].page.data, num_bytes)
  /\ UNCHANGED <<num_pages, pmap, pmap_num, status>>

AllocateNew(h, num_bytes) ==
  LET npage == NumPages(num_bytes) IN
  /\ MayAllocate(h)
  /\ NoLowerBound(npage)
  /\ num_pages + npage <= MaxPages
  /\ num_pages' = num_pages + npage
  /\ TLB_Set(num_pages, PageCreate(num_pages, npage))
  /\ Hold(h, num_pages, num_bytes)
  /\ UNCHANGED <<free_map, free_num>>

AllocateFails(h, num_bytes) ==
  /\ MayAllocate(h)
  /\ NoLowerBound(NumPages(num_bytes))
  /\ num_pages + NumPages(num_bytes) > MaxPages
  /\ UNCHANGED vars

(***************************************************************************)
(* PageMemoryManager_Free.  It aborts on an address that no block starts   *)
(* at, and on a full free_map.                                             *)
(***************************************************************************)
Free(h) ==
  /\ status = "running" /\ held[h] # NoBlock
  /\ \/ /\ \E i \in 1 .. pmap_num :
             /\ Found(i, held[h].data)
             /\ free_num + 1 <= MaxPages
             /\ MultiMap_Insert(pmap[i].page)
        /\ vleak_size' = vleak_size - 1
        /\ held' = [held EXCEPT ![h] = NoBlock]
        /\ UNCHANGED status
     \/ /\ NotFound(held[h].data) \/ free_num + 1 > MaxPages
        /\ status' = "aborted"
        /\ UNCHANGED <<free_map, free_num, vleak_size, held>>
  /\ UNCHANGED <<num_pages, pmap, pmap_num>>

Allocate(h, num_bytes) ==
  \/ AllocateFreed(h, num_bytes)
  \/ AllocateNew(h, num_bytes)
  \/ AllocateFails(h, num_bytes)

Next ==
  \E h \in Handle :
    \/ \E num_bytes \in Requests : Allocate(h, num_bytes)
    \/ Free(h)

Spec == Init /\ [][Next]_vars

(***************************************************************************)
(* Properties.                                                             *)
(***************************************************************************)
Live == {h \in Handle : held[h] # NoBlock}

\* Every variable has its type: tables of the size the layout left for them.
TypeOK ==
  /\ num_pages \in Nat
  /\ pmap \in [Entries -> [addr : Int, page : Page]]
  /\ pmap_num \in 0 .. MaxPages
  /\ free_map \in [Entries -> [index : Nat, page : Page]]
  /\ free_num \in 0 .. MaxPages
  /\ vleak_size \in Int
  /\ held \in [Handle -> [data : Int, bytes : Nat] \cup {NoBlock}]
  /\ status \in {"running", "aborted", "overrun"}

\* What out_ptr points to is newly allocated: the pages that two handles asked
\* for never overlap, in any order of calls of PageMemoryManager_Allocate and
\* PageMemoryManager_Free, as long as nobody asks for zero bytes.
BlocksDisjoint ==
  \A g, h \in Live :
    g # h => \/ held[g].data + NumPages(held[g].bytes) <= held[h].data
             \/ held[h].data + NumPages(held[h].bytes) <= held[g].data

\* The pages that a handle asked for lie in the part of the pool that holds no
\* metadata, also when the block was carved for another request.
BlocksInPool ==
  \A h \in Live : /\ 0 <= held[h].data
                  /\ held[h].data + NumPages(held[h].bytes) <= MaxPages

\* Freeing a block that Allocate returned never fails a CHECK of
\* PageMemoryManager_Free or MultiMap_Insert, and TLB_Set never writes past
\* pmap: the tables have room for every history of calls.
ChecksHold == status = "running"

\* vleak_size counts the blocks in use, as page_allocator_test.cc expects, and
\* no block is lost: each one ever carved is in use or on free_map.
NoBlockLost ==
  /\ vleak_size = Cardinality(Live)
  /\ free_num + vleak_size = pmap_num
  /\ \A i \in 1 .. pmap_num :
       \/ \E h \in Live : held[h].data = pmap[i].addr
       \/ \E k \in 1 .. free_num : free_map[k].page = pmap[i].page

(***************************************************************************)
(* The inductive invariant behind these properties, for clients that never *)
(* ask for zero bytes.                                                     *)
(***************************************************************************)
PositiveRequests == 0 \notin Requests

\* The blocks in pmap lie one after the other in the pages handed out.
Tiling ==
  /\ num_pages <= MaxPages
  /\ pmap_num <= num_pages
  /\ \A i \in 1 .. pmap_num :
       /\ pmap[i].page.data = pmap[i].addr
       /\ pmap[i].page.num_pages >= 1
       /\ pmap[i].addr >= 0
       /\ pmap[i].addr + pmap[i].page.num_pages <= num_pages
  /\ \A i, j \in 1 .. pmap_num :
       i < j => pmap[i].addr + pmap[i].page.num_pages <= pmap[j].addr

\* free_map lists blocks of pmap, none of them twice.
FreeBlocks ==
  /\ \A k \in 1 .. free_num :
       /\ free_map[k].index = free_map[k].page.num_pages
       /\ \E i \in 1 .. pmap_num : free_map[k].page = pmap[i].page
  /\ \A k, l \in 1 .. free_num :
       k # l => free_map[k].page.data # free_map[l].page.data

\* A handle holds a block of pmap that is large enough, and nothing else does.
HeldBlocks ==
  /\ \A h \in Live : \E i \in 1 .. pmap_num :
       /\ held[h].data = pmap[i].addr
       /\ NumPages(held[h].bytes) <= pmap[i].page.num_pages
  /\ \A g, h \in Live : g # h => held[g].data # held[h].data
  /\ \A h \in Live : \A k \in 1 .. free_num : held[h].data # free_map[k].page.data

Inv ==
  /\ TypeOK /\ ChecksHold
  /\ Tiling /\ FreeBlocks /\ HeldBlocks
  /\ IsFiniteSet(Live) /\ NoBlockLost
============================================================================
