------------------------ MODULE PageAllocatorProofs ------------------------
(***************************************************************************)
(* Proofs about PageAllocator, for every pool, page size and history of    *)
(* calls, as long as nobody asks for zero bytes.                           *)
(***************************************************************************)
EXTENDS PageAllocator, FiniteSetTheorems, TLAPS

\* A quotient of natural numbers is one, and is not zero if the dividend is
\* not smaller than the divisor.
LEMMA DivLemma ==
  ASSUME NEW a \in Nat, NEW d \in Nat \ {0}
  PROVE  /\ a \div d \in Nat
         /\ a >= d => a \div d >= 1
         /\ d * (a \div d) <= a
         /\ a < d * (a \div d) + d
BY SMT

LEMMA MaxPagesNat == MaxPages \in Nat
BY LayoutAssumption, DivLemma DEF MaxPages

LEMMA NumPagesNat ==
  ASSUME NEW b \in Nat
  PROVE  /\ NumPages(b) \in Nat
         /\ b # 0 => NumPages(b) >= 1
BY LayoutAssumption, DivLemma DEF NumPages

\* The pages, the manager and the metadata that PageMemoryManagerCreate lays
\* out fit into the pool, and a block has room for the bytes asked for.
THEOREM LayoutFits ==
  /\ MaxPages * PageBytes + ManagerBytes + MaxPages * MetaBytes <= PoolBytes
  /\ \A b \in Nat : b <= NumPages(b) * PageBytes
<1> DEFINE a == PoolBytes - ManagerBytes
           d == PageBytes + MetaBytes
<1>1. a \in Nat /\ d \in Nat \ {0}
  BY LayoutAssumption
<1>2. MaxPages \in Nat /\ d * MaxPages <= a
  <2> HIDE DEF a, d
  <2>1. a \div d \in Nat /\ d * (a \div d) <= a
    BY <1>1, DivLemma
  <2> QED
    BY <2>1 DEF MaxPages, a, d
<1>3. MaxPages * PageBytes + MaxPages * MetaBytes <= a
  BY <1>2, LayoutAssumption, SMT
<1>4. ASSUME NEW b \in Nat PROVE b <= NumPages(b) * PageBytes
  <2> DEFINE c == b + PageBytes - 1
  <2>1. c \in Nat
    BY LayoutAssumption
  <2>2. c \div PageBytes \in Nat /\ c < PageBytes * (c \div PageBytes) + PageBytes
    <3> HIDE DEF c
    <3> QED
      BY <2>1, LayoutAssumption, DivLemma
  <2>3. NumPages(b) = c \div PageBytes
    BY DEF NumPages
  <2> HIDE DEF c
  <2>4. NumPages(b) \in Nat /\ c < NumPages(b) * PageBytes + PageBytes
    BY <2>2, <2>3, LayoutAssumption, SMT
  <2> QED
    BY <2>4, LayoutAssumption, SMT DEF c
<1>5. ManagerBytes \in Nat /\ PoolBytes \in Nat /\ PageBytes \in Nat /\ MetaBytes \in Nat
  BY LayoutAssumption
<1>6. MaxPages * PageBytes \in Nat /\ MaxPages * MetaBytes \in Nat
  BY <1>2, <1>5, SMT
<1> QED
  BY <1>3, <1>4, <1>5, <1>6, SMT

\* The manager that PageMemoryManagerCreate returns satisfies the invariant.
LEMMA InitInv == Init => Inv
<1> SUFFICES ASSUME Init PROVE Inv
  OBVIOUS
<1> USE DEF Init
<1>1. TypeOK
  BY MaxPagesNat DEF TypeOK, Entries, Page, ZeroPage, NULL
<1>2. Live = {}
  BY DEF Live
<1>3. IsFiniteSet(Live) /\ Cardinality(Live) = 0
  BY <1>2, FS_EmptySet
<1>4. Tiling /\ FreeBlocks /\ HeldBlocks
  BY <1>2, MaxPagesNat DEF Tiling, FreeBlocks, HeldBlocks
<1> QED
  BY <1>1, <1>3, <1>4 DEF Inv, ChecksHold, NoBlockLost

\* What a call that gives a handle a block does to the set of live handles,
\* and what Free does to it.
LEMMA HoldLive ==
  ASSUME Inv, NEW h \in Handle, NEW a \in Int, NEW b \in Nat,
         held[h] = NoBlock, Hold(h, a, b)
  PROVE  /\ held' \in [Handle -> [data : Int, bytes : Nat] \cup {NoBlock}]
         /\ held'[h] = [data |-> a, bytes |-> b]
         /\ \A g \in Handle : g # h => held'[g] = held[g]
         /\ h \notin Live /\ Live' = Live \cup {h}
         /\ IsFiniteSet(Live') /\ Cardinality(Live') = Cardinality(Live) + 1
<1>1. held' = [held EXCEPT ![h] = [data |-> a, bytes |-> b]]
  BY DEF Hold
<1>2. held \in [Handle -> [data : Int, bytes : Nat] \cup {NoBlock}]
  BY DEF Inv, TypeOK
<1>3. [data |-> a, bytes |-> b] # NoBlock
  BY NoBlockAssumption
<1>4. h \notin Live /\ Live' = Live \cup {h}
  BY <1>1, <1>2, <1>3 DEF Live
<1>5. IsFiniteSet(Live') /\ Cardinality(Live') = Cardinality(Live) + 1
  BY <1>4, FS_AddElement DEF Inv
<1> QED
  BY <1>1, <1>2, <1>4, <1>5

LEMMA ReleaseLive ==
  ASSUME Inv, NEW h \in Handle, held[h] # NoBlock,
         held' = [held EXCEPT ![h] = NoBlock]
  PROVE  /\ held' \in [Handle -> [data : Int, bytes : Nat] \cup {NoBlock}]
         /\ \A g \in Handle : g # h => held'[g] = held[g]
         /\ h \in Live /\ Live' = Live \ {h}
         /\ IsFiniteSet(Live') /\ Cardinality(Live') = Cardinality(Live) - 1
         /\ Cardinality(Live) \in Nat /\ Cardinality(Live) >= 1
<1>1. held \in [Handle -> [data : Int, bytes : Nat] \cup {NoBlock}]
  BY DEF Inv, TypeOK
<1>2. h \in Live /\ Live' = Live \ {h}
  BY <1>1 DEF Live
<1>3. IsFiniteSet(Live)
  BY DEF Inv
<1>4. IsFiniteSet(Live') /\ Cardinality(Live') = Cardinality(Live) - 1
  BY <1>2, <1>3, FS_RemoveElement
<1>5. Cardinality(Live) \in Nat /\ Cardinality(Live') \in Nat
  BY <1>3, <1>4, FS_CardinalityType
<1> QED
  BY <1>1, <1>2, <1>4, <1>5

\* A block from free_map: it leaves the list and has one new holder.
LEMMA AllocateFreedInv ==
  ASSUME Inv, NEW h \in Handle, NEW b \in Requests, AllocateFreed(h, b)
  PROVE  Inv'
<1> USE MaxPagesNat
<1> DEFINE npage == NumPages(b)
<1>1. PICK k \in 1 .. free_num :
        /\ LowerBound(k, npage)
        /\ MultiMap_Erase(k)
        /\ Hold(h, free_map[k].page.data, b)
  BY DEF AllocateFreed, LowerBound
<1>2. UNCHANGED <<num_pages, pmap, pmap_num, status>> /\ held[h] = NoBlock
  BY DEF AllocateFreed, MayAllocate
<1>3. TypeOK
  BY DEF Inv
<1>4. b \in Nat /\ npage \in Nat
  BY RequestsAssumption, NumPagesNat
<1>5. k \in Entries /\ free_num \in Nat /\ free_num <= MaxPages
  BY <1>3 DEF TypeOK, Entries
<1>6. free_map[k] \in [index : Nat, page : Page]
  BY <1>3, <1>5 DEF TypeOK
<1> DEFINE p == free_map[k].page
<1>7. p \in Page /\ p.data \in Int
  BY <1>6 DEF Page
<1>8. /\ held' \in [Handle -> [data : Int, bytes : Nat] \cup {NoBlock}]
      /\ held'[h] = [data |-> p.data, bytes |-> b]
      /\ \A g \in Handle : g # h => held'[g] = held[g]
      /\ h \notin Live /\ Live' = Live \cup {h}
      /\ IsFiniteSet(Live') /\ Cardinality(Live') = Cardinality(Live) + 1
  BY <1>1, <1>2, <1>4, <1>7, HoldLive
<1>9. /\ free_map' = [i \in Entries |-> IF i \in k .. free_num - 1
                                        THEN free_map[i + 1] ELSE free_map[i]]
      /\ free_num' = free_num - 1
      /\ vleak_size' = vleak_size + 1
  BY <1>1 DEF MultiMap_Erase, Hold
<1>10. free_map \in [Entries -> [index : Nat, page : Page]]
  BY <1>3 DEF TypeOK
<1>11. ASSUME NEW j \in 1 .. free_num'
       PROVE  /\ j \in Entries
              /\ free_map'[j] = IF j < k THEN free_map[j] ELSE free_map[j + 1]
  BY <1>5, <1>9 DEF Entries
<1>12. TypeOK'
  <2>1. free_map' \in [Entries -> [index : Nat, page : Page]]
    BY <1>5, <1>9, <1>10 DEF Entries
  <2>2. free_num' \in 0 .. MaxPages /\ vleak_size' \in Int
    BY <1>3, <1>5, <1>9 DEF TypeOK
  <2> QED
    BY <1>2, <1>3, <1>8, <2>1, <2>2 DEF TypeOK
<1>13. Tiling' /\ ChecksHold'
  BY <1>2 DEF Inv, Tiling, ChecksHold
<1>14. FreeBlocks'
  <2>1. ASSUME NEW j \in 1 .. free_num'
        PROVE  /\ free_map'[j].index = free_map'[j].page.num_pages
               /\ \E i \in 1 .. pmap_num' : free_map'[j].page = pmap'[i].page
    BY <1>2, <1>5, <1>9, <1>11 DEF Inv, FreeBlocks
  <2>2. ASSUME NEW j \in 1 .. free_num', NEW l \in 1 .. free_num', j # l
        PROVE  free_map'[j].page.data # free_map'[l].page.data
    BY <1>5, <1>9, <1>11, <2>2 DEF Inv, FreeBlocks
  <2> QED
    BY <2>1, <2>2 DEF FreeBlocks
<1>15. ASSUME NEW j \in 1 .. free_num'
       PROVE  \E l \in 1 .. free_num : l # k /\ free_map'[j] = free_map[l]
  BY <1>5, <1>9, <1>11
<1>16. HeldBlocks'
  <2>1. PICK i \in 1 .. pmap_num : p = pmap[i].page
    BY DEF Inv, FreeBlocks
  <2>2. p.data = pmap[i].addr /\ npage <= pmap[i].page.num_pages
    BY <1>1, <2>1 DEF Inv, Tiling, FreeBlocks, LowerBound
  <2>3. \A g \in Live' : \E m \in 1 .. pmap_num' :
          /\ held'[g].data = pmap'[m].addr
          /\ NumPages(held'[g].bytes) <= pmap'[m].page.num_pages
    <3> SUFFICES ASSUME NEW g \in Live'
                 PROVE  \E m \in 1 .. pmap_num :
                          /\ held'[g].data = pmap[m].addr
                          /\ NumPages(held'[g].bytes) <= pmap[m].page.num_pages
      BY <1>2
    <3>1. CASE g = h
      BY <1>8, <2>2, <3>1
    <3>2. CASE g # h
      <4>1. g \in Live /\ held'[g] = held[g]
        BY <1>8, <3>2 DEF Live
      <4> QED
        BY <4>1 DEF Inv, HeldBlocks
    <3> QED
      BY <3>1, <3>2
  <2>4. \A g \in Live : held[g].data # p.data
    BY DEF Inv, HeldBlocks
  <2>5. \A g, f \in Live' : g # f => held'[g].data # held'[f].data
    BY <1>8, <2>4 DEF Inv, HeldBlocks, Live
  <2>6. \A g \in Live' : \A j \in 1 .. free_num' : held'[g].data # free_map'[j].page.data
    <3> SUFFICES ASSUME NEW g \in Live', NEW j \in 1 .. free_num'
                 PROVE  held'[g].data # free_map'[j].page.data
      OBVIOUS
    <3>1. PICK l \in 1 .. free_num : l # k /\ free_map'[j] = free_map[l]
      BY <1>15
    <3>2. free_map[l].page.data # p.data
      BY <3>1 DEF Inv, FreeBlocks
    <3>3. CASE g = h
      BY <1>8, <3>1, <3>2, <3>3
    <3>4. CASE g # h
      <4>1. g \in Live /\ held'[g] = held[g]
        BY <1>8, <3>4 DEF Live
      <4> QED
        BY <3>1, <4>1 DEF Inv, HeldBlocks
    <3> QED
      BY <3>3, <3>4
  <2> QED
    BY <2>3, <2>5, <2>6 DEF HeldBlocks
<1>17. NoBlockLost'
  <2>1. vleak_size' = Cardinality(Live') /\ free_num' + vleak_size' = pmap_num'
    BY <1>2, <1>3, <1>5, <1>8, <1>9 DEF Inv, NoBlockLost, TypeOK
  <2>2. ASSUME NEW i \in 1 .. pmap_num
        PROVE  \/ \E g \in Live' : held'[g].data = pmap[i].addr
               \/ \E j \in 1 .. free_num' : free_map'[j].page = pmap[i].page
    <3>1. CASE \E g \in Live : held[g].data = pmap[i].addr
      BY <1>8, <3>1 DEF Live
    <3>2. ASSUME NEW l \in 1 .. free_num, free_map[l].page = pmap[i].page
          PROVE  \/ \E g \in Live' : held'[g].data = pmap[i].addr
                 \/ \E j \in 1 .. free_num' : free_map'[j].page = pmap[i].page
      <4>1. CASE l = k
        <5>1. held'[h].data = pmap[i].addr
          BY <1>8, <3>2, <4>1 DEF Inv, Tiling
        <5> QED
          BY <1>8, <5>1
      <4>2. CASE l < k
        <5>1. l \in 1 .. free_num' /\ free_map'[l] = free_map[l]
          BY <1>5, <1>9, <1>11, <4>2
        <5> QED
          BY <3>2, <5>1
      <4>3. CASE l > k
        <5>1. l - 1 \in 1 .. free_num' /\ free_map'[l - 1] = free_map[l]
          BY <1>5, <1>9, <1>11, <4>3
        <5> QED
          BY <3>2, <5>1
      <4> QED
        BY <1>5, <4>1, <4>2, <4>3
    <3> QED
      BY <3>1, <3>2 DEF Inv, NoBlockLost
  <2> QED
    BY <1>2, <2>1, <2>2 DEF NoBlockLost
<1> QED
  BY <1>8, <1>12, <1>13, <1>14, <1>16, <1>17 DEF Inv

\* A new block lies behind all others, so TLB_Set appends it to pmap.
LEMMA AllocateNewInv ==
  ASSUME Inv, PositiveRequests,
         NEW h \in Handle, NEW b \in Requests, AllocateNew(h, b)
  PROVE  Inv'
<1> USE MaxPagesNat
<1> DEFINE npage == NumPages(b)
           page == PageCreate(num_pages, npage)
           entry == [addr |-> num_pages, page |-> page]
<1>1. /\ num_pages + npage <= MaxPages
      /\ num_pages' = num_pages + npage
      /\ TLB_Set(num_pages, page)
      /\ Hold(h, num_pages, b)
      /\ UNCHANGED <<free_map, free_num>>
      /\ held[h] = NoBlock
  BY DEF AllocateNew, MayAllocate
<1>2. TypeOK
  BY DEF Inv
<1>3. b \in Nat /\ npage \in Nat /\ npage >= 1
  BY RequestsAssumption, NumPagesNat DEF PositiveRequests
<1>4. num_pages \in Nat /\ pmap_num \in Nat /\ pmap_num <= num_pages
  BY <1>2 DEF Inv, Tiling, TypeOK
<1>5. pmap_num + 1 \in Entries /\ pmap_num < MaxPages
  BY <1>1, <1>3, <1>4 DEF Entries
<1>6. page \in Page /\ page.num_pages = npage /\ page.data = num_pages
  BY <1>3, <1>4 DEF PageCreate, Page
<1>7. pmap \in [Entries -> [addr : Int, page : Page]]
  BY <1>2 DEF TypeOK
<1>8. ASSUME NEW i \in 1 .. pmap_num
      PROVE  /\ i \in Entries
             /\ pmap[i] \in [addr : Int, page : Page]
             /\ pmap[i].addr < num_pages
  <2>1. i \in Entries
    BY <1>4, <1>5 DEF Entries
  <2>2. pmap[i] \in [addr : Int, page : Page]
    BY <1>7, <2>1
  <2>3. pmap[i].page.num_pages \in Nat
    BY <2>2 DEF Page
  <2> QED
    BY <1>4, <2>1, <2>2, <2>3 DEF Inv, Tiling
<1>9. NotFound(num_pages)
  BY <1>4, <1>8 DEF NotFound
<1>10. /\ pmap' = [pmap EXCEPT ![pmap_num + 1] = entry]
       /\ pmap_num' = pmap_num + 1
       /\ status' = status
  BY <1>1, <1>4, <1>5, <1>9 DEF TLB_Set, Found, NotFound
<1>11. pmap'[pmap_num + 1] = entry
  BY <1>5, <1>7, <1>10
<1>12. ASSUME NEW i \in 1 .. pmap_num PROVE pmap'[i] = pmap[i]
  BY <1>4, <1>7, <1>8, <1>10
<1>13. \A i \in 1 .. pmap_num' : i \in 1 .. pmap_num \/ i = pmap_num + 1
  BY <1>4, <1>10
<1>14. /\ held' \in [Handle -> [data : Int, bytes : Nat] \cup {NoBlock}]
       /\ held'[h] = [data |-> num_pages, bytes |-> b]
       /\ \A g \in Handle : g # h => held'[g] = held[g]
       /\ h \notin Live /\ Live' = Live \cup {h}
       /\ IsFiniteSet(Live') /\ Cardinality(Live') = Cardinality(Live) + 1
  BY <1>1, <1>3, <1>4, HoldLive
<1>15. \A g \in Live : held'[g] = held[g]
  BY <1>14 DEF Live
<1>16. TypeOK'
  <2>1. pmap' \in [Entries -> [addr : Int, page : Page]]
    <3>1. entry \in [addr : Int, page : Page]
      BY <1>4, <1>6
    <3> HIDE DEF entry
    <3> QED
      BY <1>7, <1>10, <3>1
  <2>2. num_pages' \in Nat /\ pmap_num' \in 0 .. MaxPages /\ vleak_size' \in Int
    BY <1>1, <1>2, <1>3, <1>4, <1>5, <1>10 DEF TypeOK, Hold
  <2> QED
    BY <1>1, <1>2, <1>10, <1>14, <2>1, <2>2 DEF TypeOK
<1>17. Tiling' /\ ChecksHold'
  <2>1. ChecksHold' /\ num_pages' <= MaxPages /\ pmap_num' <= num_pages'
    BY <1>1, <1>3, <1>4, <1>10 DEF Inv, ChecksHold
  <2>2. ASSUME NEW i \in 1 .. pmap_num
        PROVE  /\ pmap[i].page.num_pages \in Nat
               /\ pmap[i].page.data = pmap[i].addr
               /\ pmap[i].page.num_pages >= 1
               /\ pmap[i].addr >= 0
               /\ pmap[i].addr + pmap[i].page.num_pages <= num_pages
    BY <1>8 DEF Inv, Tiling, Page
  <2>3. ASSUME NEW i \in 1 .. pmap_num'
        PROVE  /\ pmap'[i].page.data = pmap'[i].addr
               /\ pmap'[i].page.num_pages >= 1
               /\ pmap'[i].addr >= 0
               /\ pmap'[i].addr + pmap'[i].page.num_pages <= num_pages'
    <3>1. CASE i \in 1 .. pmap_num
      BY <1>1, <1>3, <1>4, <1>8, <1>12, <2>2, <3>1
    <3>2. CASE i = pmap_num + 1
      BY <1>1, <1>3, <1>4, <1>6, <1>11, <3>2
    <3> QED
      BY <1>13, <3>1, <3>2
  <2>4. ASSUME NEW i \in 1 .. pmap_num', NEW j \in 1 .. pmap_num', i < j
        PROVE  pmap'[i].addr + pmap'[i].page.num_pages <= pmap'[j].addr
    <3>1. i \in 1 .. pmap_num
      BY <1>4, <1>10, <2>4, SMT
    <3>2. CASE j \in 1 .. pmap_num
      BY <1>12, <2>4, <3>1, <3>2 DEF Inv, Tiling
    <3>3. CASE j = pmap_num + 1
      BY <1>11, <1>12, <2>2, <3>1, <3>3
    <3> QED
      BY <1>13, <3>2, <3>3
  <2> QED
    BY <2>1, <2>3, <2>4 DEF Tiling
<1>18. FreeBlocks'
  <2>1. ASSUME NEW k \in 1 .. free_num
        PROVE  \E i \in 1 .. pmap_num' : free_map[k].page = pmap'[i].page
    BY <1>4, <1>10, <1>12 DEF Inv, FreeBlocks
  <2> QED
    BY <1>1, <2>1 DEF Inv, FreeBlocks
<1>19. ASSUME NEW g \in Live PROVE held[g].data < num_pages
  BY <1>8 DEF Inv, HeldBlocks
<1>20. ASSUME NEW k \in 1 .. free_num PROVE free_map[k].page.data < num_pages
  BY <1>8 DEF Inv, FreeBlocks, Tiling
<1>21. HeldBlocks'
  <2>1. ASSUME NEW g \in Live'
        PROVE  \E i \in 1 .. pmap_num' :
                 /\ held'[g].data = pmap'[i].addr
                 /\ NumPages(held'[g].bytes) <= pmap'[i].page.num_pages
    <3>1. CASE g = h
      <4>1. pmap_num + 1 \in 1 .. pmap_num'
        BY <1>4, <1>10
      <4>2. held'[g].data = num_pages /\ NumPages(held'[g].bytes) = npage
        BY <1>14, <3>1
      <4> QED
        BY <1>3, <1>6, <1>11, <4>1, <4>2
    <3>2. CASE g \in Live
      <4>1. PICK i \in 1 .. pmap_num :
              /\ held[g].data = pmap[i].addr
              /\ NumPages(held[g].bytes) <= pmap[i].page.num_pages
        BY <3>2 DEF Inv, HeldBlocks
      <4>2. i \in 1 .. pmap_num' /\ pmap'[i] = pmap[i]
        BY <1>4, <1>10, <1>12
      <4> QED
        BY <1>15, <3>2, <4>1, <4>2
    <3> QED
      BY <1>14, <3>1, <3>2
  <2>2. \A f, g \in Live' : f # g => held'[f].data # held'[g].data
    BY <1>4, <1>14, <1>15, <1>19 DEF Inv, HeldBlocks
  <2>3. \A g \in Live' : \A k \in 1 .. free_num' : held'[g].data # free_map'[k].page.data
    BY <1>1, <1>4, <1>14, <1>15, <1>20 DEF Inv, HeldBlocks
  <2> QED
    BY <2>1, <2>2, <2>3 DEF HeldBlocks
<1>22. NoBlockLost'
  <2>1. vleak_size' = Cardinality(Live') /\ free_num' + vleak_size' = pmap_num'
    BY <1>1, <1>2, <1>10, <1>14 DEF Inv, NoBlockLost, TypeOK, Hold
  <2>2. ASSUME NEW i \in 1 .. pmap_num'
        PROVE  \/ \E g \in Live' : held'[g].data = pmap'[i].addr
               \/ \E k \in 1 .. free_num' : free_map'[k].page = pmap'[i].page
    <3>1. CASE i \in 1 .. pmap_num
      BY <1>1, <1>12, <1>14, <1>15, <3>1 DEF Inv, NoBlockLost
    <3>2. CASE i = pmap_num + 1
      BY <1>11, <1>14, <3>2
    <3> QED
      BY <1>13, <3>1, <3>2
  <2> QED
    BY <2>1, <2>2 DEF NoBlockLost
<1> QED
  BY <1>14, <1>16, <1>17, <1>18, <1>21, <1>22 DEF Inv

\* Free finds the block, and free_map has room for it because some block was
\* not on it.
LEMMA FreeInv ==
  ASSUME Inv, NEW h \in Handle, Free(h)
  PROVE  Inv'
<1> USE MaxPagesNat
<1>1. held[h] # NoBlock /\ h \in Live /\ TypeOK
  BY DEF Free, Inv, Live
<1>2. PICK m \in 1 .. pmap_num :
        /\ held[h].data = pmap[m].addr
        /\ NumPages(held[h].bytes) <= pmap[m].page.num_pages
  BY <1>1 DEF Inv, HeldBlocks
<1>3. /\ free_num \in Nat /\ pmap_num \in Nat /\ vleak_size \in Int
      /\ pmap_num <= MaxPages
      /\ Cardinality(Live) = vleak_size
      /\ free_num + vleak_size = pmap_num
  BY <1>1 DEF Inv, NoBlockLost, TypeOK
<1>4. Cardinality(Live) \in Nat /\ Cardinality(Live) >= 1
  <2>1. Cardinality(Live) \in Nat /\ Cardinality(Live \ {h}) \in Nat
    BY FS_CardinalityType, FS_RemoveElement DEF Inv
  <2>2. Cardinality(Live \ {h}) = Cardinality(Live) - 1
    BY <1>1, FS_RemoveElement DEF Inv
  <2> QED
    BY <2>1, <2>2
<1>5. free_num + 1 <= MaxPages /\ ~ NotFound(held[h].data)
  BY <1>2, <1>3, <1>4 DEF NotFound
<1>6. PICK i \in 1 .. pmap_num :
        Found(i, held[h].data) /\ MultiMap_Insert(pmap[i].page)
  BY <1>3, <1>5 DEF Free
<1>7. /\ vleak_size' = vleak_size - 1
      /\ held' = [held EXCEPT ![h] = NoBlock]
      /\ UNCHANGED <<num_pages, pmap, pmap_num, status>>
  BY <1>3, <1>5 DEF Free
<1>8. /\ held' \in [Handle -> [data : Int, bytes : Nat] \cup {NoBlock}]
      /\ \A g \in Handle : g # h => held'[g] = held[g]
      /\ Live' = Live \ {h}
      /\ IsFiniteSet(Live') /\ Cardinality(Live') = Cardinality(Live) - 1
  BY <1>1, <1>7, ReleaseLive
<1>9. \A g \in Live' : g \in Live /\ g # h /\ held'[g] = held[g]
  BY <1>8 DEF Live
<1> DEFINE p == pmap[i].page
<1>10. pmap[i].addr = held[h].data /\ p.data = held[h].data /\ p.num_pages >= 1
  BY <1>6 DEF Found, Inv, Tiling
<1>11. i \in Entries /\ p \in Page /\ p.num_pages \in Nat
  <2>1. i \in Entries
    BY <1>3 DEF Entries
  <2>2. pmap[i] \in [addr : Int, page : Page]
    BY <1>1, <2>1 DEF TypeOK
  <2> QED
    BY <2>1, <2>2 DEF Page
<1> DEFINE entry == [index |-> p.num_pages, page |-> p]
<1>12. /\ free_map' = [free_map EXCEPT ![free_num + 1] = entry]
       /\ free_num' = free_num + 1
  BY <1>6, <1>10, <1>11 DEF MultiMap_Insert
<1>13. free_map \in [Entries -> [index : Nat, page : Page]] /\ free_num + 1 \in Entries
  BY <1>1, <1>3, <1>5 DEF TypeOK, Entries
<1>14. free_map'[free_num + 1] = entry
  BY <1>12, <1>13
<1>15. ASSUME NEW k \in 1 .. free_num PROVE free_map'[k] = free_map[k]
  BY <1>3, <1>5, <1>12, <1>13 DEF Entries
<1>16. \A k \in 1 .. free_num' : k \in 1 .. free_num \/ k = free_num + 1
  BY <1>3, <1>12
<1>17. 1 .. free_num \subseteq 1 .. free_num' /\ free_num + 1 \in 1 .. free_num'
  BY <1>3, <1>12
<1>18. TypeOK'
  <2>1. entry \in [index : Nat, page : Page]
    BY <1>11
  <2>2. free_map' \in [Entries -> [index : Nat, page : Page]]
    <3> HIDE DEF entry
    <3> QED
      BY <1>12, <1>13, <2>1
  <2>3. free_num' \in 0 .. MaxPages /\ vleak_size' \in Int
    BY <1>3, <1>5, <1>7, <1>12
  <2> QED
    BY <1>1, <1>7, <1>8, <2>2, <2>3 DEF TypeOK
<1>19. Tiling' /\ ChecksHold'
  BY <1>7 DEF Inv, Tiling, ChecksHold
<1>20. FreeBlocks'
  <2>1. ASSUME NEW k \in 1 .. free_num'
        PROVE  /\ free_map'[k].index = free_map'[k].page.num_pages
               /\ \E j \in 1 .. pmap_num : free_map'[k].page = pmap[j].page
    <3>1. CASE k \in 1 .. free_num
      BY <1>15, <3>1 DEF Inv, FreeBlocks
    <3>2. CASE k = free_num + 1
      BY <1>14, <3>2
    <3> QED
      BY <1>16, <3>1, <3>2
  <2>2. \A k \in 1 .. free_num : free_map[k].page.data # p.data
    BY <1>1, <1>10 DEF Inv, HeldBlocks
  <2>3. ASSUME NEW k \in 1 .. free_num', NEW l \in 1 .. free_num', k # l
        PROVE  free_map'[k].page.data # free_map'[l].page.data
    <3>1. CASE k \in 1 .. free_num /\ l \in 1 .. free_num
      BY <1>15, <2>3, <3>1 DEF Inv, FreeBlocks
    <3>2. CASE k = free_num + 1 /\ l \in 1 .. free_num
      BY <1>14, <1>15, <2>2, <3>2
    <3>3. CASE l = free_num + 1 /\ k \in 1 .. free_num
      BY <1>14, <1>15, <2>2, <3>3
    <3> QED
      BY <1>16, <2>3, <3>1, <3>2, <3>3
  <2> QED
    BY <1>7, <2>1, <2>3 DEF FreeBlocks
<1>21. HeldBlocks'
  <2>1. \A g \in Live' : \E j \in 1 .. pmap_num' :
          /\ held'[g].data = pmap'[j].addr
          /\ NumPages(held'[g].bytes) <= pmap'[j].page.num_pages
    BY <1>7, <1>9 DEF Inv, HeldBlocks
  <2>2. \A f, g \in Live' : f # g => held'[f].data # held'[g].data
    BY <1>9 DEF Inv, HeldBlocks
  <2>3. ASSUME NEW g \in Live', NEW k \in 1 .. free_num'
        PROVE  held'[g].data # free_map'[k].page.data
    <3>1. CASE k \in 1 .. free_num
      BY <1>9, <1>15, <3>1 DEF Inv, HeldBlocks
    <3>2. CASE k = free_num + 1
      BY <1>1, <1>9, <1>10, <1>14, <3>2 DEF Inv, HeldBlocks
    <3> QED
      BY <1>16, <3>1, <3>2
  <2> QED
    BY <2>1, <2>2, <2>3 DEF HeldBlocks
<1>22. NoBlockLost'
  <2>1. vleak_size' = Cardinality(Live') /\ free_num' + vleak_size' = pmap_num'
    BY <1>3, <1>4, <1>7, <1>8, <1>12
  <2>2. ASSUME NEW j \in 1 .. pmap_num
        PROVE  \/ \E g \in Live' : held'[g].data = pmap[j].addr
               \/ \E k \in 1 .. free_num' : free_map'[k].page = pmap[j].page
    <3>1. CASE \E k \in 1 .. free_num : free_map[k].page = pmap[j].page
      BY <1>15, <1>17, <3>1
    <3>2. ASSUME NEW g \in Live, g # h, held[g].data = pmap[j].addr
          PROVE  \E f \in Live' : held'[f].data = pmap[j].addr
      BY <1>8, <1>9, <3>2
    <3>3. CASE held[h].data = pmap[j].addr
      <4>1. j = i
        <5>1. pmap[i] \in [addr : Int, page : Page] /\ pmap[j] \in [addr : Int, page : Page]
          BY <1>1, <1>3 DEF TypeOK, Entries
        <5>2. pmap[i].page.num_pages \in Nat /\ pmap[j].page.num_pages \in Nat
          BY <5>1 DEF Page
        <5> QED
          BY <1>3, <1>10, <3>3, <5>1, <5>2 DEF Inv, Tiling
      <4> QED
        BY <1>14, <1>17, <4>1
    <3> QED
      BY <3>1, <3>2, <3>3 DEF Inv, NoBlockLost
  <2> QED
    BY <1>7, <2>1, <2>2 DEF NoBlockLost
<1> QED
  BY <1>8, <1>18, <1>19, <1>20, <1>21, <1>22 DEF Inv

\* Every call preserves the invariant.
LEMMA NextInv ==
  ASSUME PositiveRequests
  PROVE  Inv /\ [Next]_vars => Inv'
<1> SUFFICES ASSUME Inv, [Next]_vars PROVE Inv'
  OBVIOUS
<1>1. CASE UNCHANGED vars
  BY <1>1 DEF vars, manager, Inv, TypeOK, ChecksHold, Tiling, FreeBlocks, HeldBlocks,
              NoBlockLost, Live
<1>2. ASSUME NEW h \in Handle, NEW b \in Requests, Allocate(h, b) PROVE Inv'
  <2>1. CASE AllocateFreed(h, b)
    BY <2>1, AllocateFreedInv
  <2>2. CASE AllocateNew(h, b)
    BY <2>2, AllocateNewInv
  <2>3. CASE AllocateFails(h, b)
    BY <1>1, <2>3 DEF AllocateFails
  <2> QED
    BY <1>2, <2>1, <2>2, <2>3 DEF Allocate
<1>3. ASSUME NEW h \in Handle, Free(h) PROVE Inv'
  BY <1>3, FreeInv
<1> QED
  BY <1>1, <1>2, <1>3 DEF Next

\* The invariant holds in every reachable state of the manager.
THEOREM Invariance ==
  ASSUME PositiveRequests
  PROVE  Spec => []Inv
BY InitInv, NextInv, PTL DEF Spec

\* The invariant keeps blocks apart: two handles hold different blocks of
\* pmap, and those lie one after the other in the pool.
LEMMA InvApart == Inv => BlocksDisjoint /\ BlocksInPool
<1> SUFFICES ASSUME Inv PROVE BlocksDisjoint /\ BlocksInPool
  OBVIOUS
<1> USE MaxPagesNat
<1>1. /\ pmap_num \in Nat /\ pmap_num <= MaxPages
      /\ num_pages \in Nat /\ num_pages <= MaxPages
      /\ pmap \in [Entries -> [addr : Int, page : Page]]
  BY DEF Inv, TypeOK, Tiling
<1>2. ASSUME NEW i \in 1 .. pmap_num
      PROVE  pmap[i].addr \in Int /\ pmap[i].page.num_pages \in Nat
  BY <1>1 DEF Entries, Page
<1>3. ASSUME NEW h \in Live
      PROVE  \E i \in 1 .. pmap_num :
               /\ held[h].data = pmap[i].addr
               /\ NumPages(held[h].bytes) \in Nat
               /\ NumPages(held[h].bytes) <= pmap[i].page.num_pages
  <2>1. held[h].bytes \in Nat
    BY DEF Inv, TypeOK, Live
  <2> QED
    BY <2>1, NumPagesNat DEF Inv, HeldBlocks
<1>4. BlocksInPool
  BY <1>1, <1>2, <1>3 DEF Inv, Tiling, BlocksInPool
<1>5. ASSUME NEW g \in Live, NEW h \in Live, g # h
      PROVE  \/ held[g].data + NumPages(held[g].bytes) <= held[h].data
             \/ held[h].data + NumPages(held[h].bytes) <= held[g].data
  <2>1. PICK i \in 1 .. pmap_num :
          /\ held[g].data = pmap[i].addr
          /\ NumPages(held[g].bytes) \in Nat
          /\ NumPages(held[g].bytes) <= pmap[i].page.num_pages
    BY <1>3
  <2>2. PICK j \in 1 .. pmap_num :
          /\ held[h].data = pmap[j].addr
          /\ NumPages(held[h].bytes) \in Nat
          /\ NumPages(held[h].bytes) <= pmap[j].page.num_pages
    BY <1>3
  <2>3. i < j \/ j < i
    <3>1. held[g].data # held[h].data
      BY <1>5 DEF Inv, HeldBlocks
    <3> QED
      BY <1>1, <2>1, <2>2, <3>1
  <2>4. i < j => pmap[i].addr + pmap[i].page.num_pages <= pmap[j].addr
    BY DEF Inv, Tiling
  <2>5. j < i => pmap[j].addr + pmap[j].page.num_pages <= pmap[i].addr
    BY DEF Inv, Tiling
  <2> QED
    BY <1>2, <2>1, <2>2, <2>3, <2>4, <2>5
<1> QED
  BY <1>4, <1>5 DEF BlocksDisjoint

\* Blocks in use never overlap: PageMemoryManager_Allocate returns memory that
\* is newly allocated, for every history of calls.
THEOREM Disjointness ==
  ASSUME PositiveRequests
  PROVE  Spec => []BlocksDisjoint
BY Invariance, InvApart, PTL

\* Blocks in use lie in the pages of the pool, away from the metadata.
THEOREM Containment ==
  ASSUME PositiveRequests
  PROVE  Spec => []BlocksInPool
BY Invariance, InvApart, PTL

\* No CHECK of PageMemoryManager_Free or MultiMap_Insert fails, and TLB_Set stays
\* inside pmap, for every history of calls.
THEOREM NoCheckFails ==
  ASSUME PositiveRequests
  PROVE  Spec => []ChecksHold
<1>1. Inv => ChecksHold
  BY DEF Inv
<1> QED
  BY <1>1, Invariance, PTL

\* Every block is in use or on free_map, as vleak_size says: none is lost.
THEOREM Accounting ==
  ASSUME PositiveRequests
  PROVE  Spec => []NoBlockLost
<1>1. Inv => NoBlockLost
  BY DEF Inv
<1> QED
  BY <1>1, Invariance, PTL
============================================================================
