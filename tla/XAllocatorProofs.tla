--------------------------- MODULE XAllocatorProofs ---------------------------
(***************************************************************************)
(* Proofs about XAllocator, for any number of threads and of calls, any    *)
(* sizes that fit into size_t, and any static pools of different sizes.    *)
(***************************************************************************)
EXTENDS XAllocator, FiniteSetTheorems, WellFoundedInduction, TLAPS

Block == Int \X Int

LEMMA BlockIsAPair == \A b \in Block : b # <<>> /\ b = <<b[1], b[2]>> /\ b[1] \in Int /\ b[2] \in Int
BY DEF Block

LEMMA SmallestExists ==
  ASSUME NEW n \in Nat, NEW S \in SUBSET (0 .. n), S # {}
  PROVE  \E i \in S : \A j \in S : i <= j
<1> DEFINE Below == {0 .. i : i \in S}
           Order == StrictSubsetOrdering(0 .. n)
<1>1. Below \subseteq SUBSET (0 .. n) /\ Below # {}
  <2>1. ASSUME NEW i \in S PROVE 0 .. i \in SUBSET (0 .. n)
    OBVIOUS
  <2> QED
    BY <2>1
<1>2. IsWellFoundedOn(Order, SUBSET (0 .. n))
  <2>1. IsFiniteSet(0 .. n)
    BY FS_Interval
  <2>2. FiniteSubsetsOf(0 .. n) = SUBSET (0 .. n)
    BY <2>1, FS_FiniteSubsetsOfFinite
  <2> QED
    BY <2>2, FS_StrictSubsetOrderingWellFounded
<1>3. PICK b \in Below : \A c \in Below : ~ (<<c, b>> \in Order)
  <2> HIDE DEF Below, Order
  <2> QED  BY <1>1, <1>2, WFMin
<1>4. PICK i \in S : b = 0 .. i
  BY <1>3
<1>5. ASSUME NEW j \in S, ~ (i <= j) PROVE FALSE
  <2>1. 0 .. j \in Below /\ 0 .. j \subseteq 0 .. i /\ i \in 0 .. i /\ i \notin 0 .. j
    BY <1>5
  <2>2. <<0 .. j, 0 .. i>> \in Order
    BY <2>1, <1>1, <1>4 DEF StrictSubsetOrdering
  <2> QED
    BY <2>1, <2>2, <1>3, <1>4
<1> QED
  BY <1>5

LEMMA BlockIsLargeEnough ==
  \A size \in Sizes : BlockSize(size) \in Nat /\ BlockSize(size) >= size + Overhead
<1> SUFFICES ASSUME NEW size \in Sizes
             PROVE  BlockSize(size) \in Nat /\ BlockSize(size) >= size + Overhead
  OBVIOUS
<1> DEFINE k == size + Overhead
           above == {i \in 0 .. SizeBits - 1 : 2 ^ i >= k}
<1>1. k \in Nat /\ k # 0 /\ SizeBits - 1 \in Nat /\ k <= 2 ^ (SizeBits - 1) /\ k < 2 ^ SizeBits
  BY BoundsAssumption
<1>2. k % 2 ^ SizeBits = k
  <2>1. 2 ^ SizeBits \in Nat
    BY PowerAssumption, BoundsAssumption
  <2> HIDE DEF k
  <2> QED  BY <1>1, <2>1
<1>3. SizeBits - 1 \in above
  BY <1>1, PowerAssumption
<1>4. PICK i \in above : \A j \in above : i <= j
  <2>1. above \in SUBSET (0 .. SizeBits - 1)
    OBVIOUS
  <2> HIDE DEF above
  <2> QED  BY <1>1, <1>3, <2>1, SmallestExists
<1> QED
  BY <1>1, <1>2, <1>3, <1>4, PowerAssumption DEF BlockSize, NextHigher

Distinct(s) == \A i, j \in DOMAIN s : i # j => s[i] # s[j]

LEMMA PushedList ==
  ASSUME NEW s \in Seq(Block), NEW b \in Block
  PROVE  /\ <<b>> \o s \in Seq(Block)
         /\ Len(<<b>> \o s) = Len(s) + 1
         /\ \A x : x \in Elements(<<b>> \o s) <=> x = b \/ x \in Elements(s)
         /\ Distinct(s) /\ b \notin Elements(s) => Distinct(<<b>> \o s)
<1> DEFINE t == <<b>> \o s
<1>1. t \in Seq(Block) /\ Len(t) = Len(s) + 1 /\ DOMAIN t = 1 .. Len(s) + 1 /\ DOMAIN s = 1 .. Len(s)
  OBVIOUS
<1>2. t[1] = b /\ \A i \in 1 .. Len(s) : t[i + 1] = s[i]
  OBVIOUS
<1>3. Len(s) \in Nat
  OBVIOUS
<1> HIDE DEF t
<1>4. \A i \in 2 .. Len(s) + 1 : i - 1 \in 1 .. Len(s) /\ t[i] = s[i - 1]
  BY <1>2, <1>3
<1>5. \A x : x \in Elements(t) <=> x = b \/ x \in Elements(s)
  <2>1. ASSUME NEW x \in Elements(t) PROVE x = b \/ x \in Elements(s)
    <3>1. PICK i \in 1 .. Len(s) + 1 : x = t[i]
      BY <1>1, <2>1 DEF Elements
    <3>2. CASE i = 1
      BY <1>2, <3>1, <3>2
    <3>3. CASE i # 1
      <4>1. i - 1 \in DOMAIN s /\ x = s[i - 1]
        BY <1>1, <1>3, <1>4, <3>1, <3>3
      <4> QED
        BY <4>1 DEF Elements
    <3> QED
      BY <3>2, <3>3
  <2>2. ASSUME NEW x \in Elements(s) PROVE x \in Elements(t)
    <3>1. PICK i \in 1 .. Len(s) : x = s[i]
      BY <1>1 DEF Elements
    <3> QED
      BY <1>1, <1>2, <1>3, <3>1 DEF Elements
  <2>3. b \in Elements(t)
    BY <1>1, <1>2, <1>3 DEF Elements
  <2> QED
    BY <2>1, <2>2, <2>3
<1>6. ASSUME Distinct(s), b \notin Elements(s) PROVE Distinct(t)
  <2>1. \A i \in 1 .. Len(s) : s[i] # b
    BY <1>1, <1>6 DEF Elements
  <2> QED
    <3> SUFFICES ASSUME NEW i \in 1 .. Len(s) + 1, NEW j \in 1 .. Len(s) + 1, i # j
                 PROVE  t[i] # t[j]
      BY <1>1 DEF Distinct
    <3>1. CASE i = 1
      BY <1>2, <1>3, <1>4, <2>1, <3>1
    <3>2. CASE j = 1
      BY <1>2, <1>3, <1>4, <2>1, <3>2
    <3>3. CASE i # 1 /\ j # 1
      <4>1. /\ i - 1 \in DOMAIN s /\ j - 1 \in DOMAIN s /\ i - 1 # j - 1
            /\ t[i] = s[i - 1] /\ t[j] = s[j - 1]
        BY <1>1, <1>3, <1>4, <3>3
      <4> QED
        BY <1>6, <4>1 DEF Distinct
    <3> QED
      BY <3>1, <3>2, <3>3
<1> QED
  BY <1>1, <1>5, <1>6 DEF t

LEMMA PoppedList ==
  ASSUME NEW s \in Seq(Block), s # <<>>
  PROVE  /\ s[1] \in Block /\ Tail(s) \in Seq(Block) /\ Len(Tail(s)) = Len(s) - 1
         /\ \A x : x \in Elements(s) <=> x = s[1] \/ x \in Elements(Tail(s))
         /\ Distinct(s) => Distinct(Tail(s)) /\ s[1] \notin Elements(Tail(s))
<1>1. /\ DOMAIN s = 1 .. Len(s) /\ Len(s) \in Nat /\ Len(s) > 0
      /\ DOMAIN Tail(s) = 1 .. Len(s) - 1 /\ Tail(s) \in Seq(Block) /\ Len(Tail(s)) = Len(s) - 1
  OBVIOUS
<1>2. \A i \in 1 .. Len(s) - 1 : Tail(s)[i] = s[i + 1]
  OBVIOUS
<1>3. \A x : x \in Elements(s) <=> x = s[1] \/ x \in Elements(Tail(s))
  <2>1. ASSUME NEW x \in Elements(s), x # s[1] PROVE x \in Elements(Tail(s))
    <3>1. PICK i \in 1 .. Len(s) : x = s[i]
      BY <1>1 DEF Elements
    <3>2. i - 1 \in 1 .. Len(s) - 1 /\ Tail(s)[i - 1] = x
      BY <1>1, <1>2, <2>1, <3>1
    <3> QED
      BY <1>1, <3>2 DEF Elements
  <2>2. ASSUME NEW x \in Elements(Tail(s)) PROVE x \in Elements(s)
    BY <1>1, <1>2 DEF Elements
  <2>3. s[1] \in Elements(s)
    BY <1>1 DEF Elements
  <2> QED
    BY <2>1, <2>2, <2>3
<1>4. ASSUME Distinct(s) PROVE Distinct(Tail(s)) /\ s[1] \notin Elements(Tail(s))
  <2>1. \A i \in 1 .. Len(s) - 1 : Tail(s)[i] # s[1]
    BY <1>1, <1>2, <1>4 DEF Distinct
  <2>2. s[1] \notin Elements(Tail(s))
    BY <1>1, <2>1 DEF Elements
  <2>3. Distinct(Tail(s))
    BY <1>1, <1>2, <1>4 DEF Distinct
  <2> QED
    BY <2>2, <2>3
<1> QED
  BY <1>1, <1>3, <1>4

-----------------------------------------------------------------------------
(***************************************************************************)
(* The inductive invariant.                                                *)
(***************************************************************************)
AllocatorSet ==
  [m_blockSize : Nat, m_maxObjects : Nat, m_pHead : Seq(Block), m_poolIndex : Nat,
   m_blockCnt : Nat, m_blocksInUse : Int, m_allocations : Nat, m_deallocations : Nat]

ThreadSet ==
  [at : {"idle", "insert", "pop", "new", "account", "header", "free"}, size : Nat, id : Nat,
   block : Block \cup {<<>>}, old : Block \cup {<<>>}, data : Nat]

TypeInv ==
  /\ setup \in Setups
  /\ _allocators \in Seq(Nat) /\ \A i \in 1 .. Len(_allocators) : _allocators[i] = i
  /\ alloc \in [0 .. Len(_allocators) -> AllocatorSet]
  /\ heap \in Seq(Nat)
  /\ DOMAIN header \subseteq Block
  /\ \A b \in DOMAIN header : header[b] \in 1 .. Len(_allocators)
  /\ DOMAIN live \subseteq Block
  /\ \A b \in DOMAIN live : live[b] \in [size : Nat, data : Nat]
  /\ th \in [Threads -> ThreadSet]
  /\ calls \in Nat

\* What a thread holds in each place of its call.
ThreadOk(t) ==
  /\ At(t, "idle") => th[t].block = <<>> /\ (th[t].old = <<>> \/ halted)
  /\ th[t].at \in {"insert", "pop", "new"} => th[t].block = <<>>
  /\ th[t].at \in {"account", "header", "free"} => th[t].block # <<>>
  /\ At(t, "insert") => th[t].size \in Sizes
  /\ th[t].at \in {"pop", "new", "account", "header", "free"} => th[t].id \in 1 .. Len(_allocators)
  /\ th[t].at \in {"pop", "new", "account", "header"} =>
       th[t].size + Overhead <= alloc[th[t].id].m_blockSize
  /\ At(t, "free") => /\ th[t].old = <<>> /\ th[t].block \in DOMAIN header
                      /\ header[th[t].block] = th[t].id
  /\ th[t].old # <<>> => /\ th[t].old \in DOMAIN header /\ th[t].old \in DOMAIN memory
                         /\ memory[th[t].old] = th[t].data

\* Who has a block: a free list, the program, or a call.
Kinds   == {"free", "live", "block", "old"}
Holders == DOMAIN alloc \cup Threads

Owns(k, x, b) ==
  \/ k = "free" /\ x \in DOMAIN alloc /\ b \in Elements(alloc[x].m_pHead)
  \/ k = "live" /\ x = 0 /\ b \in DOMAIN live
  \/ k = "block" /\ x \in Threads /\ b = th[x].block
  \/ k = "old" /\ x \in Threads /\ b = th[x].old

OneOwner ==
  \A b \in Block : \A k, l \in Kinds : \A x, y \in Holders :
    Owns(k, x, b) /\ Owns(l, y, b) => k = l /\ x = y
AllOwned ==
  \A b \in Block : b \in Issued <=> \E k \in Kinds : \E x \in Holders : Owns(k, x, b)
ListsDistinct == \A id \in DOMAIN alloc : Distinct(alloc[id].m_pHead)

\* A header is written when a client gets the block, and goes with its link into a list.
HeaderInv ==
  \A b \in DOMAIN header :
    \/ b \in DOMAIN live
    \/ \E t \in Threads : th[t].old = b \/ (At(t, "free") /\ th[t].block = b)

DataInv ==
  \A b \in DOMAIN live :
    /\ b \in DOMAIN memory /\ memory[b] = live[b].data
    /\ b \in DOMAIN header => live[b].size + Overhead <= alloc[header[b]].m_blockSize

\* The blocks that an Allocator counts as in use, and those it counts at all.
Uses(id, b) ==
  \/ b \in DOMAIN header /\ header[b] = id
  \/ id = 0 /\ b \in Plain
  \/ \E t \in Threads : At(t, "header") /\ th[t].block = b /\ th[t].id = id
InUse(id) == {b \in Block : Uses(id, b)}

SizeInv ==
  \A id \in DOMAIN alloc : \A b \in Block :
    \/ Uses(id, b) \/ b \in Elements(alloc[id].m_pHead)
    \/ \E t \in Threads : At(t, "account") /\ th[t].block = b /\ th[t].id = id
    => BytesOf(b) = alloc[id].m_blockSize

CountInv ==
  \A id \in DOMAIN alloc :
    LET a == alloc[id]
    IN /\ Len(a.m_pHead) + a.m_blocksInUse = a.m_poolIndex + a.m_blockCnt
       /\ a.m_blocksInUse = a.m_allocations - a.m_deallocations
       /\ IsFiniteSet(InUse(id)) /\ a.m_blocksInUse = Cardinality(InUse(id))

OwnInv == OneOwner /\ AllOwned /\ ListsDistinct
IInv == /\ TypeInv /\ (\A t \in Threads : ThreadOk(t)) /\ OneAllocatorPerSize
        /\ OwnInv /\ HeaderInv /\ DataInv /\ SizeInv /\ CountInv

-----------------------------------------------------------------------------
(***************************************************************************)
(* Types.                                                                  *)
(***************************************************************************)
LEMMA Numbers ==
  /\ SizeBits \in Nat /\ PointerSize \in Nat /\ MaxAllocators \in Nat /\ MaxBlocks \in Nat
  /\ PointerSize > 0 /\ MaxBlocks > 0
  /\ Overhead \in Nat /\ PointerSize <= Overhead /\ Sizes \subseteq Nat
BY BoundsAssumption

LEMMA NewAllocatorType ==
  \A size, objects \in Nat :
    /\ NewAllocator(size, objects) \in AllocatorSet
    /\ NewAllocator(size, objects).m_pHead = <<>>
    /\ NewAllocator(size, objects).m_poolIndex = 0
    /\ NewAllocator(size, objects).m_blockCnt = 0
    /\ NewAllocator(size, objects).m_blocksInUse = 0
    /\ NewAllocator(size, objects).m_allocations = 0
    /\ NewAllocator(size, objects).m_deallocations = 0
    /\ NewAllocator(size, objects).m_blockSize >= size
    /\ size >= PointerSize => NewAllocator(size, objects).m_blockSize = size
BY Numbers DEF NewAllocator, AllocatorSet

\* Only one allocator has the size, so that the first is the one.
LEMMA FindsAllocator ==
  ASSUME TypeInv, OneAllocatorPerSize, NEW s \in Nat
  PROVE  /\ find_allocator(s) \in 0 .. Len(_allocators)
         /\ find_allocator(s) # 0 => alloc[find_allocator(s)].m_blockSize = s
         /\ find_allocator(s) = 0 =>
              \A id \in 1 .. Len(_allocators) : alloc[id].m_blockSize # s
<1> DEFINE found == {i \in DOMAIN _allocators : alloc[_allocators[i]].m_blockSize = s}
<1>1. /\ DOMAIN _allocators = 1 .. Len(_allocators) /\ Len(_allocators) \in Nat
      /\ \A i \in 1 .. Len(_allocators) : _allocators[i] = i
  BY DEF TypeInv
<1>2. CASE found = {}
  BY <1>1, <1>2 DEF find_allocator
<1>3. CASE found # {}
  <2>1. PICK i \in found : TRUE
    BY <1>3
  <2>2. \A j \in found : j = i
    BY <1>1 DEF OneAllocatorPerSize
  <2>3. i \in found /\ \A j \in found : i <= j
    BY <1>1, <2>1, <2>2
  <2>4. (CHOOSE k \in found : \A j \in found : k <= j) = i
    BY <2>2, <2>3
  <2>5. find_allocator(s) = _allocators[i]
    BY <1>3, <2>4 DEF find_allocator
  <2> QED
    BY <1>1, <2>1, <2>5
<1> QED
  BY <1>2, <1>3

LEMMA AllocatorAt ==
  ASSUME TypeInv, NEW id \in 0 .. Len(_allocators)
  PROVE  /\ id \in DOMAIN alloc /\ alloc[id] \in AllocatorSet
         /\ alloc[id].m_pHead \in Seq(Block) /\ alloc[id].m_poolIndex \in Nat
         /\ alloc[id].m_blockSize \in Nat /\ alloc[id].m_maxObjects \in Nat
         /\ alloc[id].m_blockCnt \in Nat /\ alloc[id].m_blocksInUse \in Int
         /\ alloc[id].m_allocations \in Nat /\ alloc[id].m_deallocations \in Nat
BY DEF TypeInv, AllocatorSet

\* The Allocator with everything set that an operation changes.
Updated(a, l, p, n, u, s, d) ==
  [m_blockSize |-> a.m_blockSize, m_maxObjects |-> a.m_maxObjects, m_pHead |-> l,
   m_poolIndex |-> p, m_blockCnt |-> n, m_blocksInUse |-> u,
   m_allocations |-> s, m_deallocations |-> d]

LEMMA UpdatedType ==
  ASSUME NEW a \in AllocatorSet, NEW l \in Seq(Block), NEW p \in Nat, NEW n \in Nat,
         NEW u \in Int, NEW s \in Nat, NEW d \in Nat
  PROVE  Updated(a, l, p, n, u, s, d) \in AllocatorSet
<1>1. a.m_blockSize \in Nat /\ a.m_maxObjects \in Nat
  BY DEF AllocatorSet
<1> QED
  BY <1>1 DEF Updated, AllocatorSet

\* What Allocate() does to an Allocator: it takes from the list, from the pool, or from new.
LEMMA AllocateEffect ==
  ASSUME TypeInv, NEW id \in 0 .. Len(_allocators)
  PROVE  LET a == alloc[id]
             b == Allocate(id).block
             c == Allocate(id).a
         IN /\ b \in Block /\ c \in AllocatorSet
            /\ c.m_blockSize = a.m_blockSize /\ c.m_maxObjects = a.m_maxObjects
            /\ c.m_blocksInUse = a.m_blocksInUse + 1
            /\ c.m_allocations = a.m_allocations + 1 /\ c.m_deallocations = a.m_deallocations
            /\ HasFree(a) => /\ b = a.m_pHead[1] /\ c.m_pHead = Tail(a.m_pHead)
                             /\ c.m_poolIndex = a.m_poolIndex /\ c.m_blockCnt = a.m_blockCnt
            /\ ~HasFree(a) /\ HasRoom(a) =>
                 /\ b = <<id, a.m_poolIndex>> /\ c.m_pHead = a.m_pHead
                 /\ c.m_poolIndex = a.m_poolIndex + 1 /\ c.m_blockCnt = a.m_blockCnt
            /\ ~HasFree(a) /\ ~HasRoom(a) =>
                 /\ b = HeapBlock /\ c.m_pHead = a.m_pHead
                 /\ c.m_poolIndex = a.m_poolIndex /\ c.m_blockCnt = a.m_blockCnt + 1
<1> DEFINE a == alloc[id]
           b == Allocate(id).block
           c == Allocate(id).a
           Effect ==
             /\ b \in Block /\ c \in AllocatorSet
             /\ c.m_blockSize = a.m_blockSize /\ c.m_maxObjects = a.m_maxObjects
             /\ c.m_blocksInUse = a.m_blocksInUse + 1
             /\ c.m_allocations = a.m_allocations + 1 /\ c.m_deallocations = a.m_deallocations
             /\ HasFree(a) => /\ b = a.m_pHead[1] /\ c.m_pHead = Tail(a.m_pHead)
                             /\ c.m_poolIndex = a.m_poolIndex /\ c.m_blockCnt = a.m_blockCnt
             /\ ~HasFree(a) /\ HasRoom(a) =>
                  /\ b = <<id, a.m_poolIndex>> /\ c.m_pHead = a.m_pHead
                  /\ c.m_poolIndex = a.m_poolIndex + 1 /\ c.m_blockCnt = a.m_blockCnt
             /\ ~HasFree(a) /\ ~HasRoom(a) =>
                  /\ b = HeapBlock /\ c.m_pHead = a.m_pHead
                  /\ c.m_poolIndex = a.m_poolIndex /\ c.m_blockCnt = a.m_blockCnt + 1
<1> SUFFICES Effect
  OBVIOUS
<1>1. a \in AllocatorSet /\ a.m_pHead \in Seq(Block) /\ id \in Int /\ a.m_poolIndex \in Nat
  BY AllocatorAt
<1>2. HeapBlock \in Block
  BY DEF HeapBlock, Heap, Block, TypeInv
<1>3. /\ a.m_blockCnt + 1 \in Nat /\ a.m_blocksInUse + 1 \in Int /\ a.m_allocations + 1 \in Nat
      /\ a.m_blockCnt \in Nat /\ a.m_deallocations \in Nat /\ a.m_poolIndex + 1 \in Nat
  BY AllocatorAt
<1> HIDE DEF a, b, c, Effect
<1>4. CASE HasFree(a)
  <2>1. a.m_pHead[1] \in Block /\ Tail(a.m_pHead) \in Seq(Block)
    BY <1>1, <1>4, PoppedList DEF HasFree
  <2>2. Allocate(id) = [block |-> a.m_pHead[1], a |-> AccountAlloc(Pop(a), FALSE)]
    BY <1>4 DEF Allocate, a
  <2>3. b = a.m_pHead[1] /\ c = [a EXCEPT !.m_pHead = Tail(a.m_pHead), !.m_blockCnt = a.m_blockCnt,
                                     !.m_blocksInUse = a.m_blocksInUse + 1,
                                     !.m_allocations = a.m_allocations + 1]
    BY <1>1, <2>2 DEF AccountAlloc, Pop, AllocatorSet, b, c
  <2>4. c = Updated(a, Tail(a.m_pHead), a.m_poolIndex, a.m_blockCnt,
                    a.m_blocksInUse + 1, a.m_allocations + 1, a.m_deallocations)
    BY <1>1, <2>3 DEF AllocatorSet, Updated
  <2>5. c \in AllocatorSet
    BY <1>1, <1>3, <2>1, <2>4, UpdatedType
  <2> QED
    BY <1>1, <1>2, <1>4, <2>1, <2>3, <2>4, <2>5 DEF Updated, Effect
<1>5. CASE ~HasFree(a) /\ HasRoom(a)
  <2>1. <<id, a.m_poolIndex>> \in Block
    BY <1>1 DEF Block
  <2>2. Allocate(id) = [block |-> <<id, a.m_poolIndex>>,
                        a |-> AccountAlloc([a EXCEPT !.m_poolIndex = @ + 1], FALSE)]
    BY <1>5 DEF Allocate, a
  <2>3. b = <<id, a.m_poolIndex>> /\ c = [a EXCEPT !.m_poolIndex = a.m_poolIndex + 1, !.m_blockCnt = a.m_blockCnt,
                                     !.m_blocksInUse = a.m_blocksInUse + 1,
                                     !.m_allocations = a.m_allocations + 1]
    BY <1>1, <2>2 DEF AccountAlloc, Pop, AllocatorSet, b, c
  <2>4. c = Updated(a, a.m_pHead, a.m_poolIndex + 1, a.m_blockCnt,
                    a.m_blocksInUse + 1, a.m_allocations + 1, a.m_deallocations)
    BY <1>1, <2>3 DEF AllocatorSet, Updated
  <2>5. c \in AllocatorSet
    BY <1>1, <1>3, <2>4, UpdatedType
  <2> QED
    BY <1>1, <1>2, <1>5, <2>1, <2>3, <2>4, <2>5 DEF Updated, Effect
<1>6. CASE ~HasFree(a) /\ ~HasRoom(a)
  <2>2. Allocate(id) = [block |-> HeapBlock, a |-> AccountAlloc(a, TRUE)]
    BY <1>6 DEF Allocate, a
  <2>3. b = HeapBlock /\ c = [a EXCEPT !.m_blockCnt = a.m_blockCnt + 1,
                                     !.m_blocksInUse = a.m_blocksInUse + 1,
                                     !.m_allocations = a.m_allocations + 1]
    BY <1>1, <2>2 DEF AccountAlloc, Pop, AllocatorSet, b, c
  <2>4. c = Updated(a, a.m_pHead, a.m_poolIndex, a.m_blockCnt + 1,
                    a.m_blocksInUse + 1, a.m_allocations + 1, a.m_deallocations)
    BY <1>1, <2>3 DEF AllocatorSet, Updated
  <2>5. c \in AllocatorSet
    BY <1>1, <1>3, <2>4, UpdatedType
  <2> QED
    BY <1>1, <1>2, <1>6, <2>3, <2>4, <2>5 DEF Updated, Effect
<1> QED
  BY <1>4, <1>5, <1>6

LEMMA DeallocateEffect ==
  ASSUME NEW a \in AllocatorSet, NEW b \in Block
  PROVE  LET c == DeallocateBlock(a, b)
         IN /\ c \in AllocatorSet /\ c.m_pHead = <<b>> \o a.m_pHead
            /\ c.m_blockSize = a.m_blockSize /\ c.m_maxObjects = a.m_maxObjects
            /\ c.m_poolIndex = a.m_poolIndex /\ c.m_blockCnt = a.m_blockCnt
            /\ c.m_blocksInUse = a.m_blocksInUse - 1
            /\ c.m_allocations = a.m_allocations /\ c.m_deallocations = a.m_deallocations + 1
<1>1. <<b>> \o a.m_pHead \in Seq(Block)
  BY PushedList DEF AllocatorSet
<1>2. QED
  <2>1. DeallocateBlock(a, b) = [a EXCEPT !.m_pHead = <<b>> \o a.m_pHead,
                        !.m_blocksInUse = a.m_blocksInUse - 1, !.m_deallocations = a.m_deallocations + 1]
    BY DEF DeallocateBlock, Push, AllocatorSet
  <2>2. DeallocateBlock(a, b) = Updated(a, <<b>> \o a.m_pHead, a.m_poolIndex, a.m_blockCnt,
                          a.m_blocksInUse - 1, a.m_allocations, a.m_deallocations + 1)
    BY <2>1 DEF AllocatorSet, Updated
  <2>3. /\ a.m_poolIndex \in Nat /\ a.m_blockCnt \in Nat /\ a.m_blocksInUse - 1 \in Int
        /\ a.m_allocations \in Nat /\ a.m_deallocations + 1 \in Nat
    BY DEF AllocatorSet
  <2>4. Updated(a, <<b>> \o a.m_pHead, a.m_poolIndex, a.m_blockCnt,
                a.m_blocksInUse - 1, a.m_allocations, a.m_deallocations + 1) \in AllocatorSet
    BY <1>1, <2>3, UpdatedType
  <2> QED
    BY <2>2, <2>4 DEF Updated

LEMMA AccountEffect ==
  ASSUME NEW a \in AllocatorSet
  PROVE  LET c == AccountAlloc(a, TRUE)
         IN /\ c \in AllocatorSet /\ c.m_pHead = a.m_pHead
            /\ c.m_blockSize = a.m_blockSize /\ c.m_maxObjects = a.m_maxObjects
            /\ c.m_poolIndex = a.m_poolIndex /\ c.m_blockCnt = a.m_blockCnt + 1
            /\ c.m_blocksInUse = a.m_blocksInUse + 1
            /\ c.m_allocations = a.m_allocations + 1 /\ c.m_deallocations = a.m_deallocations
<1>1. AccountAlloc(a, TRUE) = [a EXCEPT !.m_blockCnt = a.m_blockCnt + 1,
                      !.m_blocksInUse = a.m_blocksInUse + 1, !.m_allocations = a.m_allocations + 1]
  BY DEF AccountAlloc
<1>2. AccountAlloc(a, TRUE) = Updated(a, a.m_pHead, a.m_poolIndex, a.m_blockCnt + 1,
                        a.m_blocksInUse + 1, a.m_allocations + 1, a.m_deallocations)
  BY <1>1 DEF AllocatorSet, Updated
<1>3. /\ a.m_poolIndex \in Nat /\ a.m_blockCnt + 1 \in Nat /\ a.m_blocksInUse + 1 \in Int
      /\ a.m_allocations + 1 \in Nat /\ a.m_deallocations \in Nat /\ a.m_pHead \in Seq(Block)
  BY DEF AllocatorSet
<1>4. Updated(a, a.m_pHead, a.m_poolIndex, a.m_blockCnt + 1,
              a.m_blocksInUse + 1, a.m_allocations + 1, a.m_deallocations) \in AllocatorSet
  BY <1>3, UpdatedType
<1> DEFINE c == AccountAlloc(a, TRUE)
<1>5. c = Updated(a, a.m_pHead, a.m_poolIndex, a.m_blockCnt + 1,
                  a.m_blocksInUse + 1, a.m_allocations + 1, a.m_deallocations)
  BY <1>2
<1> HIDE DEF c
<1>6. /\ c \in AllocatorSet /\ c.m_pHead = a.m_pHead
      /\ c.m_blockSize = a.m_blockSize /\ c.m_maxObjects = a.m_maxObjects
      /\ c.m_poolIndex = a.m_poolIndex /\ c.m_blockCnt = a.m_blockCnt + 1
      /\ c.m_blocksInUse = a.m_blocksInUse + 1
      /\ c.m_allocations = a.m_allocations + 1 /\ c.m_deallocations = a.m_deallocations
  BY <1>4, <1>5 DEF Updated
<1> QED
  BY <1>6, Zenon DEF c

\* What xallocator_get_allocator() finds out before it may have to insert.
Requested(t, r, at, id) ==
  /\ th' = [th EXCEPT ![t] = [r EXCEPT !.at = at, !.id = id]]
  /\ IF at = "idle" THEN halted' = TRUE ELSE halted' = halted
  /\ at = "pop" => id \in 1 .. Len(_allocators) /\ r.size + Overhead <= alloc[id].m_blockSize

LEMMA RequestsEffect ==
  ASSUME TypeInv, OneAllocatorPerSize,
         NEW t \in Threads, NEW r \in ThreadSet, r.size \in Sizes, r.at = "idle", r.id = 0,
         Requests(t, r)
  PROVE  \E at \in {"idle", "insert", "pop"} : \E id \in 0 .. Len(_allocators) :
           Requested(t, r, at, id)
<1> DEFINE id == find_allocator(BlockSize(r.size))
<1>1. /\ BlockSize(r.size) \in Nat /\ r.size + Overhead <= BlockSize(r.size)
      /\ Len(_allocators) \in Nat
  <2>1. BlockSize(r.size) \in Nat /\ BlockSize(r.size) >= r.size + Overhead
    BY BlockIsLargeEnough
  <2>2. r.size \in Nat /\ Overhead \in Nat
    BY Numbers
  <2> QED
    BY <2>1, <2>2 DEF TypeInv
<1>2. id \in 0 .. Len(_allocators) /\ (id # 0 => alloc[id].m_blockSize = BlockSize(r.size))
  BY <1>1, FindsAllocator
<1> HIDE DEF id
<1>3. r = [r EXCEPT !.at = "idle", !.id = 0] /\ [r EXCEPT !.at = "insert"] = [r EXCEPT !.at = "insert", !.id = 0]
  BY DEF ThreadSet
<1>4. CASE id # 0
  <2>1. /\ th' = [th EXCEPT ![t] = [r EXCEPT !.at = "pop", !.id = id]] /\ halted' = halted
    BY <1>4 DEF Requests, Go, id
  <2>2. id \in 1 .. Len(_allocators) /\ r.size + Overhead <= alloc[id].m_blockSize
    BY <1>1, <1>2, <1>4
  <2> QED
    BY <1>2, <2>1, <2>2 DEF Requested
<1>5. CASE id = 0 /\ setup.pools
  <2>1. th' = [th EXCEPT ![t] = [r EXCEPT !.at = "idle", !.id = 0]] /\ halted' = TRUE
    BY <1>3, <1>5 DEF Requests, Go, id
  <2>2. 0 \in 0 .. Len(_allocators)
    BY <1>1
  <2>3. WITNESS "idle" \in {"idle", "insert", "pop"}, 0 \in 0 .. Len(_allocators)
  <2> QED
    BY <2>1 DEF Requested
<1>6. CASE id = 0 /\ ~setup.pools
  <2>1. th' = [th EXCEPT ![t] = [r EXCEPT !.at = "insert", !.id = 0]] /\ halted' = halted
    BY <1>3, <1>6 DEF Requests, Go, id
  <2>2. 0 \in 0 .. Len(_allocators)
    BY <1>1
  <2>3. WITNESS "insert" \in {"idle", "insert", "pop"}, 0 \in 0 .. Len(_allocators)
  <2> QED
    BY <2>1 DEF Requested
<1> QED
  BY <1>4, <1>5, <1>6

LEMMA ThreadType ==
  ASSUME TypeInv, NEW t \in Threads
  PROVE  /\ th[t] \in ThreadSet /\ th[t].size \in Nat /\ th[t].id \in Nat /\ th[t].data \in Nat
         /\ th[t].at \in {"idle", "insert", "pop", "new", "account", "header", "free"}
         /\ th[t].block \in Block \cup {<<>>} /\ th[t].old \in Block \cup {<<>>}
BY DEF TypeInv, ThreadSet

LEMMA IdleType == Idle \in ThreadSet /\ Idle.at = "idle" /\ Idle.id = 0
BY DEF Idle, ThreadSet

\* What the types of the next state rest on.
LEMMA TypeKept ==
  ASSUME TypeInv, setup' = setup, calls' \in Nat, th' \in [Threads -> ThreadSet],
         UNCHANGED <<_allocators, alloc, heap, header, live>>
  PROVE  TypeInv'
BY DEF TypeInv

LEMMA RequestType ==
  ASSUME NEW r \in ThreadSet, NEW at \in {"idle", "insert", "pop"}, NEW id \in Nat
  PROVE  [r EXCEPT !.at = at, !.id = id] \in ThreadSet
BY DEF ThreadSet

\* What a request leaves in its thread.
Begun(t, r, q) ==
  /\ th' = [th EXCEPT ![t] = q]
  /\ q.size = r.size /\ q.block = r.block /\ q.old = r.old /\ q.data = r.data
  /\ q.at \in {"idle", "insert", "pop"}
  /\ IF q.at = "idle" THEN halted' = TRUE ELSE halted' = halted
  /\ q.at = "pop" => q.id \in 1 .. Len(_allocators) /\ q.size + Overhead <= alloc[q.id].m_blockSize

LEMMA RequestStep ==
  ASSUME IInv, NEW t \in Threads, NEW r \in ThreadSet,
         r.size \in Sizes, r.at = "idle", r.id = 0, Requests(t, r)
  PROVE  \E q \in ThreadSet : Begun(t, r, q)
<1>1. PICK at \in {"idle", "insert", "pop"} : \E id \in 0 .. Len(_allocators) :
        Requested(t, r, at, id)
  BY RequestsEffect DEF IInv
<1>2. PICK id \in 0 .. Len(_allocators) : Requested(t, r, at, id)
  BY <1>1
<1>3. id \in Nat
  BY DEF IInv, TypeInv
<1> DEFINE q == [r EXCEPT !.at = at, !.id = id]
<1>4. q \in ThreadSet
  BY <1>3, RequestType
<1>5. /\ q.size = r.size /\ q.block = r.block /\ q.old = r.old /\ q.data = r.data
      /\ q.at = at /\ q.id = id
  BY DEF ThreadSet
<1>6. Begun(t, r, q)
  BY <1>2, <1>5 DEF Begun, Requested
<1> QED
  BY <1>4, <1>6

LEMMA XmallocStep ==
  ASSUME IInv, NEW t \in Threads, xmalloc(t)
  PROVE  \E r, q \in ThreadSet :
           Begun(t, r, q) /\ r.size \in Sizes /\ r.block = <<>> /\ r.old = <<>>
<1>1. PICK size \in Sizes : Requests(t, [Idle EXCEPT !.size = size, !.data = calls'])
  BY DEF xmalloc
<1> DEFINE r == [Idle EXCEPT !.size = size, !.data = calls']
<1>2. calls' \in Nat
  BY DEF xmalloc, Calls, IInv, TypeInv
<1>3. /\ r \in ThreadSet /\ r.size \in Sizes /\ r.at = "idle" /\ r.id = 0
      /\ r.block = <<>> /\ r.old = <<>>
  BY <1>2, Numbers DEF Idle, ThreadSet
<1>4. Requests(t, r)
  BY <1>1
<1> HIDE DEF r
<1>5. \E q \in ThreadSet : Begun(t, r, q)
  BY <1>3, <1>4, RequestStep
<1> QED
  BY <1>3, <1>5

LEMMA XreallocStep ==
  ASSUME IInv, NEW t \in Threads, xrealloc(t)
  PROVE  \E b \in DOMAIN live \ Plain : \E r, q \in ThreadSet :
           /\ live' = Without(live, b)
           /\ Begun(t, r, q) /\ r.size \in Sizes /\ r.block = <<>> /\ r.old = b
           /\ r.data = live[b].data
<1>1. PICK b \in DOMAIN live \ Plain, size \in Sizes :
        /\ live' = Without(live, b)
        /\ Requests(t, [Idle EXCEPT !.size = size, !.old = b, !.data = live[b].data])
  BY DEF xrealloc
<1> DEFINE r == [Idle EXCEPT !.size = size, !.old = b, !.data = live[b].data]
<1>2. b \in Block /\ live[b].data \in Nat
  BY DEF IInv, TypeInv
<1>3. /\ r \in ThreadSet /\ r.size \in Sizes /\ r.at = "idle" /\ r.id = 0
      /\ r.block = <<>> /\ r.old = b /\ r.data = live[b].data
  BY <1>2, Numbers DEF Idle, ThreadSet
<1>4. Requests(t, r)
  BY <1>1
<1> HIDE DEF r
<1>5. \E q \in ThreadSet : Begun(t, r, q)
  BY <1>3, <1>4, RequestStep
<1> QED
  BY <1>1, <1>3, <1>5

LEMMA TypeXmalloc ==
  ASSUME IInv, NEW t \in Threads, xmalloc(t) PROVE TypeInv'
<1>1. PICK r, q \in ThreadSet : Begun(t, r, q)
  BY XmallocStep
<1>2. th' \in [Threads -> ThreadSet] /\ calls' \in Nat
  BY <1>1 DEF Begun, IInv, TypeInv, xmalloc, Calls
<1> QED
  BY <1>2, TypeKept DEF xmalloc, IInv

LEMMA TypeXrealloc ==
  ASSUME IInv, NEW t \in Threads, xrealloc(t) PROVE TypeInv'
<1>1. PICK b \in DOMAIN live \ Plain : \E r, q \in ThreadSet :
        live' = Without(live, b) /\ Begun(t, r, q)
  BY XreallocStep
<1>2. PICK r, q \in ThreadSet : Begun(t, r, q)
  BY <1>1
<1>3. th' \in [Threads -> ThreadSet] /\ calls' \in Nat
  BY <1>2 DEF Begun, IInv, TypeInv, xrealloc, Calls
<1>4. DOMAIN live' \subseteq Block /\ \A c \in DOMAIN live' : live'[c] \in [size : Nat, data : Nat]
  BY <1>1 DEF Without, IInv, TypeInv
<1> QED
  BY <1>3, <1>4 DEF xrealloc, IInv, TypeInv

LEMMA TypePopBlock ==
  ASSUME IInv, NEW t \in Threads, PopBlock(t) PROVE TypeInv'
<1> DEFINE id == th[t].id
<1>1. id \in 0 .. Len(_allocators) /\ th[t] \in ThreadSet /\ calls' = calls /\ calls \in Nat
  BY ThreadType DEF IInv, ThreadOk, PopBlock, At, TypeInv
<1>2. CASE HasFree(alloc[id]) \/ HasRoom(alloc[id])
  <2>1. Allocate(id).block \in Block /\ Allocate(id).a \in AllocatorSet
    BY <1>1, AllocateEffect DEF IInv
  <2>2. /\ alloc' = [alloc EXCEPT ![id] = Allocate(id).a]
        /\ th' = [th EXCEPT ![t] = [th[t] EXCEPT !.at = "header", !.block = Allocate(id).block]]
        /\ UNCHANGED <<setup, _allocators, heap, header, live>>
    BY <1>2 DEF PopBlock, Go, Exhausted, HasRoom, UsesHeap
  <2>3. [th[t] EXCEPT !.at = "header", !.block = Allocate(id).block] \in ThreadSet
    BY <1>1, <2>1 DEF ThreadSet
  <2>4. th' \in [Threads -> ThreadSet] /\ alloc' \in [0 .. Len(_allocators) -> AllocatorSet]
    BY <2>1, <2>2, <2>3 DEF IInv, TypeInv
  <2> QED
    BY <1>1, <2>2, <2>4 DEF IInv, TypeInv
<1>3. CASE ~HasFree(alloc[id]) /\ ~HasRoom(alloc[id]) /\ UsesHeap(alloc[id])
  <2>1. /\ th' = [th EXCEPT ![t] = [th[t] EXCEPT !.at = "new"]]
        /\ UNCHANGED <<setup, _allocators, alloc, heap, header, live>>
    BY <1>3 DEF PopBlock, Go, Exhausted
  <2>2. [th[t] EXCEPT !.at = "new"] \in ThreadSet
    BY <1>1 DEF ThreadSet
  <2>3. th' \in [Threads -> ThreadSet]
    BY <2>1, <2>2 DEF IInv, TypeInv
  <2> QED
    BY <1>1, <2>1, <2>3, TypeKept DEF IInv
<1>4. CASE Exhausted(alloc[id])
  <2>1. UNCHANGED <<setup, _allocators, alloc, heap, header, live, th>>
    BY <1>4 DEF PopBlock, Halt, Exhausted
  <2> QED
    BY <1>1, <2>1 DEF IInv, TypeInv
<1> QED
  BY <1>2, <1>3, <1>4 DEF Exhausted

LEMMA TypeNewBlock ==
  ASSUME IInv, NEW t \in Threads, NewBlock(t) PROVE TypeInv'
<1>1. /\ th[t].id \in 0 .. Len(_allocators) /\ th[t] \in ThreadSet
      /\ HeapBlock \in Block
  BY ThreadType DEF IInv, ThreadOk, NewBlock, At, TypeInv, HeapBlock, Heap, Block
<1>2. alloc[th[t].id].m_blockSize \in Nat
  BY <1>1, AllocatorAt DEF IInv
<1>3. [th[t] EXCEPT !.at = "account", !.block = HeapBlock] \in ThreadSet
  BY <1>1 DEF ThreadSet
<1>4. th' \in [Threads -> ThreadSet] /\ heap' \in Seq(Nat)
  BY <1>2, <1>3 DEF NewBlock, Go, IInv, TypeInv
<1> QED
  BY <1>4 DEF NewBlock, IInv, TypeInv

LEMMA TypeAccountNew ==
  ASSUME IInv, NEW t \in Threads, AccountNew(t) PROVE TypeInv'
<1>1. th[t].id \in 0 .. Len(_allocators) /\ th[t] \in ThreadSet
  BY ThreadType DEF IInv, ThreadOk, AccountNew, At, TypeInv
<1>2. AccountAlloc(alloc[th[t].id], TRUE) \in AllocatorSet
  BY <1>1, AllocatorAt, AccountEffect DEF IInv
<1>3. [th[t] EXCEPT !.at = "header"] \in ThreadSet
  BY <1>1 DEF ThreadSet
<1>4. th' \in [Threads -> ThreadSet] /\ alloc' \in [0 .. Len(_allocators) -> AllocatorSet]
  BY <1>2, <1>3 DEF AccountNew, Go, IInv, TypeInv
<1> QED
  BY <1>4 DEF AccountNew, IInv, TypeInv

LEMMA TypeInsertAllocator ==
  ASSUME IInv, NEW t \in Threads, InsertAllocator(t) PROVE TypeInv'
<1> DEFINE n == Len(_allocators) + 1
<1>1. /\ th[t].size \in Sizes /\ th[t] \in ThreadSet /\ calls' = calls /\ calls \in Nat
      /\ Len(_allocators) \in Nat
  BY ThreadType DEF IInv, ThreadOk, InsertAllocator, At, TypeInv
<1>2. CASE Existing(t) # 0
  <2>1. /\ th' = [th EXCEPT ![t] = [th[t] EXCEPT !.at = "pop", !.id = Existing(t)]]
        /\ UNCHANGED <<setup, _allocators, alloc, heap, header, live>>
    BY <1>2 DEF InsertAllocator, Go
  <2>2. Existing(t) \in Nat
    <3> DEFINE s == BlockSize(th[t].size)
    <3>1. s \in Nat
      BY <1>1, BlockIsLargeEnough
    <3>2. Existing(t) = find_allocator(s)
      BY DEF Existing
    <3> HIDE DEF s
    <3>3. find_allocator(s) \in 0 .. Len(_allocators)
      BY <3>1, FindsAllocator DEF IInv
    <3> QED
      BY <1>1, <3>2, <3>3
  <2>3. [th[t] EXCEPT !.at = "pop", !.id = Existing(t)] \in ThreadSet
    BY <1>1, <2>2 DEF ThreadSet
  <2>4. th' \in [Threads -> ThreadSet]
    BY <2>1, <2>3 DEF IInv, TypeInv
  <2> QED
    BY <1>1, <2>1, <2>4, TypeKept DEF IInv
<1>3. CASE Existing(t) = 0 /\ Len(_allocators) < MaxAllocators
  <2> DEFINE a == NewAllocator(BlockSize(th[t].size), 0)
  <2>1. /\ th' = [th EXCEPT ![t] = [th[t] EXCEPT !.at = "pop", !.id = n]]
        /\ alloc' = Put(alloc, n, a) /\ _allocators' = Append(_allocators, n)
        /\ UNCHANGED <<setup, heap, header, live>>
    BY <1>3, Numbers DEF InsertAllocator, Go, TypeInv, IInv
  <2>2. a \in AllocatorSet
    BY <1>1, BlockIsLargeEnough, NewAllocatorType
  <2>3. [th[t] EXCEPT !.at = "pop", !.id = n] \in ThreadSet
    <3>1. n \in Nat
      BY <1>1
    <3> HIDE DEF n
    <3> QED  BY <1>1, <3>1 DEF ThreadSet
  <2>4. th' \in [Threads -> ThreadSet]
    BY <2>1, <2>3 DEF IInv, TypeInv
  <2> HIDE DEF a
  <2>5. /\ _allocators' \in Seq(Nat) /\ Len(_allocators') = n
        /\ \A i \in 1 .. n : _allocators'[i] = i
    BY <1>1, <2>1 DEF IInv, TypeInv
  <2>6. 0 .. n = (0 .. Len(_allocators)) \cup {n}
    BY <1>1
  <2>7. alloc' \in [0 .. n -> AllocatorSet]
    BY <2>1, <2>2, <2>6 DEF IInv, TypeInv, Put
  <2>8. \A b \in DOMAIN header : header[b] \in 1 .. n
    BY <1>1 DEF IInv, TypeInv
  <2> HIDE DEF n
  <2> QED
    BY <1>1, <2>1, <2>4, <2>5, <2>7, <2>8 DEF IInv, TypeInv
<1>4. CASE Existing(t) = 0 /\ Len(_allocators) = MaxAllocators
  <2>1. UNCHANGED <<setup, _allocators, alloc, heap, header, live, th>>
    BY <1>4, Numbers DEF InsertAllocator, Halt
  <2> QED
    BY <1>1, <2>1 DEF IInv, TypeInv
<1> QED
  BY <1>2, <1>3, <1>4 DEF InsertAllocator

LEMMA TypeSetHeader ==
  ASSUME IInv, NEW t \in Threads, SetHeader(t) PROVE TypeInv'
<1> DEFINE b == th[t].block
           o == th[t].old
<1>1. /\ th[t] \in ThreadSet /\ b \in Block /\ th[t].id \in 1 .. Len(_allocators)
      /\ th[t].size \in Nat /\ th[t].data \in Nat
      /\ o # <<>> => o \in Block /\ header[o] \in Nat
  BY ThreadType DEF IInv, ThreadOk, SetHeader, At, TypeInv
<1>2. header' = Put(header, b, th[t].id)
  BY DEF SetHeader
<1>3. live' = Put(live, b, [size |-> th[t].size, data |-> th[t].data])
  BY DEF SetHeader
<1>4. /\ DOMAIN header' \subseteq Block
      /\ \A c \in DOMAIN header' : header'[c] \in 1 .. Len(_allocators)
  BY <1>1, <1>2 DEF Put, IInv, TypeInv
<1>5. [size |-> th[t].size, data |-> th[t].data] \in [size : Nat, data : Nat]
  BY <1>1
<1>6. DOMAIN live' \subseteq Block /\ \A c \in DOMAIN live' : live'[c] \in [size : Nat, data : Nat]
  BY <1>1, <1>3, <1>5 DEF Put, IInv, TypeInv
<1>7. th' \in [Threads -> ThreadSet]
  <2>1. CASE o = <<>>
    BY <2>1, IdleType DEF SetHeader, Go, IInv, TypeInv
  <2>2. CASE o # <<>>
    <3>1. [Idle EXCEPT !.at = "free", !.block = o, !.id = header[o]] \in ThreadSet
      BY <1>1, <2>2 DEF Idle, ThreadSet
    <3> QED
      BY <2>2, <3>1 DEF SetHeader, Go, IInv, TypeInv
  <2> QED
    BY <2>1, <2>2
<1> QED
  BY <1>4, <1>6, <1>7 DEF SetHeader, IInv, TypeInv

LEMMA TypeXfree ==
  ASSUME IInv, NEW t \in Threads, xfree(t) PROVE TypeInv'
<1>1. PICK b \in DOMAIN live \ Plain :
        /\ live' = Without(live, b)
        /\ th' = [th EXCEPT ![t] = [Idle EXCEPT !.at = "free", !.block = b, !.id = header[b]]]
  BY DEF xfree, Go
<1>2. b \in Block /\ b \in DOMAIN header /\ header[b] \in Nat
  BY DEF IInv, TypeInv, Plain
<1>3. [Idle EXCEPT !.at = "free", !.block = b, !.id = header[b]] \in ThreadSet
  BY <1>2 DEF Idle, ThreadSet
<1>4. th' \in [Threads -> ThreadSet] /\ calls' \in Nat
  BY <1>1, <1>3 DEF IInv, TypeInv, xfree, Calls
<1>5. DOMAIN live' \subseteq Block /\ \A c \in DOMAIN live' : live'[c] \in [size : Nat, data : Nat]
  BY <1>1 DEF Without, IInv, TypeInv
<1> QED
  BY <1>4, <1>5 DEF xfree, IInv, TypeInv

LEMMA TypeDeallocate ==
  ASSUME IInv, NEW t \in Threads, Deallocate(t) PROVE TypeInv'
<1> DEFINE b == th[t].block
<1>1. b \in Block /\ th[t].id \in 0 .. Len(_allocators)
  BY ThreadType DEF IInv, ThreadOk, Deallocate, At, TypeInv
<1>2. DeallocateBlock(alloc[th[t].id], b) \in AllocatorSet
  BY <1>1, AllocatorAt, DeallocateEffect DEF IInv
<1>3. alloc' \in [0 .. Len(_allocators) -> AllocatorSet]
  BY <1>2 DEF Deallocate, IInv, TypeInv
<1>4. th' \in [Threads -> ThreadSet]
  BY IdleType DEF Deallocate, Go, IInv, TypeInv
<1>5. /\ DOMAIN header' \subseteq Block
      /\ \A c \in DOMAIN header' : header'[c] \in 1 .. Len(_allocators)
  BY DEF Deallocate, Without, IInv, TypeInv
<1> QED
  BY <1>3, <1>4, <1>5 DEF Deallocate, IInv, TypeInv

LEMMA TypeClassNew ==
  ASSUME IInv, NEW t \in Threads, ClassNew(t) PROVE TypeInv'
<1>1. calls' \in Nat /\ 0 \in 0 .. Len(_allocators) /\ UNCHANGED th
  BY DEF ClassNew, Calls, IInv, TypeInv
<1>2. CASE Exhausted(alloc[0])
  BY <1>1, <1>2 DEF ClassNew, Halt, IInv, TypeInv
<1>3. CASE ~Exhausted(alloc[0])
  <2> DEFINE b == Allocate(0).block
  <2>1. b \in Block /\ Allocate(0).a \in AllocatorSet /\ alloc[0].m_blockSize \in Nat
    BY <1>1, AllocateEffect, AllocatorAt DEF IInv
  <2>2. /\ alloc' = [alloc EXCEPT ![0] = Allocate(0).a]
        /\ live' = Put(live, b, [size |-> alloc[0].m_blockSize, data |-> calls'])
        /\ heap' = HeapAfter(0)
        /\ UNCHANGED <<setup, _allocators, header>>
    BY <1>3 DEF ClassNew
  <2>3. heap' \in Seq(Nat)
    BY <2>1, <2>2 DEF HeapAfter, IInv, TypeInv
  <2>4. alloc' \in [0 .. Len(_allocators) -> AllocatorSet]
    BY <2>1, <2>2 DEF IInv, TypeInv
  <2>5. [size |-> alloc[0].m_blockSize, data |-> calls'] \in [size : Nat, data : Nat]
    BY <1>1, <2>1
  <2>6. DOMAIN live' \subseteq Block /\ \A c \in DOMAIN live' : live'[c] \in [size : Nat, data : Nat]
    BY <2>1, <2>2, <2>5 DEF Put, IInv, TypeInv
  <2> QED
    BY <1>1, <2>2, <2>3, <2>4, <2>6 DEF IInv, TypeInv
<1> QED
  BY <1>2, <1>3

LEMMA TypeClassDelete ==
  ASSUME IInv, NEW t \in Threads, ClassDelete(t) PROVE TypeInv'
<1>1. PICK b \in Plain :
        live' = Without(live, b) /\ alloc' = [alloc EXCEPT ![0] = DeallocateBlock(@, b)]
  BY DEF ClassDelete
<1>2. b \in Block /\ 0 \in 0 .. Len(_allocators)
  BY DEF Plain, IInv, TypeInv
<1>3. DeallocateBlock(alloc[0], b) \in AllocatorSet
  BY <1>2, AllocatorAt, DeallocateEffect DEF IInv
<1>4. alloc' \in [0 .. Len(_allocators) -> AllocatorSet]
  BY <1>1, <1>3 DEF IInv, TypeInv
<1>5. DOMAIN live' \subseteq Block /\ \A c \in DOMAIN live' : live'[c] \in [size : Nat, data : Nat]
  BY <1>1 DEF Without, IInv, TypeInv
<1> QED
  BY <1>4, <1>5 DEF ClassDelete, Calls, IInv, TypeInv

LEMMA TypeNext == IInv /\ [Next]_vars => TypeInv'
<1> SUFFICES ASSUME IInv, [Next]_vars PROVE TypeInv'
  OBVIOUS
<1>1. CASE UNCHANGED vars
  BY <1>1 DEF vars, IInv, TypeInv
<1>2. ASSUME NEW t \in Threads, Step(t) PROVE TypeInv'
  BY <1>2, TypeXmalloc, TypeInsertAllocator, TypePopBlock, TypeNewBlock, TypeAccountNew,
     TypeSetHeader, TypeXfree, TypeDeallocate, TypeXrealloc, TypeClassNew, TypeClassDelete DEF Step
<1> QED
  BY <1>1, <1>2 DEF Next

-----------------------------------------------------------------------------
(***************************************************************************)
(* Allocators stay, with their sizes, and a new one has a new size.        *)
(***************************************************************************)
Grown ==
  /\ Len(_allocators) \in Nat /\ Len(_allocators') \in Nat /\ Len(_allocators) <= Len(_allocators')
  /\ \A id \in DOMAIN alloc : id \in DOMAIN alloc' /\ alloc'[id].m_blockSize = alloc[id].m_blockSize

SameTable ==
  /\ _allocators' = _allocators /\ DOMAIN alloc' = DOMAIN alloc
  /\ \A id \in DOMAIN alloc : alloc'[id].m_blockSize = alloc[id].m_blockSize

LEMMA OneAllocatorKept ==
  ASSUME IInv, SameTable PROVE Grown /\ OneAllocatorPerSize'
<1>1. \A i \in DOMAIN _allocators : _allocators[i] \in DOMAIN alloc
  BY DEF IInv, TypeInv
<1> QED
  BY <1>1 DEF Grown, SameTable, OneAllocatorPerSize, IInv, TypeInv

LEMMA OneAllocatorUpdate ==
  ASSUME IInv, NEW id \in 0 .. Len(_allocators), NEW a, a.m_blockSize = alloc[id].m_blockSize,
         alloc' = [alloc EXCEPT ![id] = a], _allocators' = _allocators
  PROVE  Grown /\ OneAllocatorPerSize'
<1>1. SameTable
  BY DEF SameTable, IInv, TypeInv
<1> QED
  BY <1>1, OneAllocatorKept

LEMMA OneAllocatorInserted ==
  ASSUME IInv, NEW t \in Threads, InsertAllocator(t) PROVE Grown /\ OneAllocatorPerSize'
<1> DEFINE n == Len(_allocators) + 1
<1>1. /\ th[t].size \in Sizes /\ th[t] \in ThreadSet /\ Len(_allocators) \in Nat
      /\ \A i \in 1 .. Len(_allocators) : _allocators[i] = i
      /\ DOMAIN _allocators = 1 .. Len(_allocators) /\ DOMAIN alloc = 0 .. Len(_allocators)
  BY ThreadType DEF IInv, ThreadOk, InsertAllocator, At, TypeInv
<1>2. CASE ~(Existing(t) = 0 /\ Len(_allocators) < MaxAllocators)
  BY <1>2, OneAllocatorKept DEF SameTable, InsertAllocator, Halt
<1>3. CASE Existing(t) = 0 /\ Len(_allocators) < MaxAllocators
  <2> DEFINE s == BlockSize(th[t].size)
  <2>1. s \in Nat /\ s >= PointerSize
    <3>1. s \in Nat /\ s >= th[t].size + Overhead
      BY <1>1, BlockIsLargeEnough
    <3> QED
      BY <1>1, <3>1, Numbers
  <2>2. alloc' = Put(alloc, n, NewAllocator(s, 0)) /\ _allocators' = Append(_allocators, n)
    BY <1>1, <1>3, Numbers DEF InsertAllocator
  <2>3. NewAllocator(s, 0).m_blockSize = s
    BY <2>1, NewAllocatorType
  <2>4. \A id \in 1 .. Len(_allocators) : alloc[id].m_blockSize # s
    BY <1>3, <2>1, FindsAllocator DEF IInv, Existing
  <2> HIDE DEF s
  <2>5. /\ DOMAIN _allocators' = 1 .. n /\ Len(_allocators') = n
        /\ \A i \in 1 .. n : _allocators'[i] = i
    BY <1>1, <2>2 DEF IInv, TypeInv
  <2>6. /\ alloc'[n].m_blockSize = s
        /\ \A id \in 0 .. Len(_allocators) : id \in DOMAIN alloc' /\ alloc'[id] = alloc[id]
    BY <1>1, <2>2, <2>3 DEF Put
  <2>7. \A i, j \in 1 .. Len(_allocators) : i # j => alloc[i].m_blockSize # alloc[j].m_blockSize
    BY <1>1 DEF IInv, OneAllocatorPerSize
  <2>8. OneAllocatorPerSize'
    <3> SUFFICES ASSUME NEW i \in 1 .. n, NEW j \in 1 .. n, i # j
                 PROVE  alloc'[i].m_blockSize # alloc'[j].m_blockSize
      BY <2>5 DEF OneAllocatorPerSize
    <3>1. CASE i = n
      BY <1>1, <2>4, <2>6, <3>1
    <3>2. CASE j = n
      BY <1>1, <2>4, <2>6, <3>2
    <3>3. CASE i # n /\ j # n
      BY <1>1, <2>6, <2>7, <3>3
    <3> QED
      BY <3>1, <3>2, <3>3
  <2> QED
    BY <1>1, <2>5, <2>6, <2>8 DEF Grown
<1> QED
  BY <1>2, <1>3

LEMMA OneAllocatorStep ==
  ASSUME IInv, NEW t \in Threads, Step(t) PROVE Grown /\ OneAllocatorPerSize'
<1>1. CASE xmalloc(t) \/ NewBlock(t) \/ SetHeader(t) \/ xfree(t) \/ xrealloc(t)
  BY <1>1, OneAllocatorKept DEF SameTable, xmalloc, NewBlock, SetHeader, xfree, xrealloc
<1>2. CASE PopBlock(t)
  <2>1. th[t].id \in 0 .. Len(_allocators)
    BY <1>2 DEF IInv, ThreadOk, PopBlock, At, TypeInv
  <2>2. Allocate(th[t].id).a.m_blockSize = alloc[th[t].id].m_blockSize
    BY <2>1, AllocateEffect DEF IInv
  <2>3. CASE alloc' = [alloc EXCEPT ![th[t].id] = Allocate(th[t].id).a] /\ _allocators' = _allocators
    BY <2>1, <2>2, <2>3, OneAllocatorUpdate
  <2>4. CASE UNCHANGED <<alloc, _allocators>>
    BY <2>4, OneAllocatorKept DEF SameTable
  <2> QED
    BY <1>2, <2>3, <2>4 DEF PopBlock, Halt
<1>3. CASE AccountNew(t)
  <2>1. th[t].id \in 0 .. Len(_allocators)
    BY <1>3 DEF IInv, ThreadOk, AccountNew, At, TypeInv
  <2>2. AccountAlloc(alloc[th[t].id], TRUE).m_blockSize = alloc[th[t].id].m_blockSize
    BY <2>1, AllocatorAt, AccountEffect DEF IInv
  <2> QED
    BY <1>3, <2>1, <2>2, OneAllocatorUpdate DEF AccountNew
<1>4. CASE Deallocate(t)
  <2>1. th[t].id \in 0 .. Len(_allocators) /\ th[t].block \in Block
    BY <1>4, ThreadType DEF IInv, ThreadOk, Deallocate, At, TypeInv
  <2>2. DeallocateBlock(alloc[th[t].id], th[t].block).m_blockSize = alloc[th[t].id].m_blockSize
    BY <2>1, AllocatorAt, DeallocateEffect DEF IInv
  <2> QED
    BY <1>4, <2>1, <2>2, OneAllocatorUpdate DEF Deallocate
<1>5. CASE ClassNew(t)
  <2>1. 0 \in 0 .. Len(_allocators)
    BY DEF IInv, TypeInv
  <2>2. Allocate(0).a.m_blockSize = alloc[0].m_blockSize
    BY <2>1, AllocateEffect DEF IInv
  <2>3. CASE alloc' = [alloc EXCEPT ![0] = Allocate(0).a] /\ _allocators' = _allocators
    BY <2>1, <2>2, <2>3, OneAllocatorUpdate
  <2>4. CASE UNCHANGED <<alloc, _allocators>>
    BY <2>4, OneAllocatorKept DEF SameTable
  <2> QED
    BY <1>5, <2>3, <2>4 DEF ClassNew, Halt
<1>6. CASE ClassDelete(t)
  <2>1. PICK b \in Plain :
          alloc' = [alloc EXCEPT ![0] = DeallocateBlock(@, b)] /\ _allocators' = _allocators
    BY <1>6 DEF ClassDelete
  <2>2. 0 \in 0 .. Len(_allocators) /\ b \in Block
    BY DEF IInv, TypeInv, Plain
  <2>3. DeallocateBlock(alloc[0], b).m_blockSize = alloc[0].m_blockSize
    BY <2>2, AllocatorAt, DeallocateEffect DEF IInv
  <2> QED
    BY <2>1, <2>2, <2>3, OneAllocatorUpdate
<1> QED
  BY <1>1, <1>2, <1>3, <1>4, <1>5, <1>6, OneAllocatorInserted DEF Step

-----------------------------------------------------------------------------
(***************************************************************************)
(* Every block has one owner.                                              *)
(***************************************************************************)
IsIssued(b) == \/ b[1] = Heap /\ b[2] \in 1 .. Len(heap)
               \/ /\ b[1] \in 0 .. Len(_allocators)
                  /\ b[2] \in 0 .. alloc[b[1]].m_poolIndex - 1

LEMMA IssuedIs == TypeInv => \A b \in Block : b \in Issued <=> IsIssued(b)
<1> SUFFICES ASSUME TypeInv, NEW b \in Block PROVE b \in Issued <=> IsIssued(b)
  OBVIOUS
<1>1. b = <<b[1], b[2]>> /\ DOMAIN heap = 1 .. Len(heap) /\ DOMAIN alloc = 0 .. Len(_allocators)
  BY BlockIsAPair DEF TypeInv
<1>2. ASSUME b[1] = Heap, b[2] \in 1 .. Len(heap) PROVE b \in Issued
  BY <1>1, <1>2 DEF Issued
<1>3. ASSUME b[1] \in 0 .. Len(_allocators), b[2] \in 0 .. alloc[b[1]].m_poolIndex - 1
      PROVE  b \in Issued
  BY <1>1, <1>3 DEF Issued
<1>4. ASSUME b \in Issued
      PROVE  \/ b[1] = Heap /\ b[2] \in 1 .. Len(heap)
             \/ b[1] \in 0 .. Len(_allocators) /\ b[2] \in 0 .. alloc[b[1]].m_poolIndex - 1
  <2>1. CASE b \in {<<Heap, n>> : n \in DOMAIN heap}
    BY <1>1, <2>1
  <2>2. CASE b \in UNION {{<<id, n>> : n \in 0 .. alloc[id].m_poolIndex - 1} : id \in DOMAIN alloc}
    <3>1. PICK id \in DOMAIN alloc : b \in {<<id, n>> : n \in 0 .. alloc[id].m_poolIndex - 1}
      BY <2>2
    <3> QED
      BY <1>1, <3>1
  <2> QED
    BY <1>4, <2>1, <2>2 DEF Issued
<1> QED
  BY <1>2, <1>3, <1>4 DEF IsIssued

LEMMA Owner ==
  ASSUME TypeInv, OwnInv, NEW b \in Block, NEW k \in Kinds, NEW x, Owns(k, x, b)
  PROVE  /\ b \in Issued
         /\ \A y \in DOMAIN alloc : b \in Elements(alloc[y].m_pHead) <=> k = "free" /\ y = x
         /\ b \in DOMAIN live <=> k = "live"
         /\ \A u \in Threads : th[u].block = b <=> k = "block" /\ u = x
         /\ \A u \in Threads : th[u].old = b <=> k = "old" /\ u = x
<1>1. x \in Holders /\ 0 \in Holders
  BY DEF Owns, Holders, Kinds, TypeInv
<1>2. \A l \in Kinds : \A y \in Holders : Owns(l, y, b) => l = k /\ y = x
  BY <1>1 DEF OwnInv, OneOwner
<1>3. b \in Issued
  BY <1>1 DEF OwnInv, AllOwned
<1>4. \A y \in DOMAIN alloc : b \in Elements(alloc[y].m_pHead) <=> k = "free" /\ y = x
  BY <1>2 DEF Owns, Kinds, Holders
<1>5. b \in DOMAIN live <=> k = "live"
  BY <1>1, <1>2 DEF Owns, Kinds, Holders
<1>6. \A u \in Threads : th[u].block = b <=> k = "block" /\ u = x
  BY <1>2 DEF Owns, Kinds, Holders
<1>7. \A u \in Threads : th[u].old = b <=> k = "old" /\ u = x
  BY <1>2 DEF Owns, Kinds, Holders
<1> QED
  BY <1>3, <1>4, <1>5, <1>6, <1>7

LEMMA NoOwner ==
  ASSUME TypeInv, OwnInv, NEW b \in Block, b \notin Issued
  PROVE  /\ \A y \in DOMAIN alloc : b \notin Elements(alloc[y].m_pHead)
         /\ b \notin DOMAIN live
         /\ \A u \in Threads : th[u].block # b
         /\ \A u \in Threads : th[u].old # b
<1>1. \A k \in Kinds : \A y \in Holders : ~Owns(k, y, b)
  BY DEF OwnInv, AllOwned
<1>2. 0 \in Holders
  BY DEF Holders, TypeInv
<1> QED
  BY <1>1, <1>2 DEF Owns, Kinds, Holders

\* The blocks keep their owners.
LEMMA OwnersStay ==
  ASSUME TypeInv, OwnInv, DOMAIN alloc \subseteq DOMAIN alloc',
         \A x \in DOMAIN alloc : alloc'[x].m_pHead = alloc[x].m_pHead,
         \A x \in DOMAIN alloc' \ DOMAIN alloc : alloc'[x].m_pHead = <<>>,
         DOMAIN live' = DOMAIN live,
         \A u \in Threads : th'[u].block = th[u].block /\ th'[u].old = th[u].old,
         \A c \in Block : c \in Issued' <=> c \in Issued
  PROVE  OwnInv'
<1>1. 0 \in DOMAIN alloc /\ Elements(<<>>) = {}
  BY DEF TypeInv, Elements
<1>2. \A c \in Block : \A k \in Kinds : \A x : Owns(k, x, c)' <=> Owns(k, x, c)
  BY <1>1 DEF Owns, Kinds
<1>3. \A c \in Block : \A k \in Kinds : \A x : Owns(k, x, c) => x \in Holders /\ x \in Holders'
  BY <1>1 DEF Owns, Kinds, Holders
<1>4. OneOwner'
  BY <1>2, <1>3 DEF OneOwner, OwnInv
<1>5. AllOwned'
  BY <1>2, <1>3 DEF AllOwned, OwnInv
<1>6. ListsDistinct'
  BY DEF ListsDistinct, Distinct, OwnInv
<1> QED
  BY <1>4, <1>5, <1>6 DEF OwnInv

\* One block, b, goes to the owner <<k, x>>, from another or from none.
LEMMA OwnerChanges ==
  ASSUME TypeInv, OwnInv, NEW b \in Block, NEW k \in Kinds, NEW x,
         k = "free" => x \in DOMAIN alloc, k = "live" => x = 0,
         k \in {"block", "old"} => x \in Threads,
         DOMAIN alloc' = DOMAIN alloc,
         \A y \in DOMAIN alloc : \A c \in Block :
           c \in Elements(alloc'[y].m_pHead) <=> IF c = b THEN k = "free" /\ y = x
                                                 ELSE c \in Elements(alloc[y].m_pHead),
         \A c \in Block : c \in DOMAIN live' <=> IF c = b THEN k = "live" ELSE c \in DOMAIN live,
         \A u \in Threads : \A c \in Block :
           c = th'[u].block <=> IF c = b THEN k = "block" /\ u = x ELSE c = th[u].block,
         \A u \in Threads : \A c \in Block :
           c = th'[u].old <=> IF c = b THEN k = "old" /\ u = x ELSE c = th[u].old,
         \A c \in Block : c \in Issued' <=> c \in Issued \/ c = b,
         \A y \in DOMAIN alloc : Distinct(alloc'[y].m_pHead)
  PROVE  OwnInv'
<1>1. 0 \in DOMAIN alloc
  BY DEF TypeInv
<1>2. \A c \in Block : \A l \in Kinds : \A y :
        Owns(l, y, c)' <=> IF c = b THEN l = k /\ y = x ELSE Owns(l, y, c)
  BY <1>1 DEF Owns, Kinds
<1>3. /\ x \in Holders' /\ Holders' = Holders
      /\ \A c \in Block : \A l \in Kinds : \A y : Owns(l, y, c) => y \in Holders
  BY <1>1 DEF Owns, Kinds, Holders
<1>4. OneOwner'
  BY <1>2, <1>3 DEF OneOwner, OwnInv
<1>5. AllOwned'
  BY <1>2, <1>3 DEF AllOwned, OwnInv
<1>6. ListsDistinct'
  BY DEF ListsDistinct
<1> QED
  BY <1>4, <1>5, <1>6 DEF OwnInv

LEMMA IssuedNext == TypeInv' => \A b \in Block : b \in Issued' <=> IsIssued(b)'
<1>1. (TypeInv => \A b \in Block : b \in Issued <=> IsIssued(b))'
  BY IssuedIs, PTL
<1> QED
  BY <1>1

LEMMA IssuedSame ==
  ASSUME TypeInv, TypeInv', heap' = heap, Len(_allocators) <= Len(_allocators'),
         \A x \in 0 .. Len(_allocators) : alloc'[x].m_poolIndex = alloc[x].m_poolIndex,
         \A x \in Len(_allocators) + 1 .. Len(_allocators') : alloc'[x].m_poolIndex = 0
  PROVE  \A c \in Block : c \in Issued' <=> c \in Issued
<1> SUFFICES ASSUME NEW c \in Block PROVE IsIssued(c)' <=> IsIssued(c)
  BY IssuedIs, IssuedNext
<1>1. c[1] \in Int /\ c[2] \in Int /\ Len(_allocators) \in Nat /\ Len(_allocators') \in Nat
  BY BlockIsAPair DEF TypeInv
<1>2. CASE c[1] \in 0 .. Len(_allocators)
  BY <1>1, <1>2 DEF IsIssued
<1>3. CASE c[1] \in Len(_allocators) + 1 .. Len(_allocators')
  BY <1>1, <1>3 DEF IsIssued
<1> QED
  BY <1>1, <1>2, <1>3 DEF IsIssued

\* Allocate() takes the next block of a pool.
LEMMA IssuedFromPool ==
  ASSUME TypeInv, TypeInv', heap' = heap, _allocators' = _allocators,
         NEW id \in 0 .. Len(_allocators), NEW a, alloc' = [alloc EXCEPT ![id] = a],
         a.m_poolIndex = alloc[id].m_poolIndex + 1
  PROVE  /\ <<id, alloc[id].m_poolIndex>> \in Block \ Issued
         /\ \A c \in Block : c \in Issued' <=> c \in Issued \/ c = <<id, alloc[id].m_poolIndex>>
<1> DEFINE b == <<id, alloc[id].m_poolIndex>>
<1>1. b \in Block /\ b[1] = id /\ b[2] = alloc[id].m_poolIndex /\ alloc[id].m_poolIndex \in Nat
      /\ id \in Int /\ id # Heap
  BY AllocatorAt DEF Block, Heap
<1>2. \A c \in Block : c[1] \in Int /\ c[2] \in Int /\ (c = b <=> c[1] = id /\ c[2] = alloc[id].m_poolIndex)
  BY BlockIsAPair, <1>1
<1>3. \A x \in 0 .. Len(_allocators) : alloc'[x].m_poolIndex =
        IF x = id THEN alloc[id].m_poolIndex + 1 ELSE alloc[x].m_poolIndex
  BY DEF TypeInv
<1> HIDE DEF b
<1>4. ~IsIssued(b)
  BY <1>1 DEF IsIssued
<1>5. \A c \in Block : IsIssued(c)' <=> IsIssued(c) \/ c = b
  BY <1>1, <1>2, <1>3 DEF IsIssued
<1>6. b \notin Issued /\ \A c \in Block : c \in Issued' <=> c \in Issued \/ c = b
  BY <1>1, <1>4, <1>5, IssuedIs, IssuedNext
<1> QED
  BY <1>1, <1>6 DEF b

\* new returns a block that no one has.
LEMMA IssuedFromHeap ==
  ASSUME TypeInv, TypeInv', NEW n, heap' = Append(heap, n), _allocators' = _allocators,
         \A x \in 0 .. Len(_allocators) : alloc'[x].m_poolIndex = alloc[x].m_poolIndex
  PROVE  /\ HeapBlock \in Block \ Issued
         /\ \A c \in Block : c \in Issued' <=> c \in Issued \/ c = HeapBlock
<1>1. HeapBlock \in Block /\ HeapBlock[1] = Heap /\ HeapBlock[2] = Len(heap) + 1
      /\ Len(heap) \in Nat /\ Len(heap') = Len(heap) + 1 /\ Heap = -1
  BY DEF HeapBlock, Heap, Block, TypeInv
<1>2. \A c \in Block : c[1] \in Int /\ c[2] \in Int /\ (c = HeapBlock <=> c[1] = Heap /\ c[2] = Len(heap) + 1)
  BY BlockIsAPair DEF HeapBlock
<1>3. ~IsIssued(HeapBlock)
  BY <1>1 DEF IsIssued
<1>4. \A c \in Block : IsIssued(c)' <=> IsIssued(c) \/ c = HeapBlock
  BY <1>1, <1>2 DEF IsIssued
<1> QED
  BY <1>1, <1>3, <1>4, IssuedIs, IssuedNext

LEMMA IdleHasNothing ==
  ASSUME IInv, ~halted, NEW t \in Threads, At(t, "idle")
  PROVE  th[t].block = <<>> /\ th[t].old = <<>>
BY DEF IInv, ThreadOk

\* Nothing changes but the thread's place, or the counts of its Allocator.
LEMMA OwnersSame ==
  ASSUME IInv, TypeInv', DOMAIN live' = DOMAIN live, heap' = heap, _allocators' = _allocators,
         \A x \in DOMAIN alloc : /\ alloc'[x].m_pHead = alloc[x].m_pHead
                                 /\ alloc'[x].m_poolIndex = alloc[x].m_poolIndex,
         \A u \in Threads : th'[u].block = th[u].block /\ th'[u].old = th[u].old
  PROVE  OwnInv'
<1>1. /\ DOMAIN alloc = 0 .. Len(_allocators) /\ DOMAIN alloc' = DOMAIN alloc
      /\ Len(_allocators) \in Nat
  BY DEF IInv, TypeInv
<1>2. \A c \in Block : c \in Issued' <=> c \in Issued
  BY <1>1, IssuedSame DEF IInv
<1> QED
  BY <1>1, <1>2, OwnersStay DEF IInv

LEMMA OwnXmalloc ==
  ASSUME IInv, TypeInv', ~halted, NEW t \in Threads, xmalloc(t) PROVE OwnInv'
<1>1. PICK r, q \in ThreadSet : Begun(t, r, q) /\ r.block = <<>> /\ r.old = <<>>
  BY XmallocStep
<1>2. th[t].block = <<>> /\ th[t].old = <<>>
  BY IdleHasNothing DEF xmalloc, Calls
<1>3. \A u \in Threads : th'[u].block = th[u].block /\ th'[u].old = th[u].old
  BY <1>1, <1>2 DEF Begun, IInv, TypeInv
<1> QED
  BY <1>3, OwnersSame DEF xmalloc

LEMMA OwnInsertAllocator ==
  ASSUME IInv, TypeInv', NEW t \in Threads, InsertAllocator(t) PROVE OwnInv'
<1> DEFINE n == Len(_allocators) + 1
<1>1. /\ th[t].size \in Sizes /\ th[t] \in ThreadSet /\ Len(_allocators) \in Nat
      /\ DOMAIN alloc = 0 .. Len(_allocators)
  BY ThreadType DEF IInv, ThreadOk, InsertAllocator, At, TypeInv
<1>2. \A u \in Threads : th'[u].block = th[u].block /\ th'[u].old = th[u].old
  <2>1. CASE UNCHANGED th
    BY <2>1
  <2>2. CASE \E id : th' = [th EXCEPT ![t] = [th[t] EXCEPT !.at = "pop", !.id = id]]
    BY <1>1, <2>2 DEF IInv, TypeInv, ThreadSet
  <2> QED
    BY <2>1, <2>2 DEF InsertAllocator, Go
<1>3. CASE ~(Existing(t) = 0 /\ Len(_allocators) < MaxAllocators)
  <2>1. UNCHANGED <<_allocators, alloc, heap, live>>
    BY <1>3 DEF InsertAllocator, Halt
  <2> QED
    BY <1>2, <2>1, OwnersSame
<1>4. CASE Existing(t) = 0 /\ Len(_allocators) < MaxAllocators
  <2> DEFINE s == BlockSize(th[t].size)
  <2>1. s \in Nat
    BY <1>1, BlockIsLargeEnough
  <2>2. /\ alloc' = Put(alloc, n, NewAllocator(s, 0)) /\ _allocators' = Append(_allocators, n)
        /\ UNCHANGED <<heap, live>>
    BY <1>1, <1>4, Numbers DEF InsertAllocator
  <2>3. NewAllocator(s, 0).m_pHead = <<>> /\ NewAllocator(s, 0).m_poolIndex = 0
    BY <2>1, NewAllocatorType
  <2> HIDE DEF s
  <2>4. Len(_allocators') = n
    BY <1>1, <2>2 DEF IInv, TypeInv
  <2>5. /\ DOMAIN alloc' = DOMAIN alloc \cup {n} /\ alloc'[n] = NewAllocator(s, 0)
        /\ \A x \in DOMAIN alloc : alloc'[x] = alloc[x]
    BY <1>1, <2>2 DEF Put
  <2>6. \A c \in Block : c \in Issued' <=> c \in Issued
    <3>1. \A x \in Len(_allocators) + 1 .. Len(_allocators') : x = n
      BY <1>1, <2>4
    <3> QED
      BY <1>1, <2>2, <2>3, <2>4, <2>5, <3>1, IssuedSame DEF IInv
  <2> QED
    BY <1>2, <2>2, <2>3, <2>5, <2>6, OwnersStay DEF IInv
<1> QED
  BY <1>3, <1>4

LEMMA OwnAccountNew ==
  ASSUME IInv, TypeInv', NEW t \in Threads, AccountNew(t) PROVE OwnInv'
<1>1. th[t].id \in 0 .. Len(_allocators) /\ th[t] \in ThreadSet
  BY ThreadType DEF IInv, ThreadOk, AccountNew, At, TypeInv
<1>2. /\ AccountAlloc(alloc[th[t].id], TRUE).m_pHead = alloc[th[t].id].m_pHead
      /\ AccountAlloc(alloc[th[t].id], TRUE).m_poolIndex = alloc[th[t].id].m_poolIndex
  BY <1>1, AllocatorAt, AccountEffect DEF IInv
<1>3. \A x \in DOMAIN alloc : /\ alloc'[x].m_pHead = alloc[x].m_pHead
                              /\ alloc'[x].m_poolIndex = alloc[x].m_poolIndex
  BY <1>2 DEF AccountNew, IInv, TypeInv
<1>4. \A u \in Threads : th'[u].block = th[u].block /\ th'[u].old = th[u].old
  BY <1>1 DEF AccountNew, Go, IInv, TypeInv, ThreadSet
<1> QED
  BY <1>3, <1>4, OwnersSame DEF AccountNew

LEMMA OwnNewBlock ==
  ASSUME IInv, TypeInv', NEW t \in Threads, NewBlock(t) PROVE OwnInv'
<1> DEFINE b == HeapBlock
<1>1. /\ th[t].block = <<>> /\ th[t] \in ThreadSet /\ DOMAIN alloc = 0 .. Len(_allocators)
  BY ThreadType DEF IInv, ThreadOk, NewBlock, At, TypeInv
<1>2. /\ b \in Block \ Issued /\ \A c \in Block : c \in Issued' <=> c \in Issued \/ c = b
  BY IssuedFromHeap DEF NewBlock, IInv
<1>3. /\ th' = [th EXCEPT ![t] = [th[t] EXCEPT !.at = "account", !.block = b]]
      /\ UNCHANGED <<_allocators, alloc, live>>
  BY DEF NewBlock, Go
<1> HIDE DEF b
<1>4. \A u \in Threads : /\ th'[u].block = IF u = t THEN b ELSE th[u].block
                         /\ th'[u].old = th[u].old
  BY <1>1, <1>3 DEF IInv, TypeInv, ThreadSet
<1>5. /\ \A y \in DOMAIN alloc : b \notin Elements(alloc[y].m_pHead)
      /\ b \notin DOMAIN live
      /\ \A u \in Threads : th[u].block # b /\ th[u].old # b
  BY <1>2, NoOwner DEF IInv
<1>6. \A y \in DOMAIN alloc : Distinct(alloc'[y].m_pHead)
  BY <1>3 DEF IInv, OwnInv, ListsDistinct
<1>7. \A u \in Threads : \A c \in Block :
        c = th'[u].block <=> IF c = b THEN u = t ELSE c = th[u].block
  BY <1>1, <1>4, <1>5, BlockIsAPair
<1>8. \A u \in Threads : \A c \in Block :
        c = th'[u].old <=> IF c = b THEN FALSE ELSE c = th[u].old
  BY <1>4, <1>5
<1> QED
  BY <1>2, <1>3, <1>5, <1>6, <1>7, <1>8, OwnerChanges DEF IInv, Kinds

\* The block that Allocate() returns was on the list of its Allocator, or nowhere.
LEMMA AllocateOwner ==
  ASSUME IInv, TypeInv', NEW id \in 0 .. Len(_allocators), ~Exhausted(alloc[id]),
         alloc' = [alloc EXCEPT ![id] = Allocate(id).a], _allocators' = _allocators,
         heap' = HeapAfter(id)
  PROVE  LET b == Allocate(id).block
         IN /\ b \in Block /\ b \notin DOMAIN live
            /\ \A u \in Threads : th[u].block # b /\ th[u].old # b
            /\ \A y \in DOMAIN alloc : \A c \in Block :
                 c \in Elements(alloc'[y].m_pHead) <=> c # b /\ c \in Elements(alloc[y].m_pHead)
            /\ \A y \in DOMAIN alloc : Distinct(alloc'[y].m_pHead)
            /\ \A c \in Block : c \in Issued' <=> c \in Issued \/ c = b
<1> DEFINE a == alloc[id]
           b == Allocate(id).block
           d == Allocate(id).a
           Result ==
             /\ b \in Block /\ b \notin DOMAIN live
             /\ \A u \in Threads : th[u].block # b /\ th[u].old # b
             /\ \A y \in DOMAIN alloc : \A c \in Block :
                  c \in Elements(alloc'[y].m_pHead) <=> c # b /\ c \in Elements(alloc[y].m_pHead)
             /\ \A y \in DOMAIN alloc : Distinct(alloc'[y].m_pHead)
             /\ \A c \in Block : c \in Issued' <=> c \in Issued \/ c = b
<1> SUFFICES Result
  OBVIOUS
<1>1. /\ id \in DOMAIN alloc /\ a.m_pHead \in Seq(Block) /\ DOMAIN alloc = 0 .. Len(_allocators)
      /\ Len(_allocators) \in Nat
  BY AllocatorAt DEF IInv, TypeInv
<1>2. b \in Block
  BY AllocateEffect DEF IInv
<1>3. /\ alloc'[id] = d /\ DOMAIN alloc' = DOMAIN alloc
      /\ \A y \in DOMAIN alloc : y # id => alloc'[y] = alloc[y]
  BY <1>1
<1>4. /\ \A y \in DOMAIN alloc : Distinct(alloc[y].m_pHead)
      /\ TypeInv /\ OwnInv
  BY DEF IInv, OwnInv, ListsDistinct
<1>5. CASE HasFree(a)
  <2>1. b = a.m_pHead[1] /\ d.m_pHead = Tail(a.m_pHead) /\ d.m_poolIndex = a.m_poolIndex
    BY <1>5, AllocateEffect DEF IInv
  <2>2. heap' = heap
    BY <1>5 DEF HeapAfter
  <2>3. /\ \A c : c \in Elements(a.m_pHead) <=> c = b \/ c \in Elements(d.m_pHead)
        /\ Distinct(d.m_pHead) /\ b \notin Elements(d.m_pHead)
    BY <1>1, <1>4, <1>5, <2>1, PoppedList DEF HasFree
  <2>4. Owns("free", id, b) /\ "free" \in Kinds
    BY <1>1, <2>3 DEF Owns, Kinds
  <2> HIDE DEF a, b, d
  <2>5. /\ b \in Issued /\ b \notin DOMAIN live
        /\ \A y \in DOMAIN alloc : b \in Elements(alloc[y].m_pHead) <=> y = id
        /\ \A u \in Threads : th[u].block # b /\ th[u].old # b
    BY <1>2, <1>4, <2>4, Owner
  <2>6. \A y \in DOMAIN alloc : \A c \in Block :
          c \in Elements(alloc'[y].m_pHead) <=> c # b /\ c \in Elements(alloc[y].m_pHead)
    <3> SUFFICES ASSUME NEW y \in DOMAIN alloc, NEW c \in Block
                 PROVE  c \in Elements(alloc'[y].m_pHead) <=> c # b /\ c \in Elements(alloc[y].m_pHead)
      OBVIOUS
    <3>1. CASE y = id
      BY <1>3, <2>3, <3>1 DEF a
    <3>2. CASE y # id
      BY <1>3, <2>5, <3>2
    <3> QED
      BY <3>1, <3>2
  <2>7. \A y \in DOMAIN alloc : Distinct(alloc'[y].m_pHead)
    BY <1>3, <1>4, <2>3
  <2>8. \A c \in Block : c \in Issued' <=> c \in Issued
    <3>1. \A x \in 0 .. Len(_allocators) : alloc'[x].m_poolIndex = alloc[x].m_poolIndex
      BY <1>1, <1>3, <2>1 DEF a
    <3> QED
      BY <1>1, <1>4, <2>2, <3>1, IssuedSame
  <2> QED
    BY <1>2, <2>5, <2>6, <2>7, <2>8
<1>6. CASE ~HasFree(a)
  <2>1. d.m_pHead = a.m_pHead
    BY <1>6, AllocateEffect DEF IInv
  <2>2. b \notin Issued /\ \A c \in Block : c \in Issued' <=> c \in Issued \/ c = b
    <3>1. CASE HasRoom(a)
      <4>1. heap' = heap
        BY <3>1 DEF HeapAfter, HasRoom, UsesHeap
      <4>2. b = <<id, a.m_poolIndex>> /\ d.m_poolIndex = a.m_poolIndex + 1
        BY <1>6, <3>1, AllocateEffect DEF IInv
      <4> HIDE DEF d
      <4> QED
        BY <1>4, <4>1, <4>2, IssuedFromPool DEF d
    <3>2. CASE ~HasRoom(a)
      <4>1. heap' = Append(heap, a.m_blockSize)
        BY <1>6, <3>2 DEF HeapAfter, Exhausted
      <4>2. b = HeapBlock /\ d.m_poolIndex = a.m_poolIndex
        BY <1>6, <3>2, AllocateEffect DEF IInv
      <4>3. \A x \in 0 .. Len(_allocators) : alloc'[x].m_poolIndex = alloc[x].m_poolIndex
        BY <1>1, <1>3, <4>2
      <4> QED
        BY <1>4, <4>1, <4>2, <4>3, IssuedFromHeap
    <3> QED
      BY <3>1, <3>2
  <2> HIDE DEF a, b, d
  <2>3. /\ \A y \in DOMAIN alloc : b \notin Elements(alloc[y].m_pHead)
        /\ b \notin DOMAIN live /\ \A u \in Threads : th[u].block # b /\ th[u].old # b
    BY <1>2, <1>4, <2>2, NoOwner
  <2>4. \A y \in DOMAIN alloc : alloc'[y].m_pHead = alloc[y].m_pHead
    BY <1>3, <2>1 DEF a
  <2> QED
    BY <1>2, <1>4, <2>2, <2>3, <2>4
<1> QED
  BY <1>5, <1>6

\* A block that is on no list goes to that of its Allocator.
LEMMA DeallocateOwner ==
  ASSUME IInv, TypeInv', NEW id \in 0 .. Len(_allocators), NEW b \in Block,
         alloc' = [alloc EXCEPT ![id] = DeallocateBlock(alloc[id], b)],
         _allocators' = _allocators, heap' = heap,
         \A y \in DOMAIN alloc : b \notin Elements(alloc[y].m_pHead)
  PROVE  /\ \A y \in DOMAIN alloc : \A c \in Block :
              c \in Elements(alloc'[y].m_pHead) <=> IF c = b THEN y = id
                                                    ELSE c \in Elements(alloc[y].m_pHead)
         /\ \A y \in DOMAIN alloc : Distinct(alloc'[y].m_pHead)
         /\ \A c \in Block : c \in Issued' <=> c \in Issued
<1> DEFINE a == alloc[id]
           d == DeallocateBlock(alloc[id], b)
<1>1. /\ id \in DOMAIN alloc /\ a \in AllocatorSet /\ a.m_pHead \in Seq(Block)
      /\ DOMAIN alloc = 0 .. Len(_allocators) /\ Len(_allocators) \in Nat
  BY AllocatorAt DEF IInv, TypeInv
<1>2. d.m_pHead = <<b>> \o a.m_pHead /\ d.m_poolIndex = a.m_poolIndex
  BY <1>1, DeallocateEffect
<1>3. /\ alloc'[id] = d /\ DOMAIN alloc' = DOMAIN alloc
      /\ \A y \in DOMAIN alloc : y # id => alloc'[y] = alloc[y]
  BY <1>1
<1>4. \A y \in DOMAIN alloc : Distinct(alloc[y].m_pHead)
  BY DEF IInv, OwnInv, ListsDistinct
<1>5. /\ \A c : c \in Elements(d.m_pHead) <=> c = b \/ c \in Elements(a.m_pHead)
      /\ Distinct(d.m_pHead)
  BY <1>1, <1>2, <1>4, PushedList
<1>6. \A x \in 0 .. Len(_allocators) : alloc'[x].m_poolIndex = alloc[x].m_poolIndex
  BY <1>1, <1>2, <1>3
<1>7. \A c \in Block : c \in Issued' <=> c \in Issued
  BY <1>1, <1>6, IssuedSame DEF IInv
<1> HIDE DEF d
<1>8. \A y \in DOMAIN alloc : Distinct(alloc'[y].m_pHead)
  BY <1>3, <1>4, <1>5
<1>9. \A y \in DOMAIN alloc : \A c \in Block :
        c \in Elements(alloc'[y].m_pHead) <=> IF c = b THEN y = id
                                              ELSE c \in Elements(alloc[y].m_pHead)
  BY <1>3, <1>5
<1> QED
  BY <1>7, <1>8, <1>9

LEMMA OwnPopBlock ==
  ASSUME IInv, TypeInv', NEW t \in Threads, PopBlock(t) PROVE OwnInv'
<1> DEFINE id == th[t].id
           b  == Allocate(id).block
<1>1. /\ id \in 0 .. Len(_allocators) /\ th[t] \in ThreadSet /\ th[t].block = <<>>
      /\ DOMAIN alloc = 0 .. Len(_allocators)
  BY ThreadType DEF IInv, ThreadOk, PopBlock, At, TypeInv
<1>2. CASE HasFree(alloc[id]) \/ HasRoom(alloc[id])
  <2>1. /\ alloc' = [alloc EXCEPT ![id] = Allocate(id).a]
        /\ th' = [th EXCEPT ![t] = [th[t] EXCEPT !.at = "header", !.block = b]]
        /\ UNCHANGED <<_allocators, heap, live>>
    BY <1>2 DEF PopBlock, Go, Exhausted, HasRoom, UsesHeap
  <2>2. ~Exhausted(alloc[id]) /\ heap' = HeapAfter(id)
    BY <1>2, <2>1 DEF Exhausted, HeapAfter, HasRoom, UsesHeap
  <2>3. /\ b \in Block /\ b \notin DOMAIN live
        /\ \A u \in Threads : th[u].block # b /\ th[u].old # b
        /\ \A y \in DOMAIN alloc : \A c \in Block :
             c \in Elements(alloc'[y].m_pHead) <=> c # b /\ c \in Elements(alloc[y].m_pHead)
        /\ \A y \in DOMAIN alloc : Distinct(alloc'[y].m_pHead)
        /\ \A c \in Block : c \in Issued' <=> c \in Issued \/ c = b
    BY <1>1, <2>1, <2>2, AllocateOwner
  <2> HIDE DEF b
  <2>4. \A u \in Threads : /\ th'[u].block = IF u = t THEN b ELSE th[u].block
                           /\ th'[u].old = th[u].old
    BY <1>1, <2>1 DEF IInv, TypeInv, ThreadSet
  <2>5. \A u \in Threads : \A c \in Block :
          c = th'[u].block <=> IF c = b THEN u = t ELSE c = th[u].block
    BY <1>1, <2>3, <2>4, BlockIsAPair
  <2>6. \A u \in Threads : \A c \in Block :
          c = th'[u].old <=> IF c = b THEN FALSE ELSE c = th[u].old
    BY <2>3, <2>4
  <2>7. DOMAIN alloc' = DOMAIN alloc /\ DOMAIN live' = DOMAIN live
    BY <1>1, <2>1
  <2> QED
    BY <2>3, <2>5, <2>6, <2>7, OwnerChanges DEF IInv, Kinds
<1>3. CASE ~HasFree(alloc[id]) /\ ~HasRoom(alloc[id])
  <2>1. UNCHANGED <<_allocators, alloc, heap, live>>
    BY <1>3 DEF PopBlock, Halt
  <2>2. UNCHANGED th \/ th' = [th EXCEPT ![t] = [th[t] EXCEPT !.at = "new"]]
    BY <1>3 DEF PopBlock, Go
  <2>3. \A u \in Threads : th'[u].block = th[u].block /\ th'[u].old = th[u].old
    <3>1. CASE UNCHANGED th
      BY <3>1
    <3>2. CASE th' = [th EXCEPT ![t] = [th[t] EXCEPT !.at = "new"]]
      BY <1>1, <3>2 DEF IInv, TypeInv, ThreadSet
    <3> QED
      BY <2>2, <3>1, <3>2
  <2> QED
    BY <2>1, <2>3, OwnersSame
<1> QED
  BY <1>2, <1>3

LEMMA OwnXfree ==
  ASSUME IInv, TypeInv', ~halted, NEW t \in Threads, xfree(t) PROVE OwnInv'
<1>1. PICK b \in DOMAIN live \ Plain :
        /\ live' = Without(live, b)
        /\ th' = [th EXCEPT ![t] = [Idle EXCEPT !.at = "free", !.block = b, !.id = header[b]]]
  BY DEF xfree, Go
<1>2. b \in Block /\ Owns("live", 0, b) /\ "live" \in Kinds
  BY DEF IInv, TypeInv, Owns, Kinds
<1>3. /\ b \in Issued
      /\ \A y \in DOMAIN alloc : b \notin Elements(alloc[y].m_pHead)
      /\ \A u \in Threads : th[u].block # b /\ th[u].old # b
  BY <1>2, Owner DEF IInv
<1>4. th[t].block = <<>> /\ th[t].old = <<>>
  BY IdleHasNothing DEF xfree, Calls
<1>5. \A u \in Threads : /\ th'[u].block = IF u = t THEN b ELSE th[u].block
                         /\ th'[u].old = th[u].old
  BY <1>1, <1>4 DEF IInv, TypeInv, Idle
<1>6. \A u \in Threads : \A c \in Block :
        c = th'[u].block <=> IF c = b THEN u = t ELSE c = th[u].block
  BY <1>3, <1>4, <1>5, BlockIsAPair
<1>7. \A u \in Threads : \A c \in Block :
        c = th'[u].old <=> IF c = b THEN FALSE ELSE c = th[u].old
  BY <1>3, <1>5
<1>8. \A c \in Block : c \in DOMAIN live' <=> IF c = b THEN FALSE ELSE c \in DOMAIN live
  BY <1>1 DEF Without
<1>9. UNCHANGED <<_allocators, alloc, heap>>
  BY DEF xfree
<1>10. \A c \in Block : c \in Issued' <=> c \in Issued \/ c = b
  BY <1>3, <1>9 DEF Issued
<1>11. \A y \in DOMAIN alloc : Distinct(alloc'[y].m_pHead)
  BY <1>9 DEF IInv, OwnInv, ListsDistinct
<1> QED
  BY <1>2, <1>3, <1>6, <1>7, <1>8, <1>9, <1>10, <1>11, OwnerChanges DEF IInv, Kinds

LEMMA OwnXrealloc ==
  ASSUME IInv, TypeInv', ~halted, NEW t \in Threads, xrealloc(t) PROVE OwnInv'
<1>1. PICK b \in DOMAIN live \ Plain : \E r, q \in ThreadSet :
        live' = Without(live, b) /\ Begun(t, r, q) /\ r.block = <<>> /\ r.old = b
  BY XreallocStep
<1>2. b \in Block /\ Owns("live", 0, b) /\ "live" \in Kinds
  BY DEF IInv, TypeInv, Owns, Kinds
<1>3. /\ b \in Issued
      /\ \A y \in DOMAIN alloc : b \notin Elements(alloc[y].m_pHead)
      /\ \A u \in Threads : th[u].block # b /\ th[u].old # b
  BY <1>2, Owner DEF IInv
<1>4. th[t].block = <<>> /\ th[t].old = <<>>
  BY IdleHasNothing DEF xrealloc, Calls
<1>5. \A u \in Threads : /\ th'[u].block = th[u].block
                         /\ th'[u].old = IF u = t THEN b ELSE th[u].old
  <2>1. PICK r, q \in ThreadSet : Begun(t, r, q) /\ r.block = <<>> /\ r.old = b
    BY <1>1
  <2> QED
    BY <1>4, <2>1 DEF Begun, IInv, TypeInv
<1>6. \A u \in Threads : \A c \in Block :
        c = th'[u].block <=> IF c = b THEN FALSE ELSE c = th[u].block
  BY <1>3, <1>5
<1>7. \A u \in Threads : \A c \in Block :
        c = th'[u].old <=> IF c = b THEN u = t ELSE c = th[u].old
  BY <1>3, <1>4, <1>5, BlockIsAPair
<1>8. \A c \in Block : c \in DOMAIN live' <=> IF c = b THEN FALSE ELSE c \in DOMAIN live
  BY <1>1 DEF Without
<1>9. UNCHANGED <<_allocators, alloc, heap>>
  BY DEF xrealloc
<1>10. \A c \in Block : c \in Issued' <=> c \in Issued \/ c = b
  BY <1>3, <1>9 DEF Issued
<1>11. \A y \in DOMAIN alloc : Distinct(alloc'[y].m_pHead)
  BY <1>9 DEF IInv, OwnInv, ListsDistinct
<1> QED
  BY <1>2, <1>3, <1>6, <1>7, <1>8, <1>9, <1>10, <1>11, OwnerChanges DEF IInv, Kinds

LEMMA OwnDeallocate ==
  ASSUME IInv, TypeInv', NEW t \in Threads, Deallocate(t) PROVE OwnInv'
<1> DEFINE b  == th[t].block
           id == th[t].id
<1>1. /\ b \in Block /\ id \in 0 .. Len(_allocators) /\ th[t].old = <<>>
      /\ DOMAIN alloc = 0 .. Len(_allocators)
  BY ThreadType DEF IInv, ThreadOk, Deallocate, At, TypeInv
<1>2. Owns("block", t, b) /\ "block" \in Kinds
  BY DEF Owns, Kinds
<1>3. /\ b \in Issued /\ b \notin DOMAIN live
      /\ \A y \in DOMAIN alloc : b \notin Elements(alloc[y].m_pHead)
      /\ \A u \in Threads : (th[u].block = b <=> u = t) /\ th[u].old # b
  BY <1>1, <1>2, Owner DEF IInv
<1>4. /\ alloc' = [alloc EXCEPT ![id] = DeallocateBlock(alloc[id], b)]
      /\ th' = [th EXCEPT ![t] = Idle]
      /\ UNCHANGED <<_allocators, heap, live>>
  BY <1>1 DEF Deallocate, Go
<1>5. \A u \in Threads : /\ th'[u].block = IF u = t THEN <<>> ELSE th[u].block
                         /\ th'[u].old = th[u].old
  BY <1>1, <1>4 DEF IInv, TypeInv, Idle
<1>6. /\ \A y \in DOMAIN alloc : \A c \in Block :
           c \in Elements(alloc'[y].m_pHead) <=> IF c = b THEN y = id
                                                 ELSE c \in Elements(alloc[y].m_pHead)
      /\ \A y \in DOMAIN alloc : Distinct(alloc'[y].m_pHead)
      /\ \A c \in Block : c \in Issued' <=> c \in Issued
  BY <1>1, <1>3, <1>4, DeallocateOwner
<1> HIDE DEF b
<1>7. \A u \in Threads : \A c \in Block :
        c = th'[u].block <=> IF c = b THEN FALSE ELSE c = th[u].block
  BY <1>3, <1>5, BlockIsAPair DEF b
<1>8. \A u \in Threads : \A c \in Block :
        c = th'[u].old <=> IF c = b THEN FALSE ELSE c = th[u].old
  BY <1>3, <1>5
<1>9. \A c \in Block : c \in DOMAIN live' <=> IF c = b THEN FALSE ELSE c \in DOMAIN live
  BY <1>3, <1>4
<1>10. \A c \in Block : c \in Issued' <=> c \in Issued \/ c = b
  BY <1>3, <1>6
<1>11. DOMAIN alloc' = DOMAIN alloc /\ id \in DOMAIN alloc /\ "free" \in Kinds /\ TypeInv /\ OwnInv
  BY <1>1, <1>4 DEF Kinds, IInv
<1> HIDE DEF id
<1> QED
  BY <1>1, <1>6, <1>7, <1>8, <1>9, <1>10, <1>11, OwnerChanges

LEMMA OwnSetHeader ==
  ASSUME IInv, TypeInv', NEW t \in Threads, SetHeader(t) PROVE OwnInv'
<1> DEFINE b == th[t].block
           o == th[t].old
<1>1. /\ b \in Block /\ (o = <<>> \/ o \in Block) /\ DOMAIN alloc = 0 .. Len(_allocators)
      /\ TypeInv /\ OwnInv
  BY ThreadType DEF IInv, ThreadOk, SetHeader, At, TypeInv
<1>2. Owns("block", t, b) /\ "block" \in Kinds /\ "live" \in Kinds /\ "old" \in Kinds
  BY DEF Owns, Kinds
<1>3. /\ b \in Issued /\ b \notin DOMAIN live
      /\ \A y \in DOMAIN alloc : b \notin Elements(alloc[y].m_pHead)
      /\ \A u \in Threads : (th[u].block = b <=> u = t) /\ th[u].old # b
  BY <1>1, <1>2, Owner
<1>4. /\ UNCHANGED <<_allocators, alloc, heap>> /\ DOMAIN live' = DOMAIN live \cup {b}
      /\ DOMAIN th = Threads /\ 0 \in DOMAIN alloc
  BY DEF SetHeader, Put, IInv, TypeInv
<1>5. /\ \A c \in Block : c \in Issued' <=> c \in Issued
      /\ \A y \in DOMAIN alloc : Distinct(alloc'[y].m_pHead)
      /\ ListsDistinct'
  BY <1>1, <1>4 DEF Issued, OwnInv, ListsDistinct
<1>6. CASE o = <<>>
  <2>1. th' = [th EXCEPT ![t] = Idle]
    BY <1>6 DEF SetHeader, Go
  <2>2. \A u \in Threads : /\ th'[u].block = IF u = t THEN <<>> ELSE th[u].block
                           /\ th'[u].old = th[u].old
    BY <1>4, <1>6, <2>1 DEF Idle
  <2> HIDE DEF b, o
  <2>3. \A u \in Threads : \A c \in Block :
          c = th'[u].block <=> IF c = b THEN FALSE ELSE c = th[u].block
    BY <1>3, <2>2, BlockIsAPair DEF b
  <2>4. \A u \in Threads : \A c \in Block :
          c = th'[u].old <=> IF c = b THEN FALSE ELSE c = th[u].old
    BY <1>3, <2>2
  <2>5. \A c \in Block : c \in DOMAIN live' <=> IF c = b THEN TRUE ELSE c \in DOMAIN live
    BY <1>4
  <2>6. \A c \in Block : c \in Issued' <=> c \in Issued \/ c = b
    BY <1>3, <1>5
  <2> QED
    BY <1>1, <1>2, <1>3, <1>4, <1>5, <2>3, <2>4, <2>5, <2>6, OwnerChanges
<1>7. CASE o # <<>>
  <2>1. th' = [th EXCEPT ![t] = [Idle EXCEPT !.at = "free", !.block = o, !.id = header[o]]]
    BY <1>7 DEF SetHeader, Go
  <2>2. \A u \in Threads : /\ th'[u].block = IF u = t THEN o ELSE th[u].block
                           /\ th'[u].old = IF u = t THEN <<>> ELSE th[u].old
    BY <1>4, <2>1 DEF Idle
  <2>3. o \in Block /\ Owns("old", t, o)
    BY <1>1, <1>7 DEF Owns
  <2>4. /\ o \in Issued /\ o \notin DOMAIN live
        /\ \A y \in DOMAIN alloc : o \notin Elements(alloc[y].m_pHead)
        /\ \A u \in Threads : (th[u].old = o <=> u = t) /\ th[u].block # o
    BY <1>1, <1>2, <2>3, Owner
  <2>5. o # b
    BY <1>3
  <2> HIDE DEF b, o
  <2>6. \A c \in Block : \A k \in Kinds : \A x :
          Owns(k, x, c)' <=> IF c = b THEN k = "live" /\ x = 0
                             ELSE IF c = o THEN k = "block" /\ x = t ELSE Owns(k, x, c)
    <3> SUFFICES ASSUME NEW c \in Block, NEW k \in Kinds, NEW x
                 PROVE  Owns(k, x, c)' <=> IF c = b THEN k = "live" /\ x = 0
                                           ELSE IF c = o THEN k = "block" /\ x = t ELSE Owns(k, x, c)
      OBVIOUS
    <3>1. CASE k = "free"
      BY <1>3, <1>4, <2>4, <3>1 DEF Owns
    <3>2. CASE k = "live"
      BY <1>4, <2>4, <3>2 DEF Owns
    <3>3. CASE k = "block"
      BY <1>3, <2>2, <2>4, <2>5, <3>3 DEF Owns, b
    <3>4. CASE k = "old"
      BY <1>3, <2>2, <2>4, <3>4, BlockIsAPair DEF Owns
    <3> QED
      BY <3>1, <3>2, <3>3, <3>4 DEF Kinds
  <2>7. /\ 0 \in Holders' /\ t \in Holders' /\ Holders' = Holders
        /\ \A c \in Block : \A l \in Kinds : \A y : Owns(l, y, c) => y \in Holders
    BY <1>4 DEF Owns, Kinds, Holders
  <2>8. OneOwner'
    BY <1>1, <2>6, <2>7 DEF OneOwner, OwnInv
  <2>9. AllOwned'
    BY <1>1, <1>2, <1>3, <1>5, <2>4, <2>6, <2>7 DEF AllOwned, OwnInv
  <2> QED
    BY <1>5, <2>8, <2>9 DEF OwnInv
<1> QED
  BY <1>6, <1>7

LEMMA OwnClassNew ==
  ASSUME IInv, TypeInv', NEW t \in Threads, ClassNew(t) PROVE OwnInv'
<1>1. 0 \in 0 .. Len(_allocators) /\ UNCHANGED <<th, _allocators>> /\ TypeInv /\ OwnInv
      /\ DOMAIN alloc = 0 .. Len(_allocators) /\ "live" \in Kinds
  BY DEF ClassNew, Halt, IInv, TypeInv, Kinds
<1>2. CASE Exhausted(alloc[0])
  BY <1>1, <1>2, OwnersSame DEF ClassNew, Halt
<1>3. CASE ~Exhausted(alloc[0])
  <2> DEFINE b == Allocate(0).block
  <2>1. /\ alloc' = [alloc EXCEPT ![0] = Allocate(0).a] /\ heap' = HeapAfter(0)
        /\ DOMAIN live' = DOMAIN live \cup {b}
    BY <1>3 DEF ClassNew, Put
  <2>2. /\ b \in Block /\ b \notin DOMAIN live
        /\ \A u \in Threads : th[u].block # b /\ th[u].old # b
        /\ \A y \in DOMAIN alloc : \A c \in Block :
             c \in Elements(alloc'[y].m_pHead) <=> c # b /\ c \in Elements(alloc[y].m_pHead)
        /\ \A y \in DOMAIN alloc : Distinct(alloc'[y].m_pHead)
        /\ \A c \in Block : c \in Issued' <=> c \in Issued \/ c = b
    BY <1>1, <1>3, <2>1, AllocateOwner
  <2>3. DOMAIN alloc' = DOMAIN alloc
    BY <1>1, <2>1
  <2> HIDE DEF b
  <2> QED
    BY <1>1, <2>1, <2>2, <2>3, OwnerChanges
<1> QED
  BY <1>2, <1>3

LEMMA OwnClassDelete ==
  ASSUME IInv, TypeInv', NEW t \in Threads, ClassDelete(t) PROVE OwnInv'
<1>1. PICK b \in Plain : /\ live' = Without(live, b)
                         /\ alloc' = [alloc EXCEPT ![0] = DeallocateBlock(@, b)]
  BY DEF ClassDelete
<1>2. /\ b \in Block /\ b \in DOMAIN live /\ 0 \in 0 .. Len(_allocators) /\ TypeInv /\ OwnInv
      /\ DOMAIN alloc = 0 .. Len(_allocators) /\ UNCHANGED <<th, _allocators, heap>>
      /\ DOMAIN live' = DOMAIN live \ {b}
  <2>1. b \in Block /\ b \in DOMAIN live /\ DOMAIN live' = DOMAIN live \ {b}
    BY <1>1 DEF Plain, Without, IInv, TypeInv
  <2>2. UNCHANGED <<th, _allocators, heap>>
    BY DEF ClassDelete
  <2> QED
    BY <2>1, <2>2 DEF IInv, TypeInv
<1>3. Owns("live", 0, b) /\ "live" \in Kinds /\ "free" \in Kinds
  BY <1>2 DEF Owns, Kinds
<1>4. /\ b \in Issued
      /\ \A y \in DOMAIN alloc : b \notin Elements(alloc[y].m_pHead)
      /\ \A u \in Threads : th[u].block # b /\ th[u].old # b
  BY <1>2, <1>3, Owner
<1>5. alloc' = [alloc EXCEPT ![0] = DeallocateBlock(alloc[0], b)]
  BY <1>1
<1>6. /\ \A y \in DOMAIN alloc : \A c \in Block :
           c \in Elements(alloc'[y].m_pHead) <=> IF c = b THEN y = 0
                                                 ELSE c \in Elements(alloc[y].m_pHead)
      /\ \A y \in DOMAIN alloc : Distinct(alloc'[y].m_pHead)
      /\ \A c \in Block : c \in Issued' <=> c \in Issued
  BY <1>2, <1>4, <1>5, DeallocateOwner
<1>7. DOMAIN alloc' = DOMAIN alloc
  BY <1>2, <1>5
<1> QED
  BY <1>2, <1>3, <1>4, <1>6, <1>7, OwnerChanges

LEMMA OwnNext == IInv /\ [Next]_vars => OwnInv'
<1> SUFFICES ASSUME IInv, [Next]_vars PROVE OwnInv'
  OBVIOUS
<1>1. TypeInv'
  BY TypeNext
<1>2. CASE UNCHANGED vars
  BY <1>1, <1>2, OwnersSame DEF vars
<1>3. ASSUME NEW t \in Threads, ~halted, Step(t) PROVE OwnInv'
  BY <1>1, <1>3, OwnXmalloc, OwnInsertAllocator, OwnPopBlock, OwnNewBlock, OwnAccountNew,
     OwnSetHeader, OwnXfree, OwnDeallocate, OwnXrealloc, OwnClassNew, OwnClassDelete DEF Step
<1> QED
  BY <1>2, <1>3 DEF Next

-----------------------------------------------------------------------------
(***************************************************************************)
(* Where the threads are.                                                  *)
(***************************************************************************)
LEMMA OthersOk ==
  ASSUME IInv, Grown, NEW u \in Threads, th'[u] = th[u], halted => halted',
         th[u].block \in DOMAIN header =>
           th[u].block \in DOMAIN header' /\ header'[th[u].block] = header[th[u].block],
         th[u].old \in DOMAIN header => th[u].old \in DOMAIN header',
         th[u].old \in DOMAIN memory =>
           th[u].old \in DOMAIN memory' /\ memory'[th[u].old] = memory[th[u].old]
  PROVE  ThreadOk(u)'
<1>1. ThreadOk(u)
  BY DEF IInv
<1>2. /\ Len(_allocators) \in Nat /\ Len(_allocators') \in Nat
      /\ Len(_allocators) <= Len(_allocators') /\ DOMAIN alloc = 0 .. Len(_allocators)
      /\ \A id \in 1 .. Len(_allocators) : alloc'[id].m_blockSize = alloc[id].m_blockSize
  BY DEF Grown, IInv, TypeInv
<1> QED
  BY <1>1, <1>2 DEF ThreadOk, At

LEMMA ThreadXmalloc ==
  ASSUME IInv, ~halted, Grown, NEW t \in Threads, xmalloc(t)
  PROVE  \A u \in Threads : ThreadOk(u)'
<1>1. PICK r, q \in ThreadSet :
        Begun(t, r, q) /\ r.size \in Sizes /\ r.block = <<>> /\ r.old = <<>>
  BY XmallocStep
<1>2. /\ th'[t] = q /\ \A u \in Threads \ {t} : th'[u] = th[u]
      /\ UNCHANGED <<_allocators, alloc, header, memory>>
  BY <1>1 DEF Begun, xmalloc, IInv, TypeInv
<1>3. ThreadOk(t)'
  BY <1>1, <1>2 DEF ThreadOk, At, Begun
<1>4. ASSUME NEW u \in Threads \ {t} PROVE ThreadOk(u)'
  BY <1>2, OthersOk
<1> QED
  BY <1>3, <1>4

LEMMA ThreadXrealloc ==
  ASSUME IInv, ~halted, Grown, NEW t \in Threads, xrealloc(t)
  PROVE  \A u \in Threads : ThreadOk(u)'
<1>1. PICK b \in DOMAIN live \ Plain : \E r, q \in ThreadSet :
        /\ Begun(t, r, q) /\ r.size \in Sizes /\ r.block = <<>> /\ r.old = b
        /\ r.data = live[b].data
  BY XreallocStep
<1>2. PICK r, q \in ThreadSet :
        /\ Begun(t, r, q) /\ r.size \in Sizes /\ r.block = <<>> /\ r.old = b
        /\ r.data = live[b].data
  BY <1>1
<1>3. /\ th'[t] = q /\ \A u \in Threads \ {t} : th'[u] = th[u]
      /\ UNCHANGED <<_allocators, alloc, header, memory>>
  BY <1>2 DEF Begun, xrealloc, IInv, TypeInv
<1>4. b \in DOMAIN header /\ b \in DOMAIN memory /\ memory[b] = live[b].data
  BY DEF Plain, IInv, DataInv
<1>5. ThreadOk(t)'
  BY <1>2, <1>3, <1>4 DEF ThreadOk, At, Begun
<1>6. ASSUME NEW u \in Threads \ {t} PROVE ThreadOk(u)'
  BY <1>3, OthersOk
<1> QED
  BY <1>5, <1>6

LEMMA ThreadInsertAllocator ==
  ASSUME IInv, ~halted, Grown, NEW t \in Threads, InsertAllocator(t)
  PROVE  \A u \in Threads : ThreadOk(u)'
<1> DEFINE n == Len(_allocators) + 1
           s == BlockSize(th[t].size)
<1>1. /\ th[t].size \in Sizes /\ th[t] \in ThreadSet /\ Len(_allocators) \in Nat
      /\ DOMAIN alloc = 0 .. Len(_allocators) /\ th[t].block = <<>>
      /\ th[t].old # <<>> => /\ th[t].old \in DOMAIN header /\ th[t].old \in DOMAIN memory
                             /\ memory[th[t].old] = th[t].data
  BY ThreadType DEF IInv, ThreadOk, InsertAllocator, At, TypeInv
<1>2. s \in Nat /\ th[t].size + Overhead <= s /\ th[t].size + Overhead \in Nat
  <2>1. s \in Nat /\ s >= th[t].size + Overhead
    BY <1>1, BlockIsLargeEnough
  <2>2. th[t].size \in Nat /\ Overhead \in Nat
    BY <1>1, Numbers
  <2> HIDE DEF s
  <2> QED
    BY <2>1, <2>2
<1>3. UNCHANGED <<header, memory>>
  BY DEF InsertAllocator, Halt
<1>4. ASSUME NEW id \in 1 .. Len(_allocators'),
             th' = [th EXCEPT ![t] = [th[t] EXCEPT !.at = "pop", !.id = id]],
             th[t].size + Overhead <= alloc'[id].m_blockSize
      PROVE  \A u \in Threads : ThreadOk(u)'
  <2>1. /\ th'[t].at = "pop" /\ th'[t].id = id /\ th'[t].block = <<>> /\ th'[t].old = th[t].old
        /\ th'[t].size = th[t].size /\ th'[t].data = th[t].data
        /\ \A u \in Threads \ {t} : th'[u] = th[u]
    BY <1>1, <1>4 DEF IInv, TypeInv, ThreadSet
  <2>2. ThreadOk(t)'
    BY <1>1, <1>3, <1>4, <2>1 DEF ThreadOk, At
  <2>3. ASSUME NEW u \in Threads \ {t} PROVE ThreadOk(u)'
    BY <1>3, <2>1, OthersOk
  <2> QED
    BY <2>2, <2>3
<1>5. CASE Existing(t) # 0
  <2>1. /\ th' = [th EXCEPT ![t] = [th[t] EXCEPT !.at = "pop", !.id = Existing(t)]]
        /\ UNCHANGED <<_allocators, alloc>>
    BY <1>5 DEF InsertAllocator, Go
  <2>2. Existing(t) \in 1 .. Len(_allocators) /\ alloc[Existing(t)].m_blockSize = s
    <3>1. Existing(t) = find_allocator(s)
      BY DEF Existing
    <3>2. find_allocator(s) \in 0 .. Len(_allocators)
      BY <1>2, FindsAllocator DEF IInv
    <3>3. find_allocator(s) # 0 => alloc[find_allocator(s)].m_blockSize = s
      BY <1>2, FindsAllocator DEF IInv
    <3> HIDE DEF s
    <3> QED
      BY <1>1, <1>5, <3>1, <3>2, <3>3
  <2> HIDE DEF s
  <2> QED
    BY <1>2, <1>4, <2>1, <2>2
<1>6. CASE Existing(t) = 0 /\ Len(_allocators) < MaxAllocators
  <2>1. /\ th' = [th EXCEPT ![t] = [th[t] EXCEPT !.at = "pop", !.id = n]]
        /\ alloc' = Put(alloc, n, NewAllocator(s, 0)) /\ _allocators' = Append(_allocators, n)
    BY <1>1, <1>6, Numbers DEF InsertAllocator, Go
  <2>2. NewAllocator(s, 0).m_blockSize \in Nat /\ NewAllocator(s, 0).m_blockSize >= s
    BY <1>2, NewAllocatorType DEF AllocatorSet
  <2> HIDE DEF s
  <2>3. n \in 1 .. Len(_allocators') /\ alloc'[n] = NewAllocator(s, 0)
    BY <1>1, <2>1 DEF Put, IInv, TypeInv
  <2>4. th[t].size + Overhead <= alloc'[n].m_blockSize
    BY <1>2, <2>2, <2>3
  <2> HIDE DEF n
  <2> QED
    BY <1>4, <2>1, <2>3, <2>4
<1>7. CASE Existing(t) = 0 /\ Len(_allocators) = MaxAllocators
  <2>1. UNCHANGED th
    BY <1>7, Numbers DEF InsertAllocator
  <2> QED
    BY <1>3, <2>1, OthersOk
<1> QED
  BY <1>5, <1>6, <1>7 DEF InsertAllocator

LEMMA ThreadPopBlock ==
  ASSUME IInv, ~halted, Grown, NEW t \in Threads, PopBlock(t)
  PROVE  \A u \in Threads : ThreadOk(u)'
<1> DEFINE id == th[t].id
           b  == Allocate(id).block
<1>1. /\ id \in 1 .. Len(_allocators) /\ th[t] \in ThreadSet /\ At(t, "pop")
      /\ DOMAIN alloc = 0 .. Len(_allocators) /\ Len(_allocators) \in Nat /\ ThreadOk(t)
  BY ThreadType DEF IInv, ThreadOk, PopBlock, At, TypeInv
<1>2. /\ UNCHANGED <<_allocators, header, memory>>
      /\ alloc'[id].m_blockSize = alloc[id].m_blockSize
  BY <1>1 DEF PopBlock, Halt, Grown
<1>3. CASE HasFree(alloc[id]) \/ HasRoom(alloc[id])
  <2>1. th' = [th EXCEPT ![t] = [th[t] EXCEPT !.at = "header", !.block = b]]
    BY <1>3 DEF PopBlock, Go, Exhausted, HasRoom, UsesHeap
  <2>2. b # <<>>
    <3>1. id \in 0 .. Len(_allocators)
      BY <1>1
    <3> QED
      BY <3>1, AllocateEffect, BlockIsAPair DEF IInv
  <2> HIDE DEF b
  <2>3. /\ th'[t].at = "header" /\ th'[t].id = id /\ th'[t].block = b /\ th'[t].old = th[t].old
        /\ th'[t].size = th[t].size /\ th'[t].data = th[t].data
        /\ \A u \in Threads \ {t} : th'[u] = th[u]
    BY <1>1, <2>1 DEF IInv, TypeInv, ThreadSet
  <2>4. ThreadOk(t)'
    BY <1>1, <1>2, <2>2, <2>3 DEF ThreadOk, At
  <2>5. ASSUME NEW u \in Threads \ {t} PROVE ThreadOk(u)'
    BY <1>2, <2>3, OthersOk
  <2> QED
    BY <2>4, <2>5
<1>4. CASE ~HasFree(alloc[id]) /\ ~HasRoom(alloc[id]) /\ UsesHeap(alloc[id])
  <2>1. th' = [th EXCEPT ![t] = [th[t] EXCEPT !.at = "new"]]
    BY <1>4 DEF PopBlock, Go, Exhausted
  <2>2. /\ th'[t].at = "new" /\ th'[t].id = id /\ th'[t].block = th[t].block
        /\ th'[t].old = th[t].old
        /\ th'[t].size = th[t].size /\ th'[t].data = th[t].data
        /\ \A u \in Threads \ {t} : th'[u] = th[u]
    BY <1>1, <2>1 DEF IInv, TypeInv, ThreadSet
  <2>3. ThreadOk(t)'
    BY <1>1, <1>2, <2>2 DEF ThreadOk, At
  <2>4. ASSUME NEW u \in Threads \ {t} PROVE ThreadOk(u)'
    BY <1>2, <2>2, OthersOk
  <2> QED
    BY <2>3, <2>4
<1>5. CASE Exhausted(alloc[id])
  <2>1. UNCHANGED th
    BY <1>5 DEF PopBlock, Exhausted
  <2> QED
    BY <1>2, <2>1, OthersOk
<1> QED
  BY <1>3, <1>4, <1>5 DEF Exhausted

LEMMA ThreadNewBlock ==
  ASSUME IInv, ~halted, Grown, NEW t \in Threads, NewBlock(t)
  PROVE  \A u \in Threads : ThreadOk(u)'
<1>1. /\ th[t].id \in 1 .. Len(_allocators) /\ th[t] \in ThreadSet /\ At(t, "new") /\ ThreadOk(t)
      /\ HeapBlock # <<>>
  BY ThreadType, BlockIsAPair DEF IInv, ThreadOk, NewBlock, At, HeapBlock
<1>2. UNCHANGED <<_allocators, alloc, header, memory>>
  BY DEF NewBlock
<1>3. /\ th'[t].at = "account" /\ th'[t].id = th[t].id /\ th'[t].block = HeapBlock
      /\ th'[t].old = th[t].old /\ th'[t].size = th[t].size /\ th'[t].data = th[t].data
      /\ \A u \in Threads \ {t} : th'[u] = th[u]
  BY <1>1 DEF IInv, TypeInv, ThreadSet, NewBlock, Go
<1>4. ThreadOk(t)'
  BY <1>1, <1>2, <1>3 DEF ThreadOk, At
<1>5. ASSUME NEW u \in Threads \ {t} PROVE ThreadOk(u)'
  BY <1>2, <1>3, OthersOk
<1> QED
  BY <1>4, <1>5

LEMMA ThreadAccountNew ==
  ASSUME IInv, ~halted, Grown, NEW t \in Threads, AccountNew(t)
  PROVE  \A u \in Threads : ThreadOk(u)'
<1>1. /\ th[t].id \in 1 .. Len(_allocators) /\ th[t] \in ThreadSet /\ At(t, "account")
      /\ ThreadOk(t) /\ DOMAIN alloc = 0 .. Len(_allocators) /\ Len(_allocators) \in Nat
  BY ThreadType DEF IInv, ThreadOk, AccountNew, At, TypeInv
<1>2. /\ UNCHANGED <<_allocators, header, memory>>
      /\ alloc'[th[t].id].m_blockSize = alloc[th[t].id].m_blockSize
  <2>1. th[t].id \in DOMAIN alloc
    BY <1>1
  <2>2. alloc'[th[t].id].m_blockSize = alloc[th[t].id].m_blockSize
    BY <2>1 DEF Grown
  <2> QED
    BY <2>2 DEF AccountNew
<1>3. /\ th'[t].at = "header" /\ th'[t].id = th[t].id /\ th'[t].block = th[t].block
      /\ th'[t].old = th[t].old /\ th'[t].size = th[t].size /\ th'[t].data = th[t].data
      /\ \A u \in Threads \ {t} : th'[u] = th[u]
  BY <1>1 DEF IInv, TypeInv, ThreadSet, AccountNew, Go
<1>4. ThreadOk(t)'
  BY <1>1, <1>2, <1>3 DEF ThreadOk, At
<1>5. ASSUME NEW u \in Threads \ {t} PROVE ThreadOk(u)'
  BY <1>2, <1>3, OthersOk
<1> QED
  BY <1>4, <1>5

\* Blocks that another call holds are not the one that this call has, or that a client has.
LEMMA OthersHold ==
  ASSUME IInv, NEW b \in Block, NEW k \in Kinds, NEW x, Owns(k, x, b)
  PROVE  /\ \A u \in Threads : th[u].old = b => k = "old" /\ u = x
         /\ \A u \in Threads : th[u].block = b => k = "block" /\ u = x
BY Owner DEF IInv

LEMMA ThreadSetHeader ==
  ASSUME IInv, ~halted, Grown, NEW t \in Threads, SetHeader(t)
  PROVE  \A u \in Threads : ThreadOk(u)'
<1> DEFINE b == th[t].block
           o == th[t].old
<1>1. /\ th[t].id \in 1 .. Len(_allocators) /\ th[t] \in ThreadSet /\ At(t, "header")
      /\ ThreadOk(t) /\ DOMAIN th = Threads /\ b \in Block
      /\ o # <<>> => o \in DOMAIN header /\ header[o] \in 1 .. Len(_allocators)
  BY ThreadType DEF IInv, ThreadOk, SetHeader, At, TypeInv
<1>2. Owns("block", t, b) /\ "block" \in Kinds
  BY DEF Owns, Kinds
<1>3. \A u \in Threads : th[u].old # b /\ (th[u].block = b => u = t)
  <2>1. \A u \in Threads : th[u].old = b => "block" = "old" /\ u = t
    BY <1>1, <1>2, OthersHold
  <2>2. \A u \in Threads : th[u].block = b => "block" = "block" /\ u = t
    BY <1>1, <1>2, OthersHold
  <2> QED
    BY <2>1, <2>2
<1>4. /\ DOMAIN header \subseteq DOMAIN header' /\ DOMAIN memory \subseteq DOMAIN memory'
      /\ \A c : c # b => /\ c \in DOMAIN header => header'[c] = header[c]
                         /\ c \in DOMAIN memory => memory'[c] = memory[c]
      /\ UNCHANGED <<_allocators, alloc>>
  BY DEF SetHeader, Put
<1>5. CASE o = <<>>
  <2>1. th' = [th EXCEPT ![t] = Idle]
    BY <1>5 DEF SetHeader, Go
  <2>2. ThreadOk(t)'
    BY <1>1, <2>1 DEF ThreadOk, At, Idle
  <2>3. ASSUME NEW u \in Threads \ {t} PROVE ThreadOk(u)'
    <3>1. th'[u] = th[u]
      BY <1>1, <2>1
    <3> HIDE DEF b, o
    <3>2. UNCHANGED halted
      BY DEF SetHeader
    <3> QED
      BY <1>3, <1>4, <3>1, <3>2, OthersOk
  <2> QED
    BY <2>2, <2>3
<1>6. CASE o # <<>>
  <2>1. th' = [th EXCEPT ![t] = [Idle EXCEPT !.at = "free", !.block = o, !.id = header[o]]]
    BY <1>6 DEF SetHeader, Go
  <2>2. ThreadOk(t)'
    <3>1. /\ th'[t].at = "free" /\ th'[t].block = o /\ th'[t].old = <<>> /\ th'[t].id = header[o]
      BY <1>1, <2>1 DEF Idle
    <3>2. o \in DOMAIN header' /\ header'[o] = header[o]
      BY <1>1, <1>3, <1>4, <1>6
    <3> HIDE DEF b, o
    <3> QED
      BY <1>1, <1>4, <1>6, <3>1, <3>2 DEF ThreadOk, At
  <2>3. ASSUME NEW u \in Threads \ {t} PROVE ThreadOk(u)'
    <3>1. th'[u] = th[u]
      BY <1>1, <2>1
    <3> HIDE DEF b, o
    <3>2. UNCHANGED halted
      BY DEF SetHeader
    <3> QED
      BY <1>3, <1>4, <3>1, <3>2, OthersOk
  <2> QED
    BY <2>2, <2>3
<1> QED
  BY <1>5, <1>6

LEMMA ThreadXfree ==
  ASSUME IInv, ~halted, Grown, NEW t \in Threads, xfree(t)
  PROVE  \A u \in Threads : ThreadOk(u)'
<1>1. PICK b \in DOMAIN live \ Plain :
        th' = [th EXCEPT ![t] = [Idle EXCEPT !.at = "free", !.block = b, !.id = header[b]]]
  BY DEF xfree, Go
<1>2. b \in Block /\ b \in DOMAIN header /\ header[b] \in 1 .. Len(_allocators)
  BY DEF IInv, TypeInv, Plain
<1>3. UNCHANGED <<_allocators, alloc, header, memory, halted>> /\ b # <<>>
  BY <1>2, BlockIsAPair DEF xfree
<1>4. /\ th'[t].at = "free" /\ th'[t].block = b /\ th'[t].old = <<>> /\ th'[t].id = header[b]
      /\ \A u \in Threads \ {t} : th'[u] = th[u]
  BY <1>1 DEF Idle, IInv, TypeInv
<1>5. ThreadOk(t)'
  BY <1>2, <1>3, <1>4 DEF ThreadOk, At
<1>6. ASSUME NEW u \in Threads \ {t} PROVE ThreadOk(u)'
  BY <1>3, <1>4, OthersOk
<1> QED
  BY <1>5, <1>6

LEMMA ThreadDeallocate ==
  ASSUME IInv, ~halted, Grown, NEW t \in Threads, Deallocate(t)
  PROVE  \A u \in Threads : ThreadOk(u)'
<1> DEFINE b == th[t].block
<1>1. DOMAIN th = Threads /\ b \in Block
  BY ThreadType DEF IInv, ThreadOk, Deallocate, At, TypeInv
<1>2. Owns("block", t, b) /\ "block" \in Kinds
  BY DEF Owns, Kinds
<1>3. \A u \in Threads : th[u].old # b /\ (th[u].block = b => u = t)
  <2>1. \A u \in Threads : th[u].old = b => "block" = "old" /\ u = t
    BY <1>1, <1>2, OthersHold
  <2>2. \A u \in Threads : th[u].block = b => "block" = "block" /\ u = t
    BY <1>1, <1>2, OthersHold
  <2> QED
    BY <2>1, <2>2
<1>4. /\ \A c : c # b => /\ c \in DOMAIN header => c \in DOMAIN header' /\ header'[c] = header[c]
                         /\ c \in DOMAIN memory => c \in DOMAIN memory' /\ memory'[c] = memory[c]
  BY DEF Deallocate, Without
<1>5. th' = [th EXCEPT ![t] = Idle] /\ UNCHANGED halted
  BY DEF Deallocate, Go
<1>6. ThreadOk(t)'
  BY <1>1, <1>5 DEF ThreadOk, At, Idle
<1>7. ASSUME NEW u \in Threads \ {t} PROVE ThreadOk(u)'
  <2>1. th'[u] = th[u]
    BY <1>1, <1>5
  <2> HIDE DEF b
  <2> QED
    BY <1>3, <1>4, <1>5, <2>1, OthersOk
<1> QED
  BY <1>6, <1>7

LEMMA ThreadClassNew ==
  ASSUME IInv, TypeInv', ~halted, Grown, NEW t \in Threads, ClassNew(t)
  PROVE  \A u \in Threads : ThreadOk(u)'
<1> DEFINE b == Allocate(0).block
<1>1. UNCHANGED <<th, header>> /\ 0 \in 0 .. Len(_allocators)
  BY DEF ClassNew, Halt, IInv, TypeInv
<1>2. CASE Exhausted(alloc[0])
  <2>1. UNCHANGED memory
    BY <1>2 DEF ClassNew, Halt
  <2> QED
    BY <1>1, <2>1, OthersOk
<1>3. CASE ~Exhausted(alloc[0])
  <2>1. /\ alloc' = [alloc EXCEPT ![0] = Allocate(0).a] /\ heap' = HeapAfter(0)
        /\ _allocators' = _allocators /\ memory' = Put(memory, b, calls')
    BY <1>3 DEF ClassNew
  <2>2. \A u \in Threads : th[u].block # b /\ th[u].old # b
    BY <1>1, <1>3, <2>1, AllocateOwner
  <2> HIDE DEF b
  <2>3. \A c : c # b /\ c \in DOMAIN memory => c \in DOMAIN memory' /\ memory'[c] = memory[c]
    BY <2>1 DEF Put
  <2> QED
    BY <1>1, <2>2, <2>3, OthersOk
<1> QED
  BY <1>2, <1>3

LEMMA ThreadClassDelete ==
  ASSUME IInv, ~halted, Grown, NEW t \in Threads, ClassDelete(t)
  PROVE  \A u \in Threads : ThreadOk(u)'
<1>1. PICK b \in Plain : memory' = Without(memory, b)
  BY DEF ClassDelete
<1>2. UNCHANGED <<th, header>>
  BY DEF ClassDelete
<1>3. b \in Block /\ Owns("live", 0, b) /\ "live" \in Kinds
  BY DEF Plain, Owns, Kinds, IInv, TypeInv
<1>4. \A u \in Threads : th[u].old # b
  <2>1. \A u \in Threads : th[u].old = b => "live" = "old" /\ u = 0
    BY <1>3, OthersHold
  <2> QED
    BY <2>1
<1>5. \A c : c # b /\ c \in DOMAIN memory => c \in DOMAIN memory' /\ memory'[c] = memory[c]
  BY <1>1 DEF Without
<1> QED
  BY <1>2, <1>4, <1>5, OthersOk

LEMMA ThreadNext == IInv /\ [Next]_vars => \A u \in Threads : ThreadOk(u)'
<1> SUFFICES ASSUME IInv, [Next]_vars PROVE \A u \in Threads : ThreadOk(u)'
  OBVIOUS
<1>1. TypeInv'
  BY TypeNext
<1>2. CASE UNCHANGED vars
  <2>1. SameTable
    BY <1>2 DEF vars, SameTable
  <2>2. Grown
    BY <2>1, OneAllocatorKept
  <2> QED
    BY <1>2, <2>2, OthersOk DEF vars
<1>3. ASSUME NEW t \in Threads, ~halted, Step(t) PROVE \A u \in Threads : ThreadOk(u)'
  <2>1. Grown
    BY <1>3, OneAllocatorStep
  <2> QED
    BY <1>1, <1>3, <2>1, ThreadXmalloc, ThreadInsertAllocator, ThreadPopBlock, ThreadNewBlock,
       ThreadAccountNew, ThreadSetHeader, ThreadXfree, ThreadDeallocate, ThreadXrealloc,
       ThreadClassNew, ThreadClassDelete DEF Step
<1> QED
  BY <1>2, <1>3 DEF Next

-----------------------------------------------------------------------------
(***************************************************************************)
(* Headers, and what is in the blocks of clients.                          *)
(***************************************************************************)
\* A call on a block of which the header is still there.
Keeps(t, b) == th[t].old = b \/ (At(t, "free") /\ th[t].block = b)

LEMMA HeaderKept ==
  ASSUME IInv, NEW t \in Threads, \A u \in Threads \ {t} : th'[u] = th[u],
         \A c \in DOMAIN header' : c \in DOMAIN header \/ c \in DOMAIN live',
         \A c \in DOMAIN header' : c \in DOMAIN live => c \in DOMAIN live' \/ Keeps(t, c)',
         \A c \in DOMAIN header' :
           Keeps(t, c) /\ c \in DOMAIN header => c \in DOMAIN live' \/ Keeps(t, c)'
  PROVE  HeaderInv'
<1> SUFFICES ASSUME NEW c \in DOMAIN header'
             PROVE  c \in DOMAIN live' \/ \E u \in Threads : Keeps(u, c)'
  BY DEF HeaderInv, Keeps, At
<1>1. CASE c \in DOMAIN live'
  BY <1>1
<1>2. CASE c \in DOMAIN header /\ c \in DOMAIN live
  BY <1>2
<1>3. CASE c \in DOMAIN header /\ c \notin DOMAIN live
  <2>1. PICK u \in Threads : Keeps(u, c)
    BY <1>3 DEF IInv, HeaderInv, Keeps
  <2>2. CASE u = t
    BY <1>3, <2>1, <2>2
  <2>3. CASE u # t
    BY <2>1, <2>3 DEF Keeps, At
  <2> QED
    BY <2>2, <2>3
<1> QED
  BY <1>1, <1>2, <1>3

SameData(c) ==
  /\ c \in DOMAIN live /\ live'[c] = live[c]
  /\ c \in DOMAIN memory => c \in DOMAIN memory' /\ memory'[c] = memory[c]
  /\ c \in DOMAIN header' => c \in DOMAIN header /\ header'[c] = header[c]

NewData(c) ==
  /\ c \in DOMAIN memory /\ memory[c] = live[c].data
  /\ c \in DOMAIN header => live[c].size + Overhead <= alloc[header[c]].m_blockSize

LEMMA DataKept ==
  ASSUME IInv, Grown, \A c \in DOMAIN live' : SameData(c) \/ NewData(c)'
  PROVE  DataInv'
<1> SUFFICES ASSUME NEW c \in DOMAIN live', SameData(c)
             PROVE  /\ c \in DOMAIN memory' /\ memory'[c] = live'[c].data
                    /\ c \in DOMAIN header' =>
                         live'[c].size + Overhead <= alloc'[header'[c]].m_blockSize
  BY DEF DataInv, NewData
<1>1. /\ c \in DOMAIN live /\ live'[c] = live[c]
      /\ c \in DOMAIN memory' /\ memory'[c] = live[c].data
  BY DEF SameData, IInv, DataInv
<1>2. ASSUME c \in DOMAIN header' PROVE live[c].size + Overhead <= alloc'[header'[c]].m_blockSize
  <2>1. c \in DOMAIN header /\ header'[c] = header[c]
    BY <1>2 DEF SameData
  <2>2. header[c] \in DOMAIN alloc /\ live[c].size + Overhead <= alloc[header[c]].m_blockSize
    BY <1>1, <2>1 DEF IInv, DataInv, TypeInv
  <2> QED
    BY <2>1, <2>2 DEF Grown
<1> QED
  BY <1>1, <1>2

\* Nobody has written a header to a block that a call has only just got.
LEMMA NoHeader ==
  ASSUME IInv, NEW b \in Block, b \notin DOMAIN live,
         \A u \in Threads : th[u].old # b /\ (At(u, "free") => th[u].block # b)
  PROVE  b \notin DOMAIN header
BY DEF IInv, HeaderInv

LEMMA NoHeaderYet ==
  ASSUME IInv, NEW t \in Threads, th[t].at \in {"account", "header"}
  PROVE  /\ th[t].block \in Block /\ th[t].block \notin DOMAIN live
         /\ th[t].block \notin DOMAIN header
         /\ \A u \in Threads : th[u].old # th[t].block /\ (th[u].block = th[t].block => u = t)
<1> DEFINE b == th[t].block
<1>1. b \in Block
  BY ThreadType DEF IInv, ThreadOk
<1>2. Owns("block", t, b) /\ "block" \in Kinds
  BY DEF Owns, Kinds
<1>3. b \notin DOMAIN live /\ \A u \in Threads : th[u].old # b /\ (th[u].block = b => u = t)
  BY <1>1, <1>2, Owner DEF IInv
<1>4. \A u \in Threads : At(u, "free") => th[u].block # b
  BY <1>3 DEF At
<1> HIDE DEF b
<1>5. b \notin DOMAIN header
  BY <1>1, <1>3, <1>4, NoHeader
<1> QED
  BY <1>1, <1>3, <1>5 DEF b

LEMMA DataXmalloc ==
  ASSUME IInv, ~halted, Grown, NEW t \in Threads, xmalloc(t) PROVE HeaderInv' /\ DataInv'
<1>1. PICK r, q \in ThreadSet : Begun(t, r, q) /\ r.block = <<>> /\ r.old = <<>>
  BY XmallocStep
<1>2. /\ \A u \in Threads \ {t} : th'[u] = th[u]
      /\ UNCHANGED <<alloc, header, memory, live>>
  BY <1>1 DEF Begun, xmalloc, IInv, TypeInv
<1>3. th[t].block = <<>> /\ th[t].old = <<>>
  BY IdleHasNothing DEF xmalloc, Calls
<1>4. \A c \in DOMAIN header : ~Keeps(t, c)
  BY <1>3, BlockIsAPair DEF Keeps, IInv, TypeInv
<1>5. HeaderInv'
  BY <1>2, <1>4, HeaderKept
<1>6. DataInv'
  BY <1>2, DataKept DEF SameData
<1> QED
  BY <1>5, <1>6

LEMMA DataXrealloc ==
  ASSUME IInv, ~halted, Grown, NEW t \in Threads, xrealloc(t) PROVE HeaderInv' /\ DataInv'
<1>1. PICK b \in DOMAIN live \ Plain : \E r, q \in ThreadSet :
        live' = Without(live, b) /\ Begun(t, r, q) /\ r.old = b
  BY XreallocStep
<1>2. PICK r, q \in ThreadSet : live' = Without(live, b) /\ Begun(t, r, q) /\ r.old = b
  BY <1>1
<1>3. /\ th'[t] = q /\ \A u \in Threads \ {t} : th'[u] = th[u]
      /\ UNCHANGED <<alloc, header, memory>>
  BY <1>2 DEF Begun, xrealloc, IInv, TypeInv
<1>4. /\ DOMAIN live' = DOMAIN live \ {b}
      /\ \A c \in DOMAIN live' : live'[c] = live[c]
  BY <1>2 DEF Without
<1>5. th[t].block = <<>> /\ th[t].old = <<>>
  BY IdleHasNothing DEF xrealloc, Calls
<1>6. \A c \in DOMAIN header : ~Keeps(t, c)
  BY <1>5, BlockIsAPair DEF Keeps, IInv, TypeInv
<1>7. Keeps(t, b)'
  BY <1>2, <1>3 DEF Keeps, Begun
<1>8. HeaderInv'
  BY <1>3, <1>4, <1>6, <1>7, HeaderKept
<1>9. DataInv'
  BY <1>3, <1>4, DataKept DEF SameData
<1> QED
  BY <1>8, <1>9

\* Steps between the beginning of a call and its end.
LEMMA DataInside ==
  ASSUME IInv, Grown, NEW t \in Threads,
         InsertAllocator(t) \/ PopBlock(t) \/ NewBlock(t) \/ AccountNew(t)
  PROVE  HeaderInv' /\ DataInv'
<1>1. UNCHANGED <<header, memory, live>> /\ ~At(t, "free") /\ th[t] \in ThreadSet
  BY ThreadType DEF InsertAllocator, PopBlock, NewBlock, AccountNew, Halt, At, IInv
<1>2. th'[t].old = th[t].old /\ \A u \in Threads \ {t} : th'[u] = th[u]
  <2>1. CASE UNCHANGED th
    BY <2>1
  <2>2. CASE \E id : th' = [th EXCEPT ![t] = [th[t] EXCEPT !.at = "pop", !.id = id]]
    BY <1>1, <2>2 DEF IInv, TypeInv, ThreadSet
  <2>3. CASE \E b : th' = [th EXCEPT ![t] = [th[t] EXCEPT !.at = "header", !.block = b]]
    BY <1>1, <2>3 DEF IInv, TypeInv, ThreadSet
  <2>4. CASE th' = [th EXCEPT ![t] = [th[t] EXCEPT !.at = "new"]]
    BY <1>1, <2>4 DEF IInv, TypeInv, ThreadSet
  <2>5. CASE \E b : th' = [th EXCEPT ![t] = [th[t] EXCEPT !.at = "account", !.block = b]]
    BY <1>1, <2>5 DEF IInv, TypeInv, ThreadSet
  <2>6. CASE th' = [th EXCEPT ![t] = [th[t] EXCEPT !.at = "header"]]
    BY <1>1, <2>6 DEF IInv, TypeInv, ThreadSet
  <2>7. CASE InsertAllocator(t)
    BY <2>1, <2>2, <2>7 DEF InsertAllocator, Go
  <2>8. CASE PopBlock(t)
    BY <2>1, <2>3, <2>4, <2>8 DEF PopBlock, Go
  <2> QED
    BY <2>5, <2>6, <2>7, <2>8 DEF NewBlock, AccountNew, Go
<1>4. \A c : Keeps(t, c) => Keeps(t, c)'
  BY <1>1, <1>2 DEF Keeps
<1>5. HeaderInv'
  BY <1>1, <1>2, <1>4, HeaderKept
<1>6. DataInv'
  BY <1>1, DataKept DEF SameData
<1> QED
  BY <1>5, <1>6

LEMMA DataSetHeader ==
  ASSUME IInv, ~halted, Grown, NEW t \in Threads, SetHeader(t) PROVE HeaderInv' /\ DataInv'
<1> DEFINE b == th[t].block
           o == th[t].old
<1>1. /\ th[t] \in ThreadSet /\ At(t, "header") /\ DOMAIN th = Threads
      /\ th[t].id \in DOMAIN alloc
      /\ th[t].size + Overhead <= alloc[th[t].id].m_blockSize
      /\ o # <<>> => o \in DOMAIN memory /\ memory[o] = th[t].data
  BY ThreadType DEF IInv, ThreadOk, SetHeader, At, TypeInv
<1>2. b \in Block /\ b \notin DOMAIN live /\ b \notin DOMAIN header
  BY <1>1, NoHeaderYet DEF At
<1>3. /\ DOMAIN header' = DOMAIN header \cup {b} /\ DOMAIN live' = DOMAIN live \cup {b}
      /\ DOMAIN memory' = DOMAIN memory \cup {b}
      /\ \A c : c # b => /\ c \in DOMAIN header => header'[c] = header[c]
                         /\ c \in DOMAIN memory => memory'[c] = memory[c]
                         /\ c \in DOMAIN live => live'[c] = live[c]
  BY DEF SetHeader, Put
<1>4. header'[b] = th[t].id /\ live'[b] = [size |-> th[t].size, data |-> th[t].data]
  BY DEF SetHeader, Put
<1>5. memory'[b] = th[t].data
  BY <1>1 DEF SetHeader, Put
<1>6. \A u \in Threads \ {t} : th'[u] = th[u]
  BY <1>1 DEF SetHeader, Go
<1>7. ASSUME NEW c \in DOMAIN header, Keeps(t, c) PROVE Keeps(t, c)'
  <2>1. c = o /\ o # <<>>
    BY <1>1, <1>7, BlockIsAPair DEF Keeps, At, IInv, TypeInv
  <2>2. th' = [th EXCEPT ![t] = [Idle EXCEPT !.at = "free", !.block = o, !.id = header[o]]]
    BY <2>1 DEF SetHeader, Go
  <2>3. th'[t].at = "free" /\ th'[t].block = o
    BY <1>1, <2>2 DEF Idle
  <2> QED
    BY <2>1, <2>3 DEF Keeps, At
<1>8. HeaderInv'
  <2> HIDE DEF b, o
  <2> QED
    BY <1>3, <1>6, <1>7, HeaderKept
<1>9. ASSUME NEW c, c = b PROVE NewData(c)'
  <2>1. alloc'[th[t].id].m_blockSize = alloc[th[t].id].m_blockSize
    BY <1>1 DEF Grown
  <2>2. live'[b].size = th[t].size /\ live'[b].data = th[t].data
    BY <1>4
  <2> HIDE DEF b, o
  <2> QED
    BY <1>1, <1>3, <1>4, <1>5, <1>9, <2>1, <2>2 DEF NewData
<1>10. DataInv'
  <2> HIDE DEF b, o
  <2>1. \A c \in DOMAIN live' : c # b => SameData(c)
    BY <1>3 DEF SameData
  <2> QED
    BY <1>9, <2>1, DataKept
<1> QED
  BY <1>8, <1>10


LEMMA DataXfree ==
  ASSUME IInv, ~halted, Grown, NEW t \in Threads, xfree(t) PROVE HeaderInv' /\ DataInv'
<1>1. PICK b \in DOMAIN live \ Plain :
        /\ live' = Without(live, b)
        /\ th' = [th EXCEPT ![t] = [Idle EXCEPT !.at = "free", !.block = b, !.id = header[b]]]
  BY DEF xfree, Go
<1>2. /\ DOMAIN live' = DOMAIN live \ {b}
      /\ \A c \in DOMAIN live' : live'[c] = live[c]
  BY <1>1 DEF Without
<1>3. /\ Keeps(t, b)' /\ \A u \in Threads \ {t} : th'[u] = th[u]
      /\ UNCHANGED <<alloc, header, memory>>
  BY <1>1 DEF Keeps, At, Idle, xfree, IInv, TypeInv
<1>4. th[t].block = <<>> /\ th[t].old = <<>>
  BY IdleHasNothing DEF xfree, Calls
<1>5. \A c \in DOMAIN header : ~Keeps(t, c)
  BY <1>4, BlockIsAPair DEF Keeps, IInv, TypeInv
<1>6. HeaderInv'
  BY <1>2, <1>3, <1>5, HeaderKept
<1>7. DataInv'
  BY <1>2, <1>3, DataKept DEF SameData
<1> QED
  BY <1>6, <1>7

LEMMA DataDeallocate ==
  ASSUME IInv, ~halted, Grown, NEW t \in Threads, Deallocate(t) PROVE HeaderInv' /\ DataInv'
<1> DEFINE b == th[t].block
<1>1. b \in Block /\ th[t].old = <<>> /\ DOMAIN th = Threads
  BY ThreadType DEF IInv, ThreadOk, Deallocate, At, TypeInv
<1>2. Owns("block", t, b) /\ "block" \in Kinds
  BY DEF Owns, Kinds
<1>3. b \notin DOMAIN live
  BY <1>1, <1>2, Owner DEF IInv
<1>4. /\ DOMAIN header' = DOMAIN header \ {b}
      /\ \A c : c # b => /\ c \in DOMAIN header => header'[c] = header[c]
                         /\ c \in DOMAIN memory => c \in DOMAIN memory' /\ memory'[c] = memory[c]
      /\ UNCHANGED live
  BY DEF Deallocate, Without
<1>5. \A u \in Threads \ {t} : th'[u] = th[u]
  BY <1>1 DEF Deallocate, Go
<1>6. \A c \in DOMAIN header' : ~Keeps(t, c)
  BY <1>1, <1>4, BlockIsAPair DEF Keeps, IInv, TypeInv
<1> HIDE DEF b
<1>7. HeaderInv'
  BY <1>4, <1>5, <1>6, HeaderKept
<1>8. DataInv'
  BY <1>3, <1>4, DataKept DEF SameData
<1> QED
  BY <1>7, <1>8

LEMMA DataClassNew ==
  ASSUME IInv, TypeInv', ~halted, Grown, NEW t \in Threads, ClassNew(t)
  PROVE  HeaderInv' /\ DataInv'
<1> DEFINE b == Allocate(0).block
<1>1. UNCHANGED <<th, header>> /\ 0 \in 0 .. Len(_allocators)
  BY DEF ClassNew, Halt, IInv, TypeInv
<1>2. CASE Exhausted(alloc[0])
  <2>1. UNCHANGED <<memory, live>>
    BY <1>2 DEF ClassNew, Halt
  <2>2. HeaderInv'
    BY <1>1, <2>1, HeaderKept DEF Keeps, At
  <2>3. DataInv'
    BY <1>1, <2>1, DataKept DEF SameData
  <2> QED
    BY <2>2, <2>3
<1>3. CASE ~Exhausted(alloc[0])
  <2>1. /\ alloc' = [alloc EXCEPT ![0] = Allocate(0).a] /\ heap' = HeapAfter(0)
        /\ _allocators' = _allocators /\ memory' = Put(memory, b, calls')
        /\ live' = Put(live, b, [size |-> alloc[0].m_blockSize, data |-> calls'])
    BY <1>3 DEF ClassNew
  <2>2. b \in Block /\ b \notin DOMAIN live /\ \A u \in Threads : th[u].block # b /\ th[u].old # b
    BY <1>1, <1>3, <2>1, AllocateOwner
  <2> HIDE DEF b
  <2>3. b \notin DOMAIN header
    BY <2>2, NoHeader
  <2>4. /\ DOMAIN live' = DOMAIN live \cup {b}
        /\ \A c : c # b => /\ c \in DOMAIN memory => c \in DOMAIN memory' /\ memory'[c] = memory[c]
                           /\ c \in DOMAIN live => live'[c] = live[c]
    BY <2>1 DEF Put
  <2>5. b \in DOMAIN memory' /\ memory'[b] = live'[b].data
    BY <2>1 DEF Put
  <2>6. \A c \in DOMAIN live' : SameData(c) \/ NewData(c)'
    <3> SUFFICES ASSUME NEW c \in DOMAIN live' PROVE SameData(c) \/ NewData(c)'
      OBVIOUS
    <3>1. CASE c = b
      BY <1>1, <2>3, <2>5, <3>1 DEF NewData
    <3>2. CASE c # b
      BY <1>1, <2>4, <3>2 DEF SameData
    <3> QED
      BY <3>1, <3>2
  <2>7. HeaderInv'
    BY <1>1, <2>4, HeaderKept DEF Keeps, At
  <2> QED
    BY <2>6, <2>7, DataKept
<1> QED
  BY <1>2, <1>3

LEMMA DataClassDelete ==
  ASSUME IInv, ~halted, Grown, NEW t \in Threads, ClassDelete(t) PROVE HeaderInv' /\ DataInv'
<1>1. PICK b \in Plain : live' = Without(live, b) /\ memory' = Without(memory, b)
  BY DEF ClassDelete
<1>2. UNCHANGED <<th, header>> /\ b \notin DOMAIN header
  BY DEF ClassDelete, Plain
<1>3. /\ DOMAIN live' = DOMAIN live \ {b}
      /\ \A c : c # b => /\ c \in DOMAIN memory => c \in DOMAIN memory' /\ memory'[c] = memory[c]
                         /\ c \in DOMAIN live => live'[c] = live[c]
  BY <1>1 DEF Without
<1>4. HeaderInv'
  BY <1>2, <1>3, HeaderKept DEF Keeps, At
<1>5. DataInv'
  BY <1>2, <1>3, DataKept DEF SameData
<1> QED
  BY <1>4, <1>5

LEMMA DataNext == IInv /\ [Next]_vars => HeaderInv' /\ DataInv'
<1> SUFFICES ASSUME IInv, [Next]_vars PROVE HeaderInv' /\ DataInv'
  OBVIOUS
<1>1. TypeInv'
  BY TypeNext
<1>2. CASE UNCHANGED vars
  <2>1. HeaderInv'
    BY <1>2 DEF vars, IInv, HeaderInv, At
  <2>2. DataInv'
    BY <1>2 DEF vars, IInv, DataInv
  <2> QED
    BY <2>1, <2>2
<1>3. ASSUME NEW t \in Threads, ~halted, Step(t) PROVE HeaderInv' /\ DataInv'
  <2>1. Grown
    BY <1>3, OneAllocatorStep
  <2> QED
    BY <1>1, <1>3, <2>1, DataXmalloc, DataInside, DataSetHeader, DataXfree, DataDeallocate,
       DataXrealloc, DataClassNew, DataClassDelete DEF Step
<1> QED
  BY <1>2, <1>3 DEF Next

-----------------------------------------------------------------------------
(***************************************************************************)
(* The counts of an Allocator, and the sizes of its blocks.                *)
(***************************************************************************)
Writes(t, x, c)   == At(t, "header") /\ th[t].block = c /\ th[t].id = x
Accounts(t, x, c) == At(t, "account") /\ th[t].block = c /\ th[t].id = x

\* The part of Uses that a step of t can change.
OwnUse(t, x, c) ==
  (c \in DOMAIN header /\ header[c] = x) \/ (x = 0 /\ c \in Plain) \/ Writes(t, x, c)
OtherUse(t, x, c) == \E u \in Threads \ {t} : Writes(u, x, c)

LEMMA UsesLocal ==
  ASSUME NEW t \in Threads, \A u \in Threads \ {t} : th'[u] = th[u]
  PROVE  \A x, c : /\ Uses(x, c) <=> OwnUse(t, x, c) \/ OtherUse(t, x, c)
                   /\ Uses(x, c)' <=> OwnUse(t, x, c)' \/ OtherUse(t, x, c)
<1> SUFFICES ASSUME NEW x, NEW c
             PROVE  /\ Uses(x, c) <=> OwnUse(t, x, c) \/ OtherUse(t, x, c)
                    /\ Uses(x, c)' <=> OwnUse(t, x, c)' \/ OtherUse(t, x, c)
  OBVIOUS
<1>1. Uses(x, c) <=> OwnUse(t, x, c) \/ OtherUse(t, x, c)
  BY DEF Uses, OwnUse, OtherUse, Writes
<1>2. \A u \in Threads \ {t} : Writes(u, x, c)' <=> Writes(u, x, c)
  BY DEF Writes, At
<1>3. Uses(x, c)' <=> OwnUse(t, x, c)' \/ OtherUse(t, x, c)
  BY <1>2 DEF Uses, OwnUse, OtherUse, Writes
<1> QED
  BY <1>1, <1>3

LEMMA CountOf ==
  ASSUME IInv, NEW x \in DOMAIN alloc
  PROVE  /\ Len(alloc[x].m_pHead) + alloc[x].m_blocksInUse = alloc[x].m_poolIndex + alloc[x].m_blockCnt
         /\ alloc[x].m_blocksInUse = alloc[x].m_allocations - alloc[x].m_deallocations
         /\ IsFiniteSet(InUse(x)) /\ alloc[x].m_blocksInUse = Cardinality(InUse(x))
         /\ Len(alloc[x].m_pHead) \in Nat /\ alloc[x].m_poolIndex \in Nat
         /\ alloc[x].m_blockCnt \in Nat /\ alloc[x].m_blocksInUse \in Nat
         /\ alloc[x].m_allocations \in Nat /\ alloc[x].m_deallocations \in Nat
<1>1. /\ Len(alloc[x].m_pHead) + alloc[x].m_blocksInUse = alloc[x].m_poolIndex + alloc[x].m_blockCnt
      /\ alloc[x].m_blocksInUse = alloc[x].m_allocations - alloc[x].m_deallocations
      /\ IsFiniteSet(InUse(x)) /\ alloc[x].m_blocksInUse = Cardinality(InUse(x))
  BY DEF IInv, CountInv
<1>2. x \in 0 .. Len(_allocators)
  BY DEF IInv, TypeInv
<1>3. Cardinality(InUse(x)) \in Nat
  BY <1>1, FS_CardinalityType
<1>4. /\ alloc[x].m_pHead \in Seq(Block) /\ alloc[x].m_poolIndex \in Nat
      /\ alloc[x].m_blockCnt \in Nat
      /\ alloc[x].m_allocations \in Nat /\ alloc[x].m_deallocations \in Nat
  BY <1>2, AllocatorAt DEF IInv
<1> QED
  BY <1>1, <1>3, <1>4

CountIs(x) ==
  /\ Len(alloc[x].m_pHead) + alloc[x].m_blocksInUse = alloc[x].m_poolIndex + alloc[x].m_blockCnt
  /\ alloc[x].m_blocksInUse = alloc[x].m_allocations - alloc[x].m_deallocations
  /\ IsFiniteSet(InUse(x)) /\ alloc[x].m_blocksInUse = Cardinality(InUse(x))

LEMMA CountIsKept ==
  ASSUME IInv, NEW x \in DOMAIN alloc, alloc'[x] = alloc[x],
         \A c \in Block : Uses(x, c)' <=> Uses(x, c)
  PROVE  CountIs(x)'
<1>1. InUse(x)' = InUse(x)
  BY DEF InUse
<1> QED
  BY <1>1, CountOf DEF CountIs

LEMMA CountSame ==
  ASSUME IInv, alloc' = alloc, \A x \in DOMAIN alloc : \A c \in Block : Uses(x, c)' <=> Uses(x, c)
  PROVE  CountInv'
<1>1. \A x \in DOMAIN alloc : CountIs(x)'
  BY CountIsKept
<1> QED
  BY <1>1 DEF CountInv, CountIs

LEMMA CountMore ==
  ASSUME IInv, NEW id \in DOMAIN alloc, NEW b \in Block, ~Uses(id, b),
         DOMAIN alloc' = DOMAIN alloc, \A x \in DOMAIN alloc : x # id => alloc'[x] = alloc[x],
         \A x \in DOMAIN alloc : \A c \in Block :
           Uses(x, c)' <=> Uses(x, c) \/ (x = id /\ c = b),
         alloc'[id].m_blocksInUse = alloc[id].m_blocksInUse + 1,
         alloc'[id].m_allocations = alloc[id].m_allocations + 1,
         alloc'[id].m_deallocations = alloc[id].m_deallocations,
         Len(alloc'[id].m_pHead) + alloc'[id].m_blocksInUse =
           alloc'[id].m_poolIndex + alloc'[id].m_blockCnt
  PROVE  CountInv'
<1>1. ASSUME NEW x \in DOMAIN alloc, x # id PROVE CountIs(x)'
  BY <1>1, CountIsKept
<1>2. ASSUME NEW x, x = id PROVE CountIs(x)'
  <2>1. InUse(x)' = InUse(x) \cup {b} /\ b \notin InUse(x)
    BY <1>2 DEF InUse
  <2>2. /\ alloc[id].m_blocksInUse = alloc[id].m_allocations - alloc[id].m_deallocations
        /\ IsFiniteSet(InUse(x)) /\ alloc[id].m_blocksInUse = Cardinality(InUse(x))
        /\ alloc[id].m_blocksInUse \in Nat
        /\ alloc[id].m_allocations \in Nat /\ alloc[id].m_deallocations \in Nat
    BY <1>2, CountOf
  <2>3. /\ IsFiniteSet(InUse(x) \cup {b})
        /\ Cardinality(InUse(x) \cup {b}) = Cardinality(InUse(x)) + 1
    BY <2>1, <2>2, FS_AddElement
  <2>4. IsFiniteSet(InUse(x))' /\ Cardinality(InUse(x))' = Cardinality(InUse(x)) + 1
    BY <2>1, <2>3
  <2>5. alloc'[x].m_blocksInUse = Cardinality(InUse(x))'
    BY <1>2, <2>2, <2>4
  <2>6. /\ Len(alloc'[x].m_pHead) + alloc'[x].m_blocksInUse = alloc'[x].m_poolIndex + alloc'[x].m_blockCnt
        /\ alloc'[x].m_blocksInUse = alloc'[x].m_allocations - alloc'[x].m_deallocations
    <3>1. alloc'[id].m_blocksInUse = alloc'[id].m_allocations - alloc'[id].m_deallocations
      BY <2>2
    <3>2. Len(alloc'[id].m_pHead) + alloc'[id].m_blocksInUse =
            alloc'[id].m_poolIndex + alloc'[id].m_blockCnt
      BY <2>2
    <3> QED
      BY <1>2, <3>1, <3>2
  <2> QED
    BY <2>4, <2>5, <2>6 DEF CountIs
<1>3. \A x \in DOMAIN alloc : CountIs(x)'
  BY <1>1, <1>2
<1> QED
  BY <1>3 DEF CountInv, CountIs

LEMMA CountLess ==
  ASSUME IInv, NEW id \in DOMAIN alloc, NEW b \in Block, Uses(id, b),
         DOMAIN alloc' = DOMAIN alloc, \A x \in DOMAIN alloc : x # id => alloc'[x] = alloc[x],
         \A x \in DOMAIN alloc : \A c \in Block :
           Uses(x, c)' <=> Uses(x, c) /\ ~(x = id /\ c = b),
         alloc'[id].m_blocksInUse = alloc[id].m_blocksInUse - 1,
         alloc'[id].m_allocations = alloc[id].m_allocations,
         alloc'[id].m_deallocations = alloc[id].m_deallocations + 1,
         alloc'[id].m_poolIndex = alloc[id].m_poolIndex,
         alloc'[id].m_blockCnt = alloc[id].m_blockCnt,
         Len(alloc'[id].m_pHead) = Len(alloc[id].m_pHead) + 1
  PROVE  CountInv'
<1>1. ASSUME NEW x \in DOMAIN alloc, x # id PROVE CountIs(x)'
  BY <1>1, CountIsKept
<1>2. ASSUME NEW x, x = id PROVE CountIs(x)'
  <2>1. InUse(x)' = InUse(x) \ {b} /\ b \in InUse(x)
    BY <1>2 DEF InUse
  <2>2. /\ Len(alloc[id].m_pHead) + alloc[id].m_blocksInUse = alloc[id].m_poolIndex + alloc[id].m_blockCnt
        /\ alloc[id].m_blocksInUse = alloc[id].m_allocations - alloc[id].m_deallocations
        /\ IsFiniteSet(InUse(x)) /\ alloc[id].m_blocksInUse = Cardinality(InUse(x))
        /\ Len(alloc[id].m_pHead) \in Nat /\ alloc[id].m_poolIndex \in Nat
        /\ alloc[id].m_blockCnt \in Nat /\ alloc[id].m_blocksInUse \in Nat
        /\ alloc[id].m_allocations \in Nat /\ alloc[id].m_deallocations \in Nat
    BY <1>2, CountOf
  <2>3. /\ IsFiniteSet(InUse(x) \ {b})
        /\ Cardinality(InUse(x) \ {b}) = Cardinality(InUse(x)) - 1
    BY <2>1, <2>2, FS_RemoveElement
  <2>4. IsFiniteSet(InUse(x))' /\ Cardinality(InUse(x))' = Cardinality(InUse(x)) - 1
    BY <2>1, <2>3
  <2>5. alloc'[x].m_blocksInUse = Cardinality(InUse(x))'
    BY <1>2, <2>2, <2>4
  <2>6. /\ Len(alloc'[x].m_pHead) + alloc'[x].m_blocksInUse = alloc'[x].m_poolIndex + alloc'[x].m_blockCnt
        /\ alloc'[x].m_blocksInUse = alloc'[x].m_allocations - alloc'[x].m_deallocations
    <3>1. alloc'[id].m_blocksInUse = alloc'[id].m_allocations - alloc'[id].m_deallocations
      BY <2>2
    <3>2. Len(alloc'[id].m_pHead) + alloc'[id].m_blocksInUse =
            alloc'[id].m_poolIndex + alloc'[id].m_blockCnt
      BY <2>2
    <3> QED
      BY <1>2, <3>1, <3>2
  <2> QED
    BY <2>4, <2>5, <2>6 DEF CountIs
<1>3. \A x \in DOMAIN alloc : CountIs(x)'
  BY <1>1, <1>2
<1> QED
  BY <1>3 DEF CountInv, CountIs

Belongs(x, c) ==
  Uses(x, c) \/ c \in Elements(alloc[x].m_pHead) \/ \E t \in Threads : Accounts(t, x, c)

LEMMA BelongsIssued ==
  ASSUME IInv, NEW x \in DOMAIN alloc, NEW c \in Block, Belongs(x, c)
  PROVE  c \in Issued /\ BytesOf(c) = alloc[x].m_blockSize
<1>1. \E k \in Kinds : \E y \in Holders : Owns(k, y, c)
  <2>1. CASE c \in Elements(alloc[x].m_pHead)
    BY <2>1 DEF Owns, Kinds, Holders
  <2>2. CASE c \in DOMAIN live
    BY <2>2 DEF Owns, Kinds, Holders, IInv, TypeInv
  <2>3. CASE \E u \in Threads : th[u].block = c
    BY <2>3 DEF Owns, Kinds, Holders
  <2>4. CASE \E u \in Threads : th[u].old = c
    BY <2>4 DEF Owns, Kinds, Holders
  <2>5. c \in DOMAIN header => c \in DOMAIN live \/ \E u \in Threads : th[u].block = c \/ th[u].old = c
    BY DEF IInv, HeaderInv
  <2> QED
    BY <2>1, <2>2, <2>3, <2>4, <2>5 DEF Belongs, Uses, Accounts, Plain
<1>2. c \in Issued
  BY <1>1 DEF IInv, OwnInv, AllOwned
<1>3. BytesOf(c) = alloc[x].m_blockSize
  BY DEF IInv, SizeInv, Belongs, Accounts
<1> QED
  BY <1>2, <1>3

LEMMA SizeKept ==
  ASSUME IInv, Grown, \A n \in 1 .. Len(heap) : heap'[n] = heap[n],
         \A x \in DOMAIN alloc' : \A c \in Block :
           Belongs(x, c)' => \/ x \in DOMAIN alloc /\ Belongs(x, c)
                             \/ BytesOf(c)' = alloc'[x].m_blockSize
  PROVE  SizeInv'
<1> SUFFICES ASSUME NEW x \in DOMAIN alloc', NEW c \in Block, Belongs(x, c)'
             PROVE  BytesOf(c)' = alloc'[x].m_blockSize
  BY DEF SizeInv, Belongs, Accounts
<1>1. CASE x \in DOMAIN alloc /\ Belongs(x, c)
  <2>1. c \in Issued /\ BytesOf(c) = alloc[x].m_blockSize
    BY <1>1, BelongsIssued
  <2>2. IsIssued(c) /\ c[1] \in Int /\ c[2] \in Int /\ DOMAIN alloc = 0 .. Len(_allocators)
    BY <2>1, IssuedIs, BlockIsAPair DEF IInv, TypeInv
  <2>3. BytesOf(c)' = BytesOf(c)
    <3>1. CASE c[1] = Heap
      BY <2>2, <3>1 DEF BytesOf, IsIssued, Heap
    <3>2. CASE c[1] # Heap
      BY <2>2, <3>2 DEF BytesOf, IsIssued, Heap, Grown
    <3> QED
      BY <3>1, <3>2
  <2> QED
    BY <1>1, <2>1, <2>3 DEF Grown
<1> QED
  BY <1>1

Accounted(x, c) == \E t \in Threads : Accounts(t, x, c)

LEMMA AccountsLocal ==
  ASSUME NEW t \in Threads, \A u \in Threads \ {t} : th'[u] = th[u]
  PROVE  \A x, c : Accounted(x, c)' => Accounts(t, x, c)' \/ Accounted(x, c)
<1>1. \A u \in Threads \ {t} : \A x, c : Accounts(u, x, c)' <=> Accounts(u, x, c)
  BY DEF Accounts, At
<1> QED
  BY <1>1 DEF Accounted

\* A step of t that takes no block from an Allocator and returns none.
LEMMA OwnUseStill ==
  ASSUME NEW t \in Threads, UNCHANGED header, \A c \in Block : c \in Plain' <=> c \in Plain,
         th[t].at # "header", th'[t].at # "header"
  PROVE  \A x : \A c \in Block : OwnUse(t, x, c)' <=> OwnUse(t, x, c)
BY DEF OwnUse, Writes, At

LEMMA CountStill ==
  ASSUME IInv, Grown, NEW t \in Threads, \A u \in Threads \ {t} : th'[u] = th[u],
         UNCHANGED <<alloc, heap>>, th'[t].at # "account",
         \A x : \A c \in Block : OwnUse(t, x, c)' <=> OwnUse(t, x, c)
  PROVE  SizeInv' /\ CountInv'
<1>2. \A x : \A c \in Block : Uses(x, c)' <=> Uses(x, c)
  BY UsesLocal
<1>3. \A x, c : Accounted(x, c)' => Accounted(x, c)
  BY AccountsLocal DEF Accounts, At
<1>4. SizeInv'
  <2>1. \A x \in DOMAIN alloc' : \A c \in Block : Belongs(x, c)' => x \in DOMAIN alloc /\ Belongs(x, c)
    BY <1>2, <1>3 DEF Belongs, Accounted
  <2> QED
    BY <2>1, SizeKept
<1> QED
  BY <1>2, <1>4, CountSame

\* Allocate() takes a block for the program.
LEMMA AllocateCount ==
  ASSUME IInv, TypeInv', Grown, NEW id \in 0 .. Len(_allocators), NEW b, b = Allocate(id).block,
         ~Exhausted(alloc[id]), alloc' = [alloc EXCEPT ![id] = Allocate(id).a],
         _allocators' = _allocators, heap' = HeapAfter(id),
         \A x : \A c \in Block : Uses(x, c)' <=> Uses(x, c) \/ (x = id /\ c = b),
         \A x, c : Accounted(x, c)' => Accounted(x, c)
  PROVE  SizeInv' /\ CountInv'
<1> DEFINE a == alloc[id]
           d == Allocate(id).a
<1>1. /\ b \in Block /\ b \notin DOMAIN live /\ \A u \in Threads : th[u].block # b /\ th[u].old # b
      /\ \A y \in DOMAIN alloc : \A c \in Block :
           c \in Elements(alloc'[y].m_pHead) <=> c # b /\ c \in Elements(alloc[y].m_pHead)
  BY AllocateOwner
<1>2. b \notin DOMAIN header
  BY <1>1, NoHeader
<1>3. ~Uses(id, b)
  BY <1>1, <1>2 DEF Uses, Plain
<1>4. /\ id \in DOMAIN alloc /\ DOMAIN alloc' = DOMAIN alloc /\ alloc'[id] = d
      /\ \A x \in DOMAIN alloc : x # id => alloc'[x] = alloc[x]
  BY AllocatorAt DEF IInv
<1>5. /\ Len(a.m_pHead) + a.m_blocksInUse = a.m_poolIndex + a.m_blockCnt
      /\ Len(a.m_pHead) \in Nat /\ a.m_poolIndex \in Nat
      /\ a.m_blockCnt \in Nat /\ a.m_blocksInUse \in Nat /\ a.m_pHead \in Seq(Block)
  BY <1>4, CountOf, AllocatorAt DEF IInv
<1>6. /\ d.m_blocksInUse = a.m_blocksInUse + 1 /\ d.m_allocations = a.m_allocations + 1
      /\ d.m_deallocations = a.m_deallocations /\ d.m_blockSize = a.m_blockSize
  BY AllocateEffect DEF IInv
<1>7. CASE HasFree(a)
  <2>1. /\ b = a.m_pHead[1] /\ d.m_pHead = Tail(a.m_pHead)
        /\ d.m_poolIndex = a.m_poolIndex /\ d.m_blockCnt = a.m_blockCnt
    BY <1>7, AllocateEffect DEF IInv
  <2>2. /\ Len(Tail(a.m_pHead)) = Len(a.m_pHead) - 1 /\ b \in Elements(a.m_pHead)
    BY <1>5, <1>7, <2>1, PoppedList DEF HasFree
  <2>3. heap' = heap
    BY <1>7 DEF HeapAfter
  <2> HIDE DEF a, d
  <2>4. Len(d.m_pHead) + d.m_blocksInUse = d.m_poolIndex + d.m_blockCnt
    <3>1. Len(d.m_pHead) = Len(a.m_pHead) - 1
      BY <2>1, <2>2
    <3> QED
      BY <1>5, <1>6, <2>1, <3>1
  <2>5. CountInv'
    BY <1>1, <1>3, <1>4, <1>6, <2>4, CountMore DEF a
  <2>6. \A x \in DOMAIN alloc' : \A c \in Block : Belongs(x, c)' => x \in DOMAIN alloc /\ Belongs(x, c)
    <3> SUFFICES ASSUME NEW x \in DOMAIN alloc, NEW c \in Block, Belongs(x, c)'
                 PROVE  Belongs(x, c)
      BY <1>4
    <3>1. CASE x = id /\ c = b
      BY <2>2, <3>1 DEF Belongs, a
    <3>2. CASE ~(x = id /\ c = b)
      BY <1>1, <3>2 DEF Belongs, Accounted
    <3> QED
      BY <3>1, <3>2
  <2>7. SizeInv'
    BY <2>3, <2>6, SizeKept
  <2> QED
    BY <2>5, <2>7
<1>8. CASE ~HasFree(a)
  <2>1. d.m_pHead = a.m_pHead
    BY <1>8, AllocateEffect DEF IInv
  <2>2. /\ d.m_poolIndex + d.m_blockCnt = a.m_poolIndex + a.m_blockCnt + 1
        /\ BytesOf(b)' = a.m_blockSize /\ \A n \in 1 .. Len(heap) : heap'[n] = heap[n]
    <3>1. CASE HasRoom(a)
      <4>1. heap' = heap
        BY <3>1 DEF HeapAfter, HasRoom, UsesHeap
      <4>2. b = <<id, a.m_poolIndex>> /\ d.m_poolIndex = a.m_poolIndex + 1 /\ d.m_blockCnt = a.m_blockCnt
        BY <1>8, <3>1, AllocateEffect DEF IInv
      <4>3. b[1] = id /\ id # Heap
        BY <4>2 DEF Heap
      <4> HIDE DEF d
      <4>4. BytesOf(b)' = a.m_blockSize
        BY <1>4, <1>6, <4>3 DEF BytesOf
      <4> HIDE DEF a
      <4>5. d.m_poolIndex + d.m_blockCnt = a.m_poolIndex + a.m_blockCnt + 1
        BY <1>5, <4>2
      <4> QED
        BY <4>1, <4>4, <4>5
    <3>2. CASE ~HasRoom(a)
      <4>1. heap' = Append(heap, a.m_blockSize) /\ heap \in Seq(Nat) /\ a.m_blockSize \in Nat
        BY <1>8, <3>2, AllocatorAt DEF HeapAfter, Exhausted, IInv, TypeInv
      <4>2. b = HeapBlock /\ d.m_poolIndex = a.m_poolIndex /\ d.m_blockCnt = a.m_blockCnt + 1
        BY <1>8, <3>2, AllocateEffect DEF IInv
      <4>3. b[1] = Heap /\ b[2] = Len(heap) + 1
        BY <4>2 DEF HeapBlock
      <4> HIDE DEF d, a
      <4>4. heap'[Len(heap) + 1] = a.m_blockSize /\ \A n \in 1 .. Len(heap) : heap'[n] = heap[n]
        BY <4>1
      <4>5. BytesOf(b)' = a.m_blockSize
        BY <4>3, <4>4 DEF BytesOf
      <4> QED
        BY <1>5, <4>2, <4>4, <4>5
    <3> QED
      BY <3>1, <3>2
  <2> HIDE DEF d
  <2>3. Len(d.m_pHead) + d.m_blocksInUse = d.m_poolIndex + d.m_blockCnt
    BY <1>5, <1>6, <2>1, <2>2
  <2>4. CountInv'
    BY <1>1, <1>3, <1>4, <1>6, <2>3, CountMore
  <2>5. \A x \in DOMAIN alloc' : \A c \in Block :
          Belongs(x, c)' => (x \in DOMAIN alloc /\ Belongs(x, c)) \/ BytesOf(c)' = alloc'[x].m_blockSize
    <3> SUFFICES ASSUME NEW x \in DOMAIN alloc, NEW c \in Block, Belongs(x, c)'
                 PROVE  Belongs(x, c) \/ BytesOf(c)' = alloc'[x].m_blockSize
      BY <1>4
    <3>1. CASE x = id /\ c = b
      BY <1>4, <1>6, <2>2, <3>1
    <3>2. CASE ~(x = id /\ c = b)
      BY <1>1, <3>2 DEF Belongs, Accounted
    <3> QED
      BY <3>1, <3>2
  <2>6. SizeInv'
    BY <2>2, <2>5, SizeKept
  <2> QED
    BY <2>4, <2>6
<1> QED
  BY <1>7, <1>8

\* Deallocate() takes a block from the program.
LEMMA DeallocateCount ==
  ASSUME IInv, TypeInv', Grown, NEW id \in 0 .. Len(_allocators), NEW b \in Block,
         alloc' = [alloc EXCEPT ![id] = DeallocateBlock(alloc[id], b)],
         _allocators' = _allocators, heap' = heap,
         \A y \in DOMAIN alloc : b \notin Elements(alloc[y].m_pHead),
         Uses(id, b), \A x : \A c \in Block : Uses(x, c)' <=> Uses(x, c) /\ ~(x = id /\ c = b),
         \A x, c : Accounted(x, c)' => Accounted(x, c)
  PROVE  SizeInv' /\ CountInv'
<1> DEFINE a == alloc[id]
           d == DeallocateBlock(alloc[id], b)
<1>1. \A y \in DOMAIN alloc : \A c \in Block :
        c \in Elements(alloc'[y].m_pHead) <=> IF c = b THEN y = id
                                              ELSE c \in Elements(alloc[y].m_pHead)
  BY DeallocateOwner
<1>2. /\ id \in DOMAIN alloc /\ DOMAIN alloc' = DOMAIN alloc /\ alloc'[id] = d
      /\ \A x \in DOMAIN alloc : x # id => alloc'[x] = alloc[x]
      /\ a \in AllocatorSet /\ a.m_pHead \in Seq(Block)
  BY AllocatorAt DEF IInv
<1>3. /\ d.m_blocksInUse = a.m_blocksInUse - 1 /\ d.m_allocations = a.m_allocations
      /\ d.m_deallocations = a.m_deallocations + 1 /\ d.m_poolIndex = a.m_poolIndex
      /\ d.m_blockCnt = a.m_blockCnt /\ d.m_pHead = <<b>> \o a.m_pHead
  BY <1>2, DeallocateEffect
<1>4. Len(<<b>> \o a.m_pHead) = Len(a.m_pHead) + 1
  BY <1>2, PushedList
<1> HIDE DEF d
<1>5. CountInv'
  BY <1>2, <1>3, <1>4, CountLess
<1>6. \A x \in DOMAIN alloc' : \A c \in Block : Belongs(x, c)' => x \in DOMAIN alloc /\ Belongs(x, c)
  BY <1>1, <1>2 DEF Belongs, Accounted
<1>7. SizeInv'
  BY <1>6, SizeKept
<1> QED
  BY <1>5, <1>7

LEMMA CountXmalloc ==
  ASSUME IInv, Grown, NEW t \in Threads, xmalloc(t) PROVE SizeInv' /\ CountInv'
<1>1. PICK r, q \in ThreadSet : Begun(t, r, q)
  BY XmallocStep
<1>2. /\ th'[t].at \notin {"header", "account"} /\ \A u \in Threads \ {t} : th'[u] = th[u]
      /\ UNCHANGED <<alloc, heap, header, live>> /\ th[t].at # "header"
  BY <1>1 DEF Begun, xmalloc, Calls, At, IInv, TypeInv
<1>3. \A x : \A c \in Block : OwnUse(t, x, c)' <=> OwnUse(t, x, c)
  BY <1>2, OwnUseStill DEF Plain
<1> QED
  BY <1>2, <1>3, CountStill

LEMMA CountXrealloc ==
  ASSUME IInv, Grown, NEW t \in Threads, xrealloc(t) PROVE SizeInv' /\ CountInv'
<1>1. PICK b \in DOMAIN live \ Plain : \E r, q \in ThreadSet :
        live' = Without(live, b) /\ Begun(t, r, q)
  BY XreallocStep
<1>2. PICK r, q \in ThreadSet : live' = Without(live, b) /\ Begun(t, r, q)
  BY <1>1
<1>3. /\ th'[t].at \notin {"header", "account"} /\ \A u \in Threads \ {t} : th'[u] = th[u]
      /\ UNCHANGED <<alloc, heap, header>> /\ th[t].at # "header"
  BY <1>2 DEF Begun, xrealloc, Calls, At, IInv, TypeInv
<1>4. Plain' = Plain
  BY <1>2, <1>3 DEF Plain, Without
<1>5. \A x : \A c \in Block : OwnUse(t, x, c)' <=> OwnUse(t, x, c)
  BY <1>3, <1>4, OwnUseStill
<1> QED
  BY <1>3, <1>5, CountStill

LEMMA CountXfree ==
  ASSUME IInv, Grown, NEW t \in Threads, xfree(t) PROVE SizeInv' /\ CountInv'
<1>1. PICK b \in DOMAIN live \ Plain :
        /\ live' = Without(live, b)
        /\ th' = [th EXCEPT ![t] = [Idle EXCEPT !.at = "free", !.block = b, !.id = header[b]]]
  BY DEF xfree, Go
<1>2. /\ th'[t].at = "free" /\ \A u \in Threads \ {t} : th'[u] = th[u]
      /\ UNCHANGED <<alloc, heap, header>> /\ th[t].at # "header"
  BY <1>1 DEF Idle, xfree, Calls, At, IInv, TypeInv
<1>3. Plain' = Plain
  BY <1>1, <1>2 DEF Plain, Without
<1>4. \A x : \A c \in Block : OwnUse(t, x, c)' <=> OwnUse(t, x, c)
  BY <1>2, <1>3, OwnUseStill
<1> QED
  BY <1>2, <1>4, CountStill

LEMMA CountInsertAllocator ==
  ASSUME IInv, TypeInv', Grown, NEW t \in Threads, InsertAllocator(t) PROVE SizeInv' /\ CountInv'
<1> DEFINE n == Len(_allocators) + 1
<1>1. /\ th[t].size \in Sizes /\ th[t] \in ThreadSet /\ Len(_allocators) \in Nat
      /\ DOMAIN alloc = 0 .. Len(_allocators) /\ th[t].at = "insert"
  BY ThreadType DEF IInv, ThreadOk, InsertAllocator, At, TypeInv
<1>2. /\ UNCHANGED <<heap, header, live>> /\ th'[t].at \in {"pop", "insert"}
      /\ \A u \in Threads \ {t} : th'[u] = th[u]
  <2>1. CASE UNCHANGED th
    BY <1>1, <2>1 DEF InsertAllocator, Halt
  <2>2. CASE \E id : th' = [th EXCEPT ![t] = [th[t] EXCEPT !.at = "pop", !.id = id]]
    <3>1. th'[t].at = "pop" /\ \A u \in Threads \ {t} : th'[u] = th[u]
      BY <1>1, <2>2 DEF IInv, TypeInv, ThreadSet
    <3> QED
      BY <3>1 DEF InsertAllocator, Halt
  <2> QED
    BY <2>1, <2>2 DEF InsertAllocator, Go
<1>3. \A x : \A c \in Block : OwnUse(t, x, c)' <=> OwnUse(t, x, c)
  BY <1>1, <1>2, OwnUseStill DEF Plain
<1>4. CASE UNCHANGED alloc
  BY <1>2, <1>3, <1>4, CountStill
<1>5. CASE ~UNCHANGED alloc
  <2> DEFINE s == BlockSize(th[t].size)
  <2>1. alloc' = Put(alloc, n, NewAllocator(s, 0)) /\ s \in Nat
    BY <1>1, <1>5, BlockIsLargeEnough DEF InsertAllocator, Halt
  <2>2. /\ NewAllocator(s, 0).m_pHead = <<>> /\ NewAllocator(s, 0).m_poolIndex = 0
        /\ NewAllocator(s, 0).m_blockCnt = 0 /\ NewAllocator(s, 0).m_blocksInUse = 0
        /\ NewAllocator(s, 0).m_allocations = 0 /\ NewAllocator(s, 0).m_deallocations = 0
    BY <2>1, NewAllocatorType
  <2> HIDE DEF s
  <2>3. /\ DOMAIN alloc' = DOMAIN alloc \cup {n} /\ alloc'[n] = NewAllocator(s, 0)
        /\ \A x \in DOMAIN alloc : alloc'[x] = alloc[x]
    BY <1>1, <2>1 DEF Put
  <2>4. \A x : \A c \in Block : Uses(x, c)' <=> Uses(x, c)
    BY <1>2, <1>3, UsesLocal
  <2>5. \A x, c : Accounted(x, c)' => Accounted(x, c)
    BY <1>2, AccountsLocal DEF Accounts, At
  <2>6. \A c \in Block : ~Uses(n, c) /\ ~Accounted(n, c)
    <3>1. \A u \in Threads : th[u].at \in {"header", "account"} => th[u].id \in 1 .. Len(_allocators)
      BY DEF IInv, ThreadOk
    <3>2. \A c \in DOMAIN header : header[c] \in 1 .. Len(_allocators)
      BY DEF IInv, TypeInv
    <3> QED
      BY <1>1, <3>1, <3>2 DEF Uses, Accounted, Accounts, At
  <2>7. \A x \in DOMAIN alloc : CountIs(x)'
    BY <2>3, <2>4, CountIsKept
  <2>8. \A x : x = n => CountIs(x)'
    <3> SUFFICES ASSUME NEW x, x = n PROVE CountIs(x)'
      OBVIOUS
    <3>1. InUse(x)' = {}
      BY <2>4, <2>6 DEF InUse
    <3>2. IsFiniteSet(InUse(x))' /\ Cardinality(InUse(x))' = 0
      BY <3>1, FS_EmptySet
    <3>3. alloc'[x] = NewAllocator(s, 0)
      BY <2>3
    <3> HIDE DEF n
    <3>4. /\ alloc'[x].m_pHead = <<>> /\ alloc'[x].m_poolIndex = 0
          /\ alloc'[x].m_blockCnt = 0 /\ alloc'[x].m_blocksInUse = 0
          /\ alloc'[x].m_allocations = 0 /\ alloc'[x].m_deallocations = 0
      BY <2>2, <3>3
    <3>5. /\ Len(alloc'[x].m_pHead) + alloc'[x].m_blocksInUse =
               alloc'[x].m_poolIndex + alloc'[x].m_blockCnt
          /\ alloc'[x].m_blocksInUse = alloc'[x].m_allocations - alloc'[x].m_deallocations
      BY <3>4
    <3> QED
      BY <3>2, <3>4, <3>5 DEF CountIs
  <2> HIDE DEF n
  <2>9. CountInv'
    BY <2>3, <2>7, <2>8 DEF CountInv, CountIs
  <2>10. \A x \in DOMAIN alloc' : \A c \in Block : Belongs(x, c)' => x \in DOMAIN alloc /\ Belongs(x, c)
    <3>1. Elements(<<>>) = {}
      BY DEF Elements
    <3> QED
      BY <2>2, <2>3, <2>4, <2>5, <2>6, <3>1 DEF Belongs, Accounted
  <2>11. SizeInv'
    BY <1>2, <2>10, SizeKept
  <2> QED
    BY <2>9, <2>11
<1> QED
  BY <1>4, <1>5

LEMMA CountPopBlock ==
  ASSUME IInv, TypeInv', Grown, NEW t \in Threads, PopBlock(t) PROVE SizeInv' /\ CountInv'
<1> DEFINE id == th[t].id
           b  == Allocate(id).block
<1>1. /\ id \in 0 .. Len(_allocators) /\ th[t] \in ThreadSet /\ th[t].at = "pop"
      /\ DOMAIN th = Threads
  BY ThreadType DEF IInv, ThreadOk, PopBlock, At, TypeInv
<1>2. UNCHANGED <<_allocators, heap, header, live>>
  BY DEF PopBlock, Halt
<1>3. CASE HasFree(alloc[id]) \/ HasRoom(alloc[id])
  <2>1. /\ alloc' = [alloc EXCEPT ![id] = Allocate(id).a]
        /\ th' = [th EXCEPT ![t] = [th[t] EXCEPT !.at = "header", !.block = b]]
    BY <1>3 DEF PopBlock, Go, Exhausted, HasRoom, UsesHeap
  <2>2. ~Exhausted(alloc[id]) /\ heap' = HeapAfter(id)
    BY <1>2, <1>3 DEF Exhausted, HeapAfter, HasRoom, UsesHeap
  <2> HIDE DEF b
  <2>3. /\ th'[t].at = "header" /\ th'[t].block = b /\ th'[t].id = id
        /\ \A u \in Threads \ {t} : th'[u] = th[u]
    BY <1>1, <2>1 DEF ThreadSet
  <2>4. \A x : \A c \in Block : OwnUse(t, x, c)' <=> OwnUse(t, x, c) \/ (x = id /\ c = b)
    BY <1>1, <1>2, <2>3 DEF OwnUse, Writes, At, Plain
  <2>5. \A x : \A c \in Block : Uses(x, c)' <=> Uses(x, c) \/ (x = id /\ c = b)
    BY <2>3, <2>4, UsesLocal
  <2>6. \A x, c : Accounted(x, c)' => Accounted(x, c)
    BY <2>3, AccountsLocal DEF Accounts, At
  <2> HIDE DEF id
  <2> QED
    BY <1>1, <1>2, <2>1, <2>2, <2>5, <2>6, AllocateCount DEF b
<1>4. CASE ~HasFree(alloc[id]) /\ ~HasRoom(alloc[id])
  <2>1. UNCHANGED alloc
    BY <1>4 DEF PopBlock, Halt
  <2>2. th'[t].at \in {"pop", "new"} /\ \A u \in Threads \ {t} : th'[u] = th[u]
    <3>1. CASE UNCHANGED th
      BY <1>1, <3>1
    <3>2. CASE th' = [th EXCEPT ![t] = [th[t] EXCEPT !.at = "new"]]
      BY <1>1, <3>2 DEF ThreadSet
    <3> QED
      BY <1>4, <3>1, <3>2 DEF PopBlock, Go
  <2>3. \A x : \A c \in Block : OwnUse(t, x, c)' <=> OwnUse(t, x, c)
    BY <1>1, <1>2, <2>2, OwnUseStill DEF Plain
  <2> QED
    BY <1>2, <2>1, <2>2, <2>3, CountStill
<1> QED
  BY <1>3, <1>4

LEMMA CountNewBlock ==
  ASSUME IInv, TypeInv', Grown, NEW t \in Threads, NewBlock(t) PROVE SizeInv' /\ CountInv'
<1> DEFINE id == th[t].id
<1>1. /\ id \in DOMAIN alloc /\ th[t] \in ThreadSet /\ th[t].at = "new" /\ DOMAIN th = Threads
      /\ heap \in Seq(Nat) /\ alloc[id].m_blockSize \in Nat
  BY ThreadType, AllocatorAt DEF IInv, ThreadOk, NewBlock, At, TypeInv
<1>2. /\ UNCHANGED <<_allocators, alloc, header, live>>
      /\ heap' = Append(heap, alloc[id].m_blockSize)
      /\ th' = [th EXCEPT ![t] = [th[t] EXCEPT !.at = "account", !.block = HeapBlock]]
  BY DEF NewBlock, Go
<1>3. /\ th'[t].at = "account" /\ th'[t].block = HeapBlock /\ th'[t].id = id
      /\ \A u \in Threads \ {t} : th'[u] = th[u]
  BY <1>1, <1>2 DEF ThreadSet
<1>4. \A x : \A c \in Block : OwnUse(t, x, c)' <=> OwnUse(t, x, c)
  BY <1>1, <1>2, <1>3, OwnUseStill DEF Plain
<1>5. \A x : \A c \in Block : Uses(x, c)' <=> Uses(x, c)
  BY <1>3, <1>4, UsesLocal
<1> HIDE DEF id
<1>6. heap'[Len(heap) + 1] = alloc[id].m_blockSize /\ \A n \in 1 .. Len(heap) : heap'[n] = heap[n]
  BY <1>1, <1>2
<1>7. \A x, c : Accounts(t, x, c)' => x = id /\ c = HeapBlock
  BY <1>3 DEF Accounts
<1>8. \A x \in DOMAIN alloc' : \A c \in Block :
        Belongs(x, c)' => (x \in DOMAIN alloc /\ Belongs(x, c)) \/ BytesOf(c)' = alloc'[x].m_blockSize
  <2> SUFFICES ASSUME NEW x \in DOMAIN alloc, NEW c \in Block, Belongs(x, c)'
               PROVE  Belongs(x, c) \/ BytesOf(c)' = alloc'[x].m_blockSize
    BY <1>2
  <2>1. CASE Accounts(t, x, c)'
    <3>1. x = id /\ c[1] = Heap /\ c[2] = Len(heap) + 1
      BY <1>7, <2>1 DEF HeapBlock
    <3> QED
      BY <1>2, <1>6, <3>1 DEF BytesOf
  <2>2. CASE ~Accounts(t, x, c)'
    <3>1. Accounted(x, c)' => Accounted(x, c)
      BY <1>3, <2>2, AccountsLocal
    <3> QED
      BY <1>2, <1>5, <3>1 DEF Belongs, Accounted
  <2> QED
    BY <2>1, <2>2
<1>9. SizeInv'
  BY <1>6, <1>8, SizeKept
<1>10. CountInv'
  BY <1>2, <1>5, CountSame
<1> QED
  BY <1>9, <1>10

LEMMA CountAccountNew ==
  ASSUME IInv, TypeInv', Grown, NEW t \in Threads, AccountNew(t) PROVE SizeInv' /\ CountInv'
<1> DEFINE id == th[t].id
           b  == th[t].block
           a  == alloc[id]
           d  == AccountAlloc(alloc[id], TRUE)
<1>1. /\ id \in DOMAIN alloc /\ th[t] \in ThreadSet /\ th[t].at = "account" /\ DOMAIN th = Threads
      /\ a \in AllocatorSet
  BY ThreadType, AllocatorAt DEF IInv, ThreadOk, AccountNew, At, TypeInv
<1>2. /\ UNCHANGED <<_allocators, heap, header, live>> /\ alloc' = [alloc EXCEPT ![id] = d]
      /\ th' = [th EXCEPT ![t] = [th[t] EXCEPT !.at = "header"]]
  BY <1>1 DEF AccountNew, Go
<1>3. /\ th'[t].at = "header" /\ th'[t].block = b /\ th'[t].id = id
      /\ \A u \in Threads \ {t} : th'[u] = th[u]
  BY <1>1, <1>2 DEF ThreadSet
<1>4. /\ b \in Block /\ b \notin DOMAIN live /\ b \notin DOMAIN header
      /\ \A u \in Threads : th[u].block = b => u = t
  BY <1>1, NoHeaderYet
<1>5. Accounted(id, b)
  BY <1>1 DEF Accounted, Accounts, At
<1>6. /\ d.m_pHead = a.m_pHead /\ d.m_poolIndex = a.m_poolIndex /\ d.m_blockCnt = a.m_blockCnt + 1
      /\ d.m_blocksInUse = a.m_blocksInUse + 1 /\ d.m_allocations = a.m_allocations + 1
      /\ d.m_deallocations = a.m_deallocations
  BY <1>1, AccountEffect
<1>7. /\ Len(a.m_pHead) + a.m_blocksInUse = a.m_poolIndex + a.m_blockCnt
      /\ Len(a.m_pHead) \in Nat /\ a.m_poolIndex \in Nat
      /\ a.m_blockCnt \in Nat /\ a.m_blocksInUse \in Nat
  BY <1>1, CountOf
<1>8. /\ DOMAIN alloc' = DOMAIN alloc /\ alloc'[id] = d
      /\ \A x \in DOMAIN alloc : x # id => alloc'[x] = alloc[x]
  BY <1>1, <1>2
<1>9. ~Uses(id, b)
  BY <1>1, <1>4 DEF Uses, Plain, At
<1> HIDE DEF d
<1>10. \A x : \A c \in Block : OwnUse(t, x, c)' <=> OwnUse(t, x, c) \/ (x = id /\ c = b)
  BY <1>1, <1>2, <1>3 DEF OwnUse, Writes, At, Plain
<1> HIDE DEF id, b, a
<1>11. \A x : \A c \in Block : Uses(x, c)' <=> Uses(x, c) \/ (x = id /\ c = b)
  BY <1>3, <1>10, UsesLocal
<1>12. \A x, c : Accounted(x, c)' => Accounted(x, c)
  BY <1>3, AccountsLocal DEF Accounts, At
<1>13. Len(d.m_pHead) + d.m_blocksInUse = d.m_poolIndex + d.m_blockCnt
  BY <1>6, <1>7
<1>14. CountInv'
  BY <1>1, <1>4, <1>6, <1>8, <1>9, <1>11, <1>13, CountMore DEF a
<1>15. \A x \in DOMAIN alloc' : \A c \in Block : Belongs(x, c)' => x \in DOMAIN alloc /\ Belongs(x, c)
  <2> SUFFICES ASSUME NEW x \in DOMAIN alloc, NEW c \in Block, Belongs(x, c)' PROVE Belongs(x, c)
    BY <1>8
  <2>1. alloc'[x].m_pHead = alloc[x].m_pHead
    BY <1>6, <1>8 DEF a
  <2>2. CASE x = id /\ c = b
    BY <1>5, <2>2 DEF Belongs, Accounted
  <2>3. CASE ~(x = id /\ c = b)
    BY <1>11, <1>12, <2>1, <2>3 DEF Belongs, Accounted
  <2> QED
    BY <2>2, <2>3
<1>16. SizeInv'
  BY <1>2, <1>15, SizeKept
<1> QED
  BY <1>14, <1>16

LEMMA CountSetHeader ==
  ASSUME IInv, Grown, NEW t \in Threads, SetHeader(t) PROVE SizeInv' /\ CountInv'
<1> DEFINE id == th[t].id
           b  == th[t].block
<1>1. /\ th[t].at = "header" /\ DOMAIN th = Threads
      /\ UNCHANGED <<alloc, heap>> /\ header' = Put(header, b, id)
      /\ DOMAIN live' = DOMAIN live \cup {b}
  BY DEF SetHeader, At, Put, IInv, TypeInv
<1>2. b \in Block /\ b \notin DOMAIN live /\ b \notin DOMAIN header
  BY <1>1, NoHeaderYet
<1>3. /\ DOMAIN header' = DOMAIN header \cup {b} /\ header'[b] = id
      /\ \A c : c # b /\ c \in DOMAIN header => header'[c] = header[c]
  BY <1>1 DEF Put
<1>4. th'[t].at \in {"idle", "free"} /\ \A u \in Threads \ {t} : th'[u] = th[u]
  BY <1>1 DEF SetHeader, Go, Idle
<1>5. \A c : c \in Plain' <=> c \in Plain
  BY <1>1, <1>2, <1>3 DEF Plain
<1>6. \A x : \A c \in Block : OwnUse(t, x, c)' <=> OwnUse(t, x, c)
  <2> SUFFICES ASSUME NEW x, NEW c \in Block PROVE OwnUse(t, x, c)' <=> OwnUse(t, x, c)
    OBVIOUS
  <2>1. ~Writes(t, x, c)' /\ (Writes(t, x, c) <=> c = b /\ x = id)
    BY <1>1, <1>4 DEF Writes, At
  <2>2. (c \in DOMAIN header' /\ header'[c] = x) <=>
          (c \in DOMAIN header /\ header[c] = x) \/ (c = b /\ x = id)
    BY <1>2, <1>3
  <2> QED
    BY <1>5, <2>1, <2>2 DEF OwnUse
<1> QED
  BY <1>1, <1>4, <1>6, CountStill

LEMMA CountDeallocate ==
  ASSUME IInv, TypeInv', Grown, NEW t \in Threads, Deallocate(t) PROVE SizeInv' /\ CountInv'
<1> DEFINE id == th[t].id
           b  == th[t].block
<1>1. /\ th[t].at = "free" /\ DOMAIN th = Threads /\ id \in 0 .. Len(_allocators) /\ b \in Block
      /\ b \in DOMAIN header /\ header[b] = id /\ id # 0
  BY ThreadType DEF IInv, ThreadOk, Deallocate, At, TypeInv
<1>2. Owns("block", t, b) /\ "block" \in Kinds
  BY DEF Owns, Kinds
<1>3. /\ b \notin DOMAIN live /\ \A y \in DOMAIN alloc : b \notin Elements(alloc[y].m_pHead)
      /\ \A u \in Threads : th[u].block = b => u = t
  BY <1>1, <1>2, Owner DEF IInv
<1>4. /\ alloc' = [alloc EXCEPT ![id] = DeallocateBlock(alloc[id], b)]
      /\ th' = [th EXCEPT ![t] = Idle] /\ header' = Without(header, b)
      /\ UNCHANGED <<_allocators, heap, live>>
  BY <1>1 DEF Deallocate, Go, IInv, TypeInv
<1>5. /\ th'[t].at = "idle" /\ \A u \in Threads \ {t} : th'[u] = th[u]
      /\ DOMAIN header' = DOMAIN header \ {b}
      /\ \A c \in DOMAIN header' : header'[c] = header[c]
  BY <1>1, <1>4 DEF Idle, Without
<1> HIDE DEF id, b
<1>6. \A x : \A c \in Block : OwnUse(t, x, c)' <=> OwnUse(t, x, c) /\ c # b
  BY <1>1, <1>3, <1>4, <1>5 DEF OwnUse, Writes, At, Plain
<1>7. \A x : \A c \in Block : Uses(x, c)' <=> Uses(x, c) /\ ~(x = id /\ c = b)
  <2>1. \A x : ~OtherUse(t, x, b)
    BY <1>3 DEF OtherUse, Writes
  <2>2. \A x : OwnUse(t, x, b) <=> x = id
    BY <1>1, <1>3 DEF OwnUse, Writes, At, Plain
  <2> QED
    BY <1>5, <1>6, <2>1, <2>2, UsesLocal
<1>8. \A x, c : Accounted(x, c)' => Accounted(x, c)
  BY <1>5, AccountsLocal DEF Accounts, At
<1>9. Uses(id, b)
  BY <1>1 DEF Uses
<1> QED
  BY <1>1, <1>3, <1>4, <1>7, <1>8, <1>9, DeallocateCount

LEMMA CountClassNew ==
  ASSUME IInv, TypeInv', Grown, NEW t \in Threads, ClassNew(t) PROVE SizeInv' /\ CountInv'
<1> DEFINE b == Allocate(0).block
<1>1. /\ UNCHANGED <<th, header, _allocators>> /\ 0 \in 0 .. Len(_allocators) /\ th[t].at = "idle"
  BY DEF ClassNew, Calls, At, Halt, IInv, TypeInv
<1>2. CASE Exhausted(alloc[0])
  <2>1. UNCHANGED <<alloc, heap, live>>
    BY <1>2 DEF ClassNew, Halt
  <2>2. \A x : \A c \in Block : OwnUse(t, x, c)' <=> OwnUse(t, x, c)
    BY <1>1, <2>1, OwnUseStill DEF Plain
  <2> QED
    BY <1>1, <2>1, <2>2, CountStill
<1>3. CASE ~Exhausted(alloc[0])
  <2>1. /\ alloc' = [alloc EXCEPT ![0] = Allocate(0).a] /\ heap' = HeapAfter(0)
        /\ DOMAIN live' = DOMAIN live \cup {b}
    BY <1>3 DEF ClassNew, Put
  <2>2. b \in Block /\ b \notin DOMAIN live /\ \A u \in Threads : th[u].block # b /\ th[u].old # b
    BY <1>1, <1>3, <2>1, AllocateOwner
  <2> HIDE DEF b
  <2>3. b \notin DOMAIN header
    BY <2>2, NoHeader
  <2>4. \A x : \A c \in Block : OwnUse(t, x, c)' <=> OwnUse(t, x, c) \/ (x = 0 /\ c = b)
    BY <1>1, <2>1, <2>3 DEF OwnUse, Writes, At, Plain
  <2>5. \A x : \A c \in Block : Uses(x, c)' <=> Uses(x, c) \/ (x = 0 /\ c = b)
    BY <1>1, <2>4, UsesLocal
  <2>6. \A x, c : Accounted(x, c)' => Accounted(x, c)
    BY <1>1 DEF Accounted, Accounts, At
  <2> QED
    BY <1>1, <1>3, <2>1, <2>5, <2>6, AllocateCount DEF b
<1> QED
  BY <1>2, <1>3

LEMMA CountClassDelete ==
  ASSUME IInv, TypeInv', Grown, NEW t \in Threads, ClassDelete(t) PROVE SizeInv' /\ CountInv'
<1>1. PICK b \in Plain : /\ live' = Without(live, b)
                         /\ alloc' = [alloc EXCEPT ![0] = DeallocateBlock(alloc[0], b)]
  BY DEF ClassDelete
<1>2. /\ UNCHANGED <<th, header, _allocators, heap>> /\ 0 \in 0 .. Len(_allocators)
      /\ th[t].at = "idle"
  BY DEF ClassDelete, Calls, At, IInv, TypeInv
<1>3. b \in Block /\ b \in DOMAIN live /\ b \notin DOMAIN header
  BY DEF Plain, IInv, TypeInv
<1>4. Owns("live", 0, b) /\ "live" \in Kinds
  BY <1>3 DEF Owns, Kinds
<1>5. /\ \A y \in DOMAIN alloc : b \notin Elements(alloc[y].m_pHead)
      /\ \A u \in Threads : th[u].block # b
  BY <1>3, <1>4, Owner DEF IInv
<1>6. DOMAIN live' = DOMAIN live \ {b}
  BY <1>1 DEF Without
<1>7. \A x : \A c \in Block : OwnUse(t, x, c)' <=> OwnUse(t, x, c) /\ c # b
  BY <1>2, <1>3, <1>5, <1>6 DEF OwnUse, Writes, At, Plain
<1>8. \A x : \A c \in Block : Uses(x, c)' <=> Uses(x, c) /\ ~(x = 0 /\ c = b)
  <2>1. \A x : ~OtherUse(t, x, b)
    BY <1>5 DEF OtherUse, Writes
  <2>2. \A x : OwnUse(t, x, b) <=> x = 0
    BY <1>3, <1>5 DEF OwnUse, Writes, Plain
  <2> QED
    BY <1>2, <1>7, <2>1, <2>2, UsesLocal
<1>9. Uses(0, b)
  BY DEF Uses
<1>10. \A x, c : Accounted(x, c)' => Accounted(x, c)
  BY <1>2 DEF Accounted, Accounts, At
<1> QED
  BY <1>1, <1>2, <1>3, <1>5, <1>8, <1>9, <1>10, DeallocateCount

LEMMA CountNext == IInv /\ [Next]_vars => SizeInv' /\ CountInv'
<1> SUFFICES ASSUME IInv, [Next]_vars PROVE SizeInv' /\ CountInv'
  OBVIOUS
<1>1. TypeInv'
  BY TypeNext
<1>2. CASE UNCHANGED vars
  <2>1. \A x, c : (Uses(x, c)' <=> Uses(x, c)) /\ (BytesOf(c)' = BytesOf(c))
    BY <1>2 DEF vars, Uses, Plain, At, BytesOf
  <2>2. SizeInv'
    BY <1>2, <2>1 DEF vars, IInv, SizeInv, At
  <2>3. CountInv'
    BY <1>2, <2>1, CountSame DEF vars
  <2> QED
    BY <2>2, <2>3
<1>3. ASSUME NEW t \in Threads, Step(t) PROVE SizeInv' /\ CountInv'
  <2>1. Grown
    BY <1>3, OneAllocatorStep
  <2> QED
    BY <1>1, <1>3, <2>1, CountXmalloc, CountInsertAllocator, CountPopBlock, CountNewBlock,
       CountAccountNew, CountSetHeader, CountXfree, CountDeallocate, CountXrealloc,
       CountClassNew, CountClassDelete DEF Step
<1> QED
  BY <1>2, <1>3 DEF Next

-----------------------------------------------------------------------------
(***************************************************************************)
(* The theorems.                                                           *)
(***************************************************************************)
LEMMA FirstAllocatorsAre ==
  ASSUME Init
  PROVE  /\ TypeInv
         /\ \A id \in DOMAIN alloc :
              /\ alloc[id].m_pHead = <<>> /\ alloc[id].m_poolIndex = 0
              /\ alloc[id].m_blockCnt = 0 /\ alloc[id].m_blocksInUse = 0
              /\ alloc[id].m_allocations = 0 /\ alloc[id].m_deallocations = 0
         /\ OneAllocatorPerSize
<1>1. /\ setup \in Setups /\ setup.size \in Nat /\ setup.objects \in Nat
      /\ PoolSizes \in Seq(Nat) /\ Len(PoolSizes) \in Nat /\ MaxBlocks \in Nat
      /\ \A i, j \in 1 .. Len(PoolSizes) :
           /\ PoolSizes[i] \in Nat /\ PoolSizes[i] >= PointerSize
           /\ i # j => PoolSizes[i] # PoolSizes[j]
  BY BoundsAssumption DEF Init
<1> DEFINE n == IF setup.pools THEN Len(PoolSizes) ELSE 0
<1>2. /\ n \in Nat /\ n <= Len(PoolSizes)
      /\ _allocators \in Seq(Nat) /\ Len(_allocators) = n
      /\ DOMAIN _allocators = 1 .. n /\ \A i \in 1 .. n : _allocators[i] = i
  BY <1>1 DEF Init
<1>3. /\ DOMAIN alloc = 0 .. n
      /\ alloc = [id \in 0 .. n |-> IF id = 0 THEN NewAllocator(setup.size, setup.objects)
                                    ELSE NewAllocator(PoolSizes[id], MaxBlocks)]
  BY DEF Init, FirstAllocators
<1> HIDE DEF n
<1>4. ASSUME NEW id \in 0 .. n
      PROVE  /\ alloc[id] \in AllocatorSet
             /\ alloc[id].m_pHead = <<>> /\ alloc[id].m_poolIndex = 0
             /\ alloc[id].m_blockCnt = 0 /\ alloc[id].m_blocksInUse = 0
             /\ alloc[id].m_allocations = 0 /\ alloc[id].m_deallocations = 0
             /\ id # 0 => alloc[id].m_blockSize = PoolSizes[id]
  <2>1. CASE id = 0
    BY <1>1, <1>3, <2>1, NewAllocatorType
  <2>2. CASE id # 0
    <3>1. id \in 1 .. Len(PoolSizes) /\ alloc[id] = NewAllocator(PoolSizes[id], MaxBlocks)
      BY <1>1, <1>2, <1>3, <2>2
    <3> QED
      BY <1>1, <3>1, NewAllocatorType
  <2> QED
    BY <2>1, <2>2
<1>5. OneAllocatorPerSize
  <2> SUFFICES ASSUME NEW i \in 1 .. n, NEW j \in 1 .. n, i # j
               PROVE  alloc[i].m_blockSize # alloc[j].m_blockSize
    BY <1>2 DEF OneAllocatorPerSize
  <2>1. i \in 1 .. Len(PoolSizes) /\ j \in 1 .. Len(PoolSizes)
    BY <1>1, <1>2
  <2>2. alloc[i].m_blockSize = PoolSizes[i] /\ alloc[j].m_blockSize = PoolSizes[j]
    BY <1>2, <1>4
  <2> QED
    BY <1>1, <2>1, <2>2
<1>6. TypeInv
  <2>1. alloc \in [0 .. n -> AllocatorSet]
    BY <1>3, <1>4
  <2>2. th \in [Threads -> ThreadSet]
    BY IdleType DEF Init
  <2>3. heap \in Seq(Nat) /\ DOMAIN header = {} /\ DOMAIN live = {} /\ calls \in Nat
    BY DEF Init
  <2> QED
    BY <1>1, <1>2, <2>1, <2>2, <2>3 DEF TypeInv
<1> QED
  BY <1>3, <1>4, <1>5, <1>6

LEMMA InitHolds == Init => IInv
<1> SUFFICES ASSUME Init PROVE IInv
  OBVIOUS
<1>1. /\ TypeInv /\ OneAllocatorPerSize
      /\ \A id \in DOMAIN alloc :
           /\ alloc[id].m_pHead = <<>> /\ alloc[id].m_poolIndex = 0
           /\ alloc[id].m_blockCnt = 0 /\ alloc[id].m_blocksInUse = 0
           /\ alloc[id].m_allocations = 0 /\ alloc[id].m_deallocations = 0
  BY FirstAllocatorsAre
<1>2. /\ DOMAIN header = {} /\ DOMAIN live = {} /\ DOMAIN heap = {} /\ Len(heap) = 0
      /\ \A t \in Threads : /\ th[t].at = "idle" /\ th[t].block = <<>> /\ th[t].old = <<>>
  BY DEF Init, Idle
<1>3. Elements(<<>>) = {} /\ Distinct(<<>>) /\ Plain = {}
  BY <1>2 DEF Elements, Distinct, Plain
<1>4. \A t \in Threads : ThreadOk(t)
  BY <1>2 DEF ThreadOk, At
<1>5. OwnInv
  <2>1. \A b \in Block : \A k \in Kinds : \A x \in Holders : ~Owns(k, x, b)
    BY <1>1, <1>2, <1>3, BlockIsAPair DEF Owns, Kinds
  <2>2. \A b \in Block : ~IsIssued(b)
    BY <1>1, <1>2 DEF IsIssued, TypeInv
  <2>3. \A b \in Block : b \notin Issued
    BY <1>1, <2>2, IssuedIs
  <2>4. OneOwner /\ AllOwned
    BY <2>1, <2>3 DEF OneOwner, AllOwned
  <2>5. ListsDistinct
    BY <1>1, <1>3 DEF ListsDistinct
  <2> QED
    BY <2>4, <2>5 DEF OwnInv
<1>6. HeaderInv /\ DataInv
  BY <1>2 DEF HeaderInv, DataInv
<1>7. \A id : \A b : ~Uses(id, b)
  BY <1>2, <1>3 DEF Uses, At
<1>8. SizeInv
  BY <1>1, <1>2, <1>3, <1>7 DEF SizeInv, At
<1>9. CountInv
  <2>1. ASSUME NEW id \in DOMAIN alloc PROVE CountIs(id)
    <3>1. InUse(id) = {}
      BY <1>7 DEF InUse
    <3>2. IsFiniteSet(InUse(id)) /\ Cardinality(InUse(id)) = 0
      BY <3>1, FS_EmptySet
    <3>3. /\ Len(alloc[id].m_pHead) + alloc[id].m_blocksInUse =
               alloc[id].m_poolIndex + alloc[id].m_blockCnt
          /\ alloc[id].m_blocksInUse = alloc[id].m_allocations - alloc[id].m_deallocations
      BY <1>1
    <3> QED
      BY <1>1, <3>2, <3>3 DEF CountIs
  <2> QED
    BY <2>1 DEF CountInv, CountIs
<1> QED
  BY <1>1, <1>4, <1>5, <1>6, <1>8, <1>9 DEF IInv

LEMMA StepHolds == IInv /\ [Next]_vars => IInv'
<1> SUFFICES ASSUME IInv, [Next]_vars PROVE IInv'
  OBVIOUS
<1>1. OneAllocatorPerSize'
  <2>1. CASE UNCHANGED vars
    BY <2>1 DEF vars, IInv, OneAllocatorPerSize
  <2>2. CASE Next
    BY <2>2, OneAllocatorStep DEF Next
  <2> QED
    BY <2>1, <2>2
<1>2. TypeInv' /\ OwnInv' /\ (\A t \in Threads : ThreadOk(t)')
  BY TypeNext, OwnNext, ThreadNext
<1>3. HeaderInv' /\ DataInv' /\ SizeInv' /\ CountInv'
  BY DataNext, CountNext
<1> QED
  BY <1>1, <1>2, <1>3 DEF IInv

LEMMA InvariantHolds == Spec => []IInv
BY InitHolds, StepHolds, PTL DEF Spec

\* For any number of threads that first ask for a block size at once, the table gets one
\* Allocator for it: InsertAllocator searches the table again under the lock.
THEOREM OneAllocator == Spec => []OneAllocatorPerSize
<1>1. IInv => OneAllocatorPerSize
  BY DEF IInv
<1> QED
  BY <1>1, InvariantHolds, PTL

\* The counts of every Allocator agree, and with its list: xalloc_stats() reports what is there,
\* because what is in use is the number of the blocks that are.
THEOREM StatisticsAreRight == Spec => []StatisticsBalance
<1>1. IInv => StatisticsBalance
  <2> SUFFICES ASSUME IInv, NEW id \in DOMAIN alloc
               PROVE  /\ Len(alloc[id].m_pHead) + alloc[id].m_blocksInUse =
                           alloc[id].m_poolIndex + alloc[id].m_blockCnt
                      /\ alloc[id].m_blocksInUse = alloc[id].m_allocations - alloc[id].m_deallocations
                      /\ alloc[id].m_blocksInUse >= 0
    BY DEF StatisticsBalance
  <2> QED
    BY CountOf
<1> QED
  BY <1>1, InvariantHolds, PTL

LEMMA HandsAre == ASSUME IInv, NEW b
                  PROVE  b \in InHand <=> b \in Block /\ \E t \in Threads : b \in {th[t].block, th[t].old}
BY ThreadType, BlockIsAPair DEF InHand, IInv

\* However the calls interleave, a block is on one list, with one client or in one call, and
\* none is lost; a client finds its data, in a block that is large enough.
THEOREM OneOwnerEach == Spec => []BlockHasOneOwner
<1>1. ASSUME IInv PROVE BlockHasOneOwner
  <2>1. ASSUME NEW id \in DOMAIN alloc, NEW b \in Elements(alloc[id].m_pHead)
        PROVE  /\ b \in Block /\ b \notin DOMAIN live /\ b \notin InHand
               /\ BytesOf(b) = alloc[id].m_blockSize
               /\ \A y \in DOMAIN alloc : b \in Elements(alloc[y].m_pHead) => y = id
    <3>1. b \in Block
      <4>1. alloc[id].m_pHead \in Seq(Block)
        BY <1>1 DEF IInv, TypeInv, AllocatorSet
      <4> QED
        BY <4>1 DEF Elements
    <3>2. Owns("free", id, b) /\ "free" \in Kinds
      BY DEF Owns, Kinds
    <3>3. /\ b \notin DOMAIN live
          /\ \A y \in DOMAIN alloc : b \in Elements(alloc[y].m_pHead) => y = id
          /\ \A u \in Threads : th[u].block # b /\ th[u].old # b
      BY <1>1, <3>1, <3>2, Owner DEF IInv
    <3>4. b \notin InHand
      BY <1>1, <3>3, HandsAre
    <3>5. BytesOf(b) = alloc[id].m_blockSize
      BY <1>1, <3>1, BelongsIssued DEF Belongs
    <3> QED
      BY <3>1, <3>3, <3>4, <3>5
  <2>2. \A id \in DOMAIN alloc : \A i, j \in DOMAIN alloc[id].m_pHead :
          i # j => alloc[id].m_pHead[i] # alloc[id].m_pHead[j]
    BY <1>1 DEF IInv, OwnInv, ListsDistinct, Distinct
  <2>3. ASSUME NEW t \in Threads, NEW u \in Threads, t # u
        PROVE  /\ th[t].block \notin {th[u].block, th[u].old} \ {<<>>}
               /\ th[t].old \notin {th[u].old} \ {<<>>}
    <3>1. ASSUME th[t].block # <<>> PROVE th[t].block \notin {th[u].block, th[u].old}
      <4>1. th[t].block \in Block /\ Owns("block", t, th[t].block) /\ "block" \in Kinds
        BY <1>1, <3>1, ThreadType DEF IInv, Owns, Kinds
      <4> QED
        BY <1>1, <2>3, <4>1, Owner DEF IInv
    <3>2. ASSUME th[t].old # <<>> PROVE th[t].old # th[u].old
      <4>1. th[t].old \in Block /\ Owns("old", t, th[t].old) /\ "old" \in Kinds
        BY <1>1, <3>2, ThreadType DEF IInv, Owns, Kinds
      <4> QED
        BY <1>1, <2>3, <4>1, Owner DEF IInv
    <3> QED
      BY <3>1, <3>2
  <2>4. DOMAIN live \cap InHand = {}
    <3> SUFFICES ASSUME NEW b \in DOMAIN live PROVE b \notin InHand
      OBVIOUS
    <3>1. b \in Block /\ Owns("live", 0, b) /\ "live" \in Kinds
      BY <1>1 DEF IInv, TypeInv, Owns, Kinds
    <3>2. \A u \in Threads : th[u].block # b /\ th[u].old # b
      BY <1>1, <3>1, Owner DEF IInv
    <3> QED
      BY <1>1, <3>2, HandsAre
  <2>5. Issued = InHand \cup DOMAIN live
                   \cup UNION {Elements(alloc[id].m_pHead) : id \in DOMAIN alloc}
    <3>1. Issued \subseteq Block
      <4>1. /\ Heap \in Int /\ DOMAIN heap \subseteq Int
            /\ \A id \in DOMAIN alloc : id \in Int /\ 0 .. alloc[id].m_poolIndex - 1 \subseteq Int
        BY <1>1 DEF Heap, IInv, TypeInv
      <4> QED
        BY <4>1 DEF Issued, Block
    <3>2. ASSUME NEW b \in Block
          PROVE  b \in Issued <=> \/ b \in InHand \/ b \in DOMAIN live
                                  \/ \E id \in DOMAIN alloc : b \in Elements(alloc[id].m_pHead)
      <4>1. (\E k \in Kinds : \E x \in Holders : Owns(k, x, b)) <=>
              \/ \E t \in Threads : b \in {th[t].block, th[t].old}
              \/ b \in DOMAIN live
              \/ \E id \in DOMAIN alloc : b \in Elements(alloc[id].m_pHead)
        <5>1. 0 \in Holders /\ DOMAIN alloc \subseteq Holders /\ Threads \subseteq Holders
          BY <1>1 DEF Holders, IInv, TypeInv
        <5>2. \A k \in Kinds : k \in {"free", "live", "block", "old"}
          BY DEF Kinds
        <5>3. {"free", "live", "block", "old"} \subseteq Kinds
          BY DEF Kinds
        <5> QED
          BY <5>1, <5>2, <5>3 DEF Owns
      <4>2. b \in Issued <=> \E k \in Kinds : \E x \in Holders : Owns(k, x, b)
        BY <1>1 DEF IInv, OwnInv, AllOwned
      <4> QED
        BY <1>1, <4>1, <4>2, HandsAre
    <3>3. InHand \subseteq Block /\ DOMAIN live \subseteq Block
      BY <1>1, HandsAre DEF IInv, TypeInv
    <3> QED
      BY <2>1, <3>1, <3>2, <3>3
  <2>6. ASSUME NEW b \in DOMAIN live
        PROVE  /\ memory[b] = live[b].data
               /\ b \notin Plain => live[b].size + Overhead <= BytesOf(b)
    <3>1. /\ memory[b] = live[b].data /\ b \in Block
          /\ b \in DOMAIN header =>
               live[b].size + Overhead <= alloc[header[b]].m_blockSize /\ header[b] \in DOMAIN alloc
      BY <1>1 DEF IInv, DataInv, TypeInv
    <3>2. b \in DOMAIN header => BytesOf(b) = alloc[header[b]].m_blockSize
      BY <1>1, <3>1, BelongsIssued DEF Belongs, Uses
    <3> QED
      BY <3>1, <3>2 DEF Plain
  <2>7. \A b \in Plain : memory[b] = live[b].data
    BY <2>6 DEF Plain
  <2>8. \A id \in DOMAIN alloc :
          LET free == alloc[id].m_pHead
          IN /\ \A i, j \in DOMAIN free : i # j => free[i] # free[j]
             /\ \A b \in Elements(free) : b \notin DOMAIN live /\ b \notin InHand
                                          /\ BytesOf(b) = alloc[id].m_blockSize
             /\ \A other \in DOMAIN alloc \ {id} :
                  Elements(free) \cap Elements(alloc[other].m_pHead) = {}
    BY <2>1, <2>2
  <2> QED
    BY <2>3, <2>4, <2>5, <2>6, <2>7, <2>8 DEF BlockHasOneOwner
<1> QED
  BY <1>1, InvariantHolds, PTL

=============================================================================
