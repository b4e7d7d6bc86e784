----------------------------- MODULE XAllocator ------------------------------
(***************************************************************************)
(* The fixed-block allocator: class Allocator, and xmalloc(), xrealloc()   *)
(* and xfree(), which find an Allocator for every block size.  Threads     *)
(* call them at once.  One mutex guards the table and the lists, and is    *)
(* released around new, so a call is several actions.  A class with an     *)
(* Allocator and a mutex of its own is allocator 0.                        *)
(*                                                                         *)
(* A block is an address: <<Heap, n>>, or <<id, n>> for the n-th of a      *)
(* pool; a free list is a sequence of blocks.  A program frees each block  *)
(* once and writes inside it, so the guard words of the safeguards build   *)
(* have nothing to find and are left out.  Sizes are small: at the top of  *)
(* size_t, NextHigher() wraps to 0.  The header is a pointer at least.     *)
(***************************************************************************)
EXTENDS Integers, Sequences

CONSTANTS Setups,        \* [pools, size, objects]: STATIC_POOLS, and the class's Allocator
          Threads,
          Sizes,         \* sizes that the program asks for
          Overhead,      \* header and footer of a block
          PointerSize,
          SizeBits,      \* width of size_t
          MaxAllocators, \* MAX_ALLOCATORS
          PoolSizes,     \* block sizes of the static pools, in the order of the table
          MaxBlocks,     \* MAX_BLOCKS of a static pool
          MaxCalls       \* calls that the program makes (bound of the model)

ASSUME BoundsAssumption ==
  /\ Setups \subseteq [pools : BOOLEAN, size : Nat, objects : Nat]
  /\ {SizeBits, PointerSize, MaxAllocators, MaxBlocks} \subseteq Nat \ {0}
  /\ MaxCalls \in Nat /\ Overhead \in Nat /\ PointerSize <= Overhead
  /\ PoolSizes \in Seq(Nat) /\ Len(PoolSizes) <= MaxAllocators
  /\ \A i, j \in DOMAIN PoolSizes : PoolSizes[i] >= PointerSize /\ (i # j => PoolSizes[i] # PoolSizes[j])
  /\ Sizes \subseteq Nat
  /\ \A size \in Sizes : size + Overhead <= 2 ^ (SizeBits - 1) /\ size + Overhead < 2 ^ SizeBits

\* The provers know nothing of ^.
ASSUME PowerAssumption == \A i \in 0 .. SizeBits : 2 ^ i \in Nat

VARIABLES
  setup,
  _allocators, \* the table: ids, in order
  alloc,       \* the Allocator of each id
  heap,        \* sizes of the blocks that new has returned
  header,      \* the id in the header of a block
  live,        \* [size, data]: what a client keeps in each block it owns
  memory,      \* what is in each block
  th,          \* where each thread is in its call
  calls, halted

vars == <<setup, _allocators, alloc, heap, header, live, memory, th, calls, halted>>

-----------------------------------------------------------------------------
(* class Allocator.                                                        *)

\* A list of heap blocks (no objects), or a pool; whose memory it is tells only the destructor.
NewAllocator(size, objects) ==
  [m_blockSize |-> IF size < PointerSize THEN PointerSize ELSE size, m_maxObjects |-> objects,
   m_pHead |-> <<>>, m_poolIndex |-> 0, m_blockCnt |-> 0, m_blocksInUse |-> 0,
   m_allocations |-> 0, m_deallocations |-> 0]

Push(a, b) == [a EXCEPT !.m_pHead = <<b>> \o @]
\* Mutant: the head of the list stays where it is.
PopNothing(a) == a
Pop(a)     == [a EXCEPT !.m_pHead = Tail(@)]

\* Mutant: a block that was recycled counts as a new one.
AccountAsNew(a, newBlock) == [a EXCEPT !.m_blockCnt = @ + 1, !.m_blocksInUse = @ + 1,
                                       !.m_allocations = @ + 1]
AccountAlloc(a, newBlock) == [a EXCEPT !.m_blockCnt = IF newBlock THEN @ + 1 ELSE @,
                                       !.m_blocksInUse = @ + 1, !.m_allocations = @ + 1]

DeallocateBlock(a, b) == [Push(a, b) EXCEPT !.m_blocksInUse = @ - 1, !.m_deallocations = @ + 1]

HasFree(a)   == a.m_pHead # <<>>
HasRoom(a)   == a.m_maxObjects > 0 /\ a.m_poolIndex < a.m_maxObjects
UsesHeap(a)  == a.m_maxObjects = 0
Exhausted(a) == ~HasFree(a) /\ ~HasRoom(a) /\ ~UsesHeap(a)
Heap         == -1
HeapBlock    == <<Heap, Len(heap) + 1>>

\* Allocate(): the block, and the Allocator afterwards; an exhausted one is out of memory.
\* (A new_handler would be asked first.)
Allocate(id) ==
  LET a == alloc[id]
  IN CASE HasFree(a) -> [block |-> a.m_pHead[1], a |-> AccountAlloc(Pop(a), FALSE)]
       [] ~HasFree(a) /\ HasRoom(a) ->
            [block |-> <<id, a.m_poolIndex>>,
             a |-> AccountAlloc([a EXCEPT !.m_poolIndex = @ + 1], FALSE)]
       [] OTHER -> [block |-> HeapBlock, a |-> AccountAlloc(a, TRUE)]

\* new char[m_blockSize], when Allocate() comes to it.
HeapAfter(id) == IF ~HasFree(alloc[id]) /\ UsesHeap(alloc[id])
                 THEN Append(heap, alloc[id].m_blockSize) ELSE heap

-----------------------------------------------------------------------------
\* The next power of two: 0 if there is none of that width.
NextHigher(k) == LET above == {i \in 0 .. SizeBits - 1 : 2 ^ i >= k}
                 IN IF k = 0 \/ above = {} THEN 0
                    ELSE 2 ^ (CHOOSE i \in above : \A j \in above : i <= j)

BlockSize(size) == NextHigher((size + Overhead) % 2 ^ SizeBits)

\* find_allocator(): 0 is none.
find_allocator(blockSize) ==
  LET found == {i \in DOMAIN _allocators : alloc[_allocators[i]].m_blockSize = blockSize}
  IN IF found = {} THEN 0 ELSE _allocators[CHOOSE i \in found : \A j \in found : i <= j]

Idle == [at |-> "idle", size |-> 0, id |-> 0, block |-> <<>>, old |-> <<>>, data |-> 0]

\* xalloc_init(): the class's Allocator, and the static pools, of the sizes 8, 16, ...
FirstAllocators ==
  [id \in 0 .. (IF setup.pools THEN Len(PoolSizes) ELSE 0) |->
     IF id = 0 THEN NewAllocator(setup.size, setup.objects)
     ELSE NewAllocator(PoolSizes[id], MaxBlocks)]

Init ==
  /\ setup \in Setups
  /\ _allocators = IF setup.pools THEN [i \in 1 .. Len(PoolSizes) |-> i] ELSE <<>>
  /\ alloc = FirstAllocators
  /\ heap = <<>> /\ header = <<>> /\ live = <<>> /\ memory = <<>>
  /\ th = [t \in Threads |-> Idle]
  /\ calls = 0 /\ halted = FALSE

At(t, at)  == th[t].at = at
Go(t, r)   == th' = [th EXCEPT ![t] = r]
Calls(t)   == At(t, "idle") /\ calls < MaxCalls /\ calls' = calls + 1
Halt       == halted' = TRUE /\ UNCHANGED <<setup, _allocators, alloc, heap, header, live, memory>>
Without(f, b) == [x \in DOMAIN f \ {b} |-> f[x]]
Put(f, k, v)  == [x \in DOMAIN f \cup {k} |-> IF x = k THEN v ELSE f[x]]

\* xmalloc() begins with xallocator_get_allocator(): find, under the lock.
Requests(t, r) ==
  LET id == find_allocator(BlockSize(r.size))
  IN IF id # 0
     THEN Go(t, [r EXCEPT !.at = "pop", !.id = id]) /\ UNCHANGED halted
     ELSE IF setup.pools THEN halted' = TRUE /\ Go(t, r)
     ELSE Go(t, [r EXCEPT !.at = "insert"]) /\ UNCHANGED halted

xmalloc(t) ==
  /\ Calls(t)
  /\ \E size \in Sizes : Requests(t, [Idle EXCEPT !.size = size, !.data = calls'])
  /\ UNCHANGED <<setup, _allocators, alloc, heap, header, live, memory>>

\* Mutant: the table is not searched again.
ExistingForgotten(t) == 0
\* The allocator that another thread may have inserted since.
Existing(t) == find_allocator(BlockSize(th[t].size))

\* The Allocator made outside the lock is inserted, or deleted again if there is one by now.
\* A full table ends the program.
InsertAllocator(t) ==
  LET id == Len(_allocators) + 1
  IN /\ At(t, "insert") /\ UNCHANGED calls
     /\ \/ /\ Existing(t) # 0
           /\ Go(t, [th[t] EXCEPT !.at = "pop", !.id = Existing(t)])
           /\ UNCHANGED <<setup, _allocators, alloc, heap, header, live, memory, halted>>
        \/ /\ Existing(t) = 0 /\ Len(_allocators) < MaxAllocators
           /\ alloc' = Put(alloc, id, NewAllocator(BlockSize(th[t].size), 0))
           /\ _allocators' = Append(_allocators, id)
           /\ Go(t, [th[t] EXCEPT !.at = "pop", !.id = id])
           /\ UNCHANGED <<setup, heap, header, live, memory, halted>>
        \/ /\ Existing(t) = 0 /\ Len(_allocators) = MaxAllocators
           /\ Halt /\ UNCHANGED th

\* The free list, under the lock.  With static pools the whole of Allocate() is.
PopBlock(t) ==
  LET id == th[t].id
      a  == alloc[id]
  IN /\ At(t, "pop")
     /\ \/ /\ HasFree(a) \/ HasRoom(a)
           /\ alloc' = [alloc EXCEPT ![id] = Allocate(id).a]
           /\ Go(t, [th[t] EXCEPT !.at = "header", !.block = Allocate(id).block])
           /\ UNCHANGED <<setup, _allocators, heap, header, live, memory, halted>>
        \/ /\ ~HasFree(a) /\ UsesHeap(a)
           /\ Go(t, [th[t] EXCEPT !.at = "new"])
           /\ UNCHANGED <<setup, _allocators, alloc, heap, header, live, memory, halted>>
        \/ Exhausted(a) /\ Halt /\ UNCHANGED th
     /\ UNCHANGED calls

\* The slow path: new outside the lock, then the count under it.
NewBlock(t) ==
  /\ At(t, "new")
  /\ heap' = Append(heap, alloc[th[t].id].m_blockSize)
  /\ Go(t, [th[t] EXCEPT !.at = "account", !.block = HeapBlock])
  /\ UNCHANGED <<setup, _allocators, alloc, header, live, memory, calls, halted>>
AccountNew(t) ==
  /\ At(t, "account")
  /\ alloc' = [alloc EXCEPT ![th[t].id] = AccountAlloc(@, TRUE)]
  /\ Go(t, [th[t] EXCEPT !.at = "header"])
  /\ UNCHANGED <<setup, _allocators, heap, header, live, memory, calls, halted>>

\* set_block_allocator(); the client, or xrealloc(), then writes to the block.  xrealloc()
\* copies, and goes on to free the old block.
SetHeader(t) ==
  LET b == th[t].block
  IN /\ At(t, "header")
     /\ header' = Put(header, b, th[t].id)
     /\ memory' = Put(memory, b, IF th[t].old = <<>> THEN th[t].data ELSE memory[th[t].old])
     /\ live' = Put(live, b, [size |-> th[t].size, data |-> th[t].data])
     /\ Go(t, IF th[t].old = <<>> THEN Idle
              ELSE [Idle EXCEPT !.at = "free", !.block = th[t].old, !.id = header[th[t].old]])
     /\ UNCHANGED <<setup, _allocators, alloc, heap, calls, halted>>

\* Blocks of the class's own Allocator have no header.
Plain == DOMAIN live \ DOMAIN header

\* xfree(): the header is read outside the lock.
xfree(t) ==
  /\ Calls(t)
  /\ \E b \in DOMAIN live \ Plain :
       /\ live' = Without(live, b)
       /\ Go(t, [Idle EXCEPT !.at = "free", !.block = b, !.id = header[b]])
  /\ UNCHANGED <<setup, _allocators, alloc, heap, header, memory, halted>>
\* The link of the free list overwrites the header and the data.
Deallocate(t) ==
  /\ At(t, "free")
  /\ alloc' = [alloc EXCEPT ![th[t].id] = DeallocateBlock(@, th[t].block)]
  /\ header' = Without(header, th[t].block) /\ memory' = Without(memory, th[t].block)
  /\ Go(t, Idle)
  /\ UNCHANGED <<setup, _allocators, heap, live, calls, halted>>

\* xrealloc() of a block to another size; of no block it is xmalloc(), to no size xfree().
xrealloc(t) ==
  /\ Calls(t)
  /\ \E b \in DOMAIN live \ Plain, size \in Sizes :
       /\ live' = Without(live, b)
       /\ Requests(t, [Idle EXCEPT !.size = size, !.old = b, !.data = live[b].data])
  /\ UNCHANGED <<setup, _allocators, alloc, heap, header, memory>>

\* operator new and delete of a class with DECLARE_ALLOCATOR, under its own mutex.
ClassNew(t) ==
  /\ Calls(t)
  /\ \/ Exhausted(alloc[0]) /\ Halt
     \/ LET r == Allocate(0)
        IN /\ ~Exhausted(alloc[0])
           /\ alloc' = [alloc EXCEPT ![0] = r.a]
           /\ heap' = HeapAfter(0)
           /\ memory' = Put(memory, r.block, calls')
           /\ live' = Put(live, r.block, [size |-> alloc[0].m_blockSize, data |-> calls'])
           /\ UNCHANGED <<setup, _allocators, header, halted>>
  /\ UNCHANGED th
ClassDelete(t) ==
  /\ Calls(t)
  /\ \E b \in Plain :
       /\ live' = Without(live, b)
       /\ memory' = Without(memory, b)
       /\ alloc' = [alloc EXCEPT ![0] = DeallocateBlock(@, b)]
  /\ UNCHANGED <<setup, _allocators, heap, header, th, halted>>

Step(t) == \/ xmalloc(t) \/ InsertAllocator(t) \/ PopBlock(t) \/ NewBlock(t) \/ AccountNew(t)
           \/ SetHeader(t) \/ xfree(t) \/ Deallocate(t) \/ xrealloc(t)
           \/ ClassNew(t) \/ ClassDelete(t)

Next == ~halted /\ \E t \in Threads : Step(t)

Spec == Init /\ [][Next]_vars

-----------------------------------------------------------------------------
(* Properties.                                                             *)

\* xallocator_get_allocator(): two threads that first ask for a size at once must not insert
\* an Allocator each, "yielding duplicate entries and a use-after-free at shutdown".
OneAllocatorPerSize ==
  \A i, j \in DOMAIN _allocators :
    i # j => alloc[_allocators[i]].m_blockSize # alloc[_allocators[j]].m_blockSize

Elements(s) == {s[i] : i \in DOMAIN s}
InHand == ({th[t].block : t \in Threads} \cup {th[t].old : t \in Threads}) \ {<<>>}
Issued == {<<Heap, n>> : n \in DOMAIN heap}
            \cup UNION {{<<id, n>> : n \in 0 .. alloc[id].m_poolIndex - 1} : id \in DOMAIN alloc}
BytesOf(b) == IF b[1] = Heap THEN heap[b[2]] ELSE alloc[b[1]].m_blockSize

\* Through every interleaving of xmalloc(), xrealloc() and xfree(), each block is in one place:
\* with one client, in the hands of one call, or once on the list of the Allocator of its size;
\* none is lost, and a client's data stay in a block that is large enough for them.
BlockHasOneOwner ==
  /\ \A id \in DOMAIN alloc :
       LET free == alloc[id].m_pHead
       IN /\ \A i, j \in DOMAIN free : i # j => free[i] # free[j]
          /\ \A b \in Elements(free) : b \notin DOMAIN live /\ b \notin InHand
                                       /\ BytesOf(b) = alloc[id].m_blockSize
          /\ \A other \in DOMAIN alloc \ {id} :
               Elements(free) \cap Elements(alloc[other].m_pHead) = {}
  /\ \A t, u \in Threads : t # u => /\ th[t].block \notin {th[u].block, th[u].old} \ {<<>>}
                                    /\ th[t].old \notin {th[u].old} \ {<<>>}
  /\ DOMAIN live \cap InHand = {}
  /\ Issued = InHand \cup DOMAIN live
                \cup UNION {Elements(alloc[id].m_pHead) : id \in DOMAIN alloc}
  /\ \A b \in DOMAIN live \ Plain :
       live[b].size + Overhead <= BytesOf(b) /\ memory[b] = live[b].data
  /\ \A b \in Plain : memory[b] = live[b].data

\* xalloc_stats(): the blocks on the list and the blocks in use are all there are, and the
\* blocks in use are those allocated and not deallocated, though the counts are updated in
\* other critical sections than the list.
StatisticsBalance ==
  \A id \in DOMAIN alloc :
    LET a == alloc[id]
    IN /\ Len(a.m_pHead) + a.m_blocksInUse = a.m_poolIndex + a.m_blockCnt
       /\ a.m_blocksInUse = a.m_allocations - a.m_deallocations
       /\ a.m_blocksInUse >= 0
=============================================================================
