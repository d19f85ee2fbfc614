----------------------------- MODULE BdevProofs -----------------------------
(***************************************************************************)
(* Blocks never overlap, for any slab sizes, any device and any requests.   *)
(* What CoinSelect computes plays no part: the argument holds whatever      *)
(* slabs a request is made of.                                              *)
(*                                                                          *)
(* A read of a file-backed device returns what the owner of the block wrote *)
(* last, if success_ was set for both, for any number of calls under way.   *)
(* The argument: blocks in use are apart, a block has at most one call      *)
(* under way, and while it is written nothing is known of it, so a write,   *)
(* whole or short, changes no other block, and a block whose last write was *)
(* not cut short holds the value in every unit.                             *)
(***************************************************************************)
EXTENDS Bdev, TLAPS

(* A block has the size of a slab and ends below top and within the device. *)
InHeap(b, top) ==
    /\ b \in Blocks
    /\ \E s \in Slabs : b.size_ = SlabSizes[s]
    /\ b.off_ + b.size_ <= top
    /\ b.off_ + b.size_ <= MaxHeapSize

HeapType ==
    /\ heap_off_ \in Nat
    /\ free_list_ \in [Slabs -> Seq(Blocks)]

IInv ==
    /\ HeapType
    /\ \A b \in held : InHeap(b, heap_off_)
    /\ \A s \in Slabs : \A i \in DOMAIN free_list_[s] : InHeap(free_list_[s][i], heap_off_)
    /\ BlocksDisjoint
    /\ FreedBlocksApart
-----------------------------------------------------------------------------
(* An allocator as BlockAllocator::Init leaves it satisfies the invariant.  *)
LEMMA InitIInv == Init => IInv
BY AllocatorAssumption
    DEF Init, IInv, HeapType, BlocksDisjoint, FreedBlocksApart

(* A piece above every block of the heap overlaps none of them.             *)
LEMMA NextPieceApart ==
    ASSUME HeapType, NEW s \in Slabs, NEW b, InHeap(b, heap_off_)
    PROVE  LET piece == [off_ |-> heap_off_, size_ |-> SlabSizes[s]]
           IN  Disjoint(b, piece) /\ Disjoint(piece, b)
BY AllocatorAssumption DEF InHeap, Disjoint, Blocks, HeapType

(* The next piece of the heap is handed out.                                *)
LEMMA TakeHeapKeepsIInv ==
    ASSUME IInv, NEW s \in Slabs, TakeHeap(s)
    PROVE  IInv'
<1> DEFINE piece == [off_ |-> heap_off_, size_ |-> SlabSizes[s]]
<1> USE DEF IInv
<1>1. /\ heap_off_' = heap_off_ + SlabSizes[s]
      /\ heap_off_ + SlabSizes[s] <= MaxHeapSize
      /\ held' = held \cup {piece}
      /\ free_list_' = free_list_
    BY DEF TakeHeap, GiveBlock
<1>2. HeapType' /\ heap_off_' >= heap_off_ /\ SlabSizes[s] \in Nat
    BY <1>1, AllocatorAssumption DEF HeapType
<1>3. InHeap(piece, heap_off_')
    BY <1>1, <1>2, AllocatorAssumption DEF InHeap, Blocks, HeapType
<1>4. \A b : InHeap(b, heap_off_) => InHeap(b, heap_off_')
    BY <1>2 DEF InHeap, Blocks, HeapType
<1>5. \A b \in held' : InHeap(b, heap_off_')
    BY <1>1, <1>3, <1>4
<1>6. \A r \in Slabs : \A i \in DOMAIN free_list_'[r] : InHeap(free_list_'[r][i], heap_off_')
    BY <1>1, <1>4
<1>7. \A b \in held : Disjoint(b, piece) /\ Disjoint(piece, b)
    BY NextPieceApart
<1>8. \A r \in Slabs : \A i \in DOMAIN free_list_[r] : Disjoint(free_list_[r][i], piece)
    BY NextPieceApart
<1>9. BlocksDisjoint'
    BY <1>1, <1>5, <1>7 DEF BlocksDisjoint, InHeap
<1>10. FreedBlocksApart'
    BY <1>1, <1>8 DEF FreedBlocksApart
<1> QED
    BY <1>1, <1>2, <1>5, <1>6, <1>9, <1>10

(* A freed block is handed out again.                                       *)
LEMMA TakeFreedKeepsIInv ==
    ASSUME IInv, NEW s \in Slabs, TakeFreed(s)
    PROVE  IInv'
<1> DEFINE b0 == free_list_[s][1]
           At(r, j) == IF r = s THEN j + 1 ELSE j
<1> USE DEF IInv
<1>1. /\ free_list_[s] \in Seq(Blocks) /\ free_list_[s] # <<>>
      /\ free_list_' = [free_list_ EXCEPT ![s] = Tail(@)]
      /\ held' = held \cup {Head(free_list_[s])} /\ heap_off_' = heap_off_
    BY DEF TakeFreed, GiveBlock, HeapType
<1>2. 1 \in DOMAIN free_list_[s] /\ held' = held \cup {b0}
    BY <1>1
<1>3. HeapType'
    BY <1>1 DEF HeapType
<1>4. ASSUME NEW r \in Slabs, NEW j \in DOMAIN free_list_'[r]
      PROVE  /\ j \in Nat \ {0}
             /\ At(r, j) \in DOMAIN free_list_[r]
             /\ free_list_'[r][j] = free_list_[r][At(r, j)]
    <2>1. CASE r = s
        <3>1. free_list_'[r] = Tail(free_list_[s])
            BY <1>1, <2>1 DEF HeapType
        <3>2. /\ Len(free_list_[s]) \in Nat \ {0} /\ DOMAIN free_list_[s] = 1..Len(free_list_[s])
              /\ DOMAIN Tail(free_list_[s]) = 1..(Len(free_list_[s]) - 1)
              /\ \A i \in 1..(Len(free_list_[s]) - 1) :
                    Tail(free_list_[s])[i] = free_list_[s][i + 1]
            BY <1>1
        <3> QED
            BY <1>4, <2>1, <3>1, <3>2
    <2>2. CASE r # s
        <3>1. free_list_'[r] = free_list_[r] /\ free_list_[r] \in Seq(Blocks)
            BY <1>1, <2>2 DEF HeapType
        <3> QED
            BY <1>4, <2>2, <3>1
    <2> QED
        BY <2>1, <2>2
<1>5. InHeap(b0, heap_off_) /\ \A b : InHeap(b, heap_off_) => InHeap(b, heap_off_')
    BY <1>1, <1>2
<1>6. \A b \in held' : InHeap(b, heap_off_')
    BY <1>2, <1>5
<1>7. \A r \in Slabs : \A j \in DOMAIN free_list_'[r] : InHeap(free_list_'[r][j], heap_off_')
    BY <1>4, <1>5
<1>8. \A b \in held : Disjoint(b0, b) /\ Disjoint(b, b0)
    BY <1>2 DEF FreedBlocksApart, Disjoint
<1>9. BlocksDisjoint'
    BY <1>2, <1>5, <1>8 DEF BlocksDisjoint, InHeap
<1>10. FreedBlocksApart'
    <2> SUFFICES ASSUME NEW r \in Slabs, NEW j \in DOMAIN free_list_'[r]
                 PROVE  LET b == free_list_'[r][j] IN
                        /\ b.size_ = SlabSizes[r]
                        /\ b.off_ + b.size_ <= MaxHeapSize
                        /\ \A c \in held' : Disjoint(b, c)
                        /\ \A q \in Slabs : \A k \in DOMAIN free_list_'[q] :
                            <<r, j>> # <<q, k>> => Disjoint(b, free_list_'[q][k])
        BY DEF FreedBlocksApart
    <2>1. /\ At(r, j) \in DOMAIN free_list_[r]
          /\ free_list_'[r][j] = free_list_[r][At(r, j)]
          /\ j \in Nat \ {0}
        BY <1>4
    <2>2. \A q \in Slabs : \A k \in DOMAIN free_list_'[q] :
            <<r, j>> # <<q, k>> => <<r, At(r, j)>> # <<q, At(q, k)>>
        BY <1>4, <2>1
    <2>3. \A q \in Slabs : \A k \in DOMAIN free_list_'[q] :
            <<r, j>> # <<q, k>> => Disjoint(free_list_[r][At(r, j)], free_list_'[q][k])
        BY <1>4, <2>1, <2>2 DEF FreedBlocksApart
    <2>4. <<r, At(r, j)>> # <<s, 1>>
        BY <2>1
    <2>5. Disjoint(free_list_[r][At(r, j)], b0)
        BY <1>2, <2>1, <2>4 DEF FreedBlocksApart
    <2>6. \A c \in held' : Disjoint(free_list_[r][At(r, j)], c)
        BY <1>2, <2>1, <2>5 DEF FreedBlocksApart
    <2>7. /\ free_list_[r][At(r, j)].size_ = SlabSizes[r]
          /\ free_list_[r][At(r, j)].off_ + free_list_[r][At(r, j)].size_ <= MaxHeapSize
        BY <2>1 DEF FreedBlocksApart
    <2> QED
        BY <2>1, <2>3, <2>6, <2>7
<1> QED
    BY <1>1, <1>3, <1>5, <1>6, <1>7, <1>9, <1>10

(* A block comes back: ascending slab sizes put it into the list of its own *)
(* size.                                                                    *)
LEMMA FreeKeepsIInv ==
    ASSUME IInv, NEW block \in held, Free(block)
    PROVE  IInv'
<1> USE DEF IInv
<1>1. PICK s \in Slabs : /\ block.size_ <= SlabSizes[s]
                         /\ \A r \in 1..(s - 1) : block.size_ > SlabSizes[r]
                         /\ free_list_' = [free_list_ EXCEPT ![s] = Append(@, block)]
    BY Zenon DEF Free
<1>2. held' = held \ {block} /\ heap_off_' = heap_off_ /\ block \in Blocks
    BY DEF Free, InHeap
<1>3. block.size_ = SlabSizes[s]
    <2>1. PICK r \in Slabs : block.size_ = SlabSizes[r]
        BY DEF InHeap
    <2>2. ~(r < s) /\ ~(s < r)
        BY <1>1, <2>1, AllocatorAssumption DEF Slabs
    <2> QED
        BY <2>1, <2>2, AllocatorAssumption DEF Slabs
<1>4. HeapType'
    BY <1>1, <1>2 DEF HeapType
<1> DEFINE Old(r, j) == j \in DOMAIN free_list_[r] /\ free_list_'[r][j] = free_list_[r][j]
           New(r, j) == /\ r = s /\ j = Len(free_list_[s]) + 1
                        /\ free_list_'[r][j] = block
<1>5. ASSUME NEW r \in Slabs, NEW j \in DOMAIN free_list_'[r]
      PROVE  Old(r, j) \/ New(r, j)
    <2>1. CASE r = s
        <3>1. free_list_'[r] = Append(free_list_[s], block) /\ free_list_[s] \in Seq(Blocks)
            BY <1>1, <2>1 DEF HeapType
        <3>2. /\ Len(free_list_[s]) \in Nat /\ DOMAIN free_list_[s] = 1..Len(free_list_[s])
              /\ DOMAIN free_list_'[r] = 1..(Len(free_list_[s]) + 1)
              /\ free_list_'[r][Len(free_list_[s]) + 1] = block
              /\ \A i \in 1..Len(free_list_[s]) : free_list_'[r][i] = free_list_[s][i]
            BY <1>2, <3>1
        <3> QED
            BY <1>5, <2>1, <3>2
    <2>2. CASE r # s
        BY <1>1, <1>5, <2>2 DEF HeapType
    <2> QED
        BY <2>1, <2>2
<1>6. \A b \in held' : InHeap(b, heap_off_')
    BY <1>2
<1>7. \A r \in Slabs : \A j \in DOMAIN free_list_'[r] : InHeap(free_list_'[r][j], heap_off_')
    BY <1>2, <1>5
<1>8. BlocksDisjoint'
    BY <1>2 DEF BlocksDisjoint
<1>9. FreedBlocksApart'
    <2> SUFFICES ASSUME NEW r \in Slabs, NEW j \in DOMAIN free_list_'[r]
                 PROVE  LET b == free_list_'[r][j] IN
                        /\ b.size_ = SlabSizes[r]
                        /\ b.off_ + b.size_ <= MaxHeapSize
                        /\ \A c \in held' : Disjoint(b, c)
                        /\ \A q \in Slabs : \A k \in DOMAIN free_list_'[q] :
                            <<r, j>> # <<q, k>> => Disjoint(b, free_list_'[q][k])
        BY DEF FreedBlocksApart
    <2>1. \A c \in held' : Disjoint(block, c)
        BY <1>2 DEF BlocksDisjoint
    <2>2. \A q \in Slabs : \A k \in DOMAIN free_list_[q] :
            Disjoint(free_list_[q][k], block) /\ Disjoint(block, free_list_[q][k])
        BY DEF FreedBlocksApart, Disjoint
    <2>3. CASE Old(r, j)
        <3>1. \A q \in Slabs : \A k \in DOMAIN free_list_'[q] :
                <<r, j>> # <<q, k>> => Disjoint(free_list_[r][j], free_list_'[q][k])
            BY <1>5, <2>2, <2>3 DEF FreedBlocksApart
        <3> QED
            BY <1>2, <2>3, <3>1 DEF FreedBlocksApart
    <2>4. CASE New(r, j)
        <3>1. \A q \in Slabs : \A k \in DOMAIN free_list_'[q] :
                <<r, j>> # <<q, k>> => Disjoint(block, free_list_'[q][k])
            BY <1>5, <2>2, <2>4
        <3>2. block.off_ + block.size_ <= MaxHeapSize
            BY DEF BlocksDisjoint
        <3> QED
            BY <1>3, <2>1, <2>4, <3>1, <3>2
    <2> QED
        BY <1>5, <2>3, <2>4
<1> QED
    BY <1>4, <1>6, <1>7, <1>8, <1>9

(* The other steps leave every block where it is; a refused slab only       *)
(* advances heap_off_.                                                      *)
LEMMA OtherKeepsIInv ==
    ASSUME IInv, HeapType', heap_off_' >= heap_off_, UNCHANGED <<free_list_, held>>
    PROVE  IInv'
<1>1. \A b : InHeap(b, heap_off_) => InHeap(b, heap_off_')
    BY DEF IInv, InHeap, Blocks, HeapType
<1> QED
    BY <1>1 DEF IInv, BlocksDisjoint, FreedBlocksApart

(* Every step of the allocator keeps the invariant.                         *)
LEMMA NextKeepsIInv ==
    ASSUME IInv, [Next]_vars
    PROVE  IInv'
<1>1. CASE \E n \in Sizes : Allocate(n)
    BY <1>1, OtherKeepsIInv DEF Allocate, heap, IInv, HeapType
<1>2. ASSUME NEW s \in Slabs, OutOfSpace(s)
      PROVE  IInv'
    BY <1>2, OtherKeepsIInv, AllocatorAssumption DEF OutOfSpace, IInv, HeapType
<1>3. CASE UNCHANGED vars
    BY <1>3, OtherKeepsIInv DEF vars, heap, IInv, HeapType
<1> QED
    BY <1>1, <1>2, <1>3, TakeFreedKeepsIInv, TakeHeapKeepsIInv, FreeKeepsIInv
        DEF Next, Quiet

(* However Allocate and Free are called, every block that is held or freed  *)
(* lies below heap_off_ and within the device, and no two overlap.          *)
THEOREM AlwaysIInv == Spec => []IInv
BY InitIInv, NextKeepsIInv, PTL DEF Spec

(* Blocks that tasks own never overlap and never reach beyond the device.   *)
THEOREM NeverOverlap == Spec => []BlocksDisjoint
<1>1. IInv => BlocksDisjoint
    BY DEF IInv
<1> QED
    BY <1>1, AlwaysIInv, PTL

(* A freed block is in one list, the one of its size, and overlaps nothing  *)
(* that is in use.                                                          *)
THEOREM FreedNeverOverlap == Spec => []FreedBlocksApart
<1>1. IInv => FreedBlocksApart
    BY DEF IInv
<1> QED
    BY <1>1, AlwaysIInv, PTL
-----------------------------------------------------------------------------
Units0 == 0..(MaxHeapSize - 1)

CallInv ==
    /\ \A c \in calls : c.block \in held /\ (c.op = "write" => known[c.block] = Unknown)
    /\ \A c, d \in calls : c.block = d.block => c = d

DataInv ==
    /\ DOMAIN dev = Units0
    /\ DOMAIN known = held
    /\ \A b \in held \ cut : known[b] # Unknown => \A u \in Units(b) : dev[u] = known[b]

BdevInv == IInv /\ CallInv /\ DataInv /\ ReadsBack
-----------------------------------------------------------------------------
(* A block in use lies within the device, is not empty and shares no unit   *)
(* with another block in use.                                               *)
LEMMA UnitsApart ==
    ASSUME IInv, NEW b \in held
    PROVE  /\ Units(b) \subseteq Units0
           /\ Units(b) # {}
           /\ \A c \in held : c # b => Units(b) \cap Units(c) = {}
<1>1. \A c \in held : /\ c.off_ \in Nat /\ c.size_ \in Nat /\ c.size_ > 0
                      /\ c.off_ + c.size_ <= MaxHeapSize
    BY AllocatorAssumption DEF IInv, InHeap, Blocks
<1>2. Units(b) \subseteq Units0
    BY <1>1, AllocatorAssumption DEF Units, Units0
<1>3. b.off_ \in Units(b)
    BY <1>1 DEF Units
<1>4. \A c \in held : c # b => Units(b) \cap Units(c) = {}
    BY <1>1 DEF IInv, BlocksDisjoint, Disjoint, Units
<1> QED
    BY <1>2, <1>3, <1>4

(* A new device satisfies the invariant.                                    *)
LEMMA InitBdevInv == BdevInit => BdevInv
<1> SUFFICES ASSUME BdevInit PROVE BdevInv
    OBVIOUS
<1>1. IInv
    BY InitIInv DEF BdevInit
<1>2. held = {} /\ calls = {} /\ reply.want = Unknown
    BY DEF BdevInit, Init, NoReply
<1>3. DOMAIN dev = Units0 /\ DOMAIN known = held
    BY <1>2 DEF BdevInit, Units0
<1> QED
    BY <1>1, <1>2, <1>3 DEF BdevInv, CallInv, DataInv, ReadsBack

(* Allocation adds blocks of which nothing is known.                        *)
LEMMA AllocateKeepsBdevInv ==
    ASSUME BdevInv, AllocateStep
    PROVE  BdevInv'
<1>1. IInv'
    <2>1. Next
        BY DEF AllocateStep, Next
    <2> QED
        BY <2>1, NextKeepsIInv DEF BdevInv
<1>2. held \subseteq held'
    BY DEF AllocateStep, Allocate, heap, TakeFreed, TakeHeap, OutOfSpace, GiveBlock
<1>3. /\ known' = [b \in held' |-> IF b \in held THEN known[b] ELSE Unknown]
      /\ dev' = dev /\ cut' = cut /\ calls' = calls /\ reply' = NoReply
    BY DEF AllocateStep
<1>4. CallInv'
    BY <1>2, <1>3 DEF BdevInv, CallInv
<1>5. DataInv'
    BY <1>2, <1>3 DEF BdevInv, DataInv, Units
<1>6. ReadsBack'
    BY <1>3 DEF ReadsBack, NoReply
<1> QED
    BY <1>1, <1>4, <1>5, <1>6 DEF BdevInv

(* A block is freed while no call on it is under way.                       *)
LEMMA FreeKeepsBdevInv ==
    ASSUME BdevInv, NEW b \in held, FreeBlock(b)
    PROVE  BdevInv'
<1>1. IInv'
    BY FreeKeepsIInv DEF FreeBlock, BdevInv
<1>2. held' = held \ {b}
    BY DEF FreeBlock, Free
<1>3. /\ known' = [c \in held' |-> known[c]]
      /\ dev' = dev /\ cut' = cut \ {b} /\ calls' = calls /\ reply' = NoReply
      /\ \A c \in calls : c.block # b
    BY DEF FreeBlock, Busy
<1>4. CallInv'
    BY <1>2, <1>3 DEF BdevInv, CallInv
<1>5. DataInv'
    BY <1>2, <1>3 DEF BdevInv, DataInv, Units
<1>6. ReadsBack'
    BY <1>3 DEF ReadsBack, NoReply
<1> QED
    BY <1>1, <1>4, <1>5, <1>6 DEF BdevInv

(* A client starts a read or a write; of a block that is being written      *)
(* nothing is known.                                                        *)
LEMMA SubmitKeepsBdevInv ==
    ASSUME BdevInv, NEW b \in held,
           SubmitRead(b) \/ \E v \in Values : SubmitWrite(b, v)
    PROVE  BdevInv'
<1>1. IInv' /\ held' = held /\ dev' = dev /\ cut' = cut /\ reply' = NoReply
    BY NextKeepsIInv DEF SubmitRead, SubmitWrite, BdevInv, vars, heap
<1>2. ReadsBack'
    BY <1>1 DEF ReadsBack, NoReply
<1>3. \A c \in calls : c.block # b
    BY DEF SubmitRead, SubmitWrite, MaySubmit, Busy
<1>4. CASE SubmitRead(b)
    <2>1. /\ calls' = calls \cup {[block |-> b, op |-> "read", val |-> Junk]}
          /\ known' = known
        BY <1>4 DEF SubmitRead
    <2>2. CallInv'
        BY <1>1, <1>3, <2>1 DEF BdevInv, CallInv
    <2>3. DataInv'
        BY <1>1, <2>1 DEF BdevInv, DataInv, Units
    <2> QED
        BY <1>1, <1>2, <2>2, <2>3 DEF BdevInv
<1>5. ASSUME NEW v \in Values, SubmitWrite(b, v)
      PROVE  BdevInv'
    <2>1. /\ calls' = calls \cup {[block |-> b, op |-> "write", val |-> v]}
          /\ known' = [known EXCEPT ![b] = Unknown]
        BY <1>5 DEF SubmitWrite
    <2>2. DOMAIN known = held
        BY DEF BdevInv, DataInv
    <2>3. CallInv'
        BY <1>1, <1>3, <2>1, <2>2 DEF BdevInv, CallInv
    <2>4. DataInv'
        BY <1>1, <2>1, <2>2 DEF BdevInv, DataInv, Units
    <2> QED
        BY <1>1, <1>2, <2>3, <2>4 DEF BdevInv
<1> QED
    BY <1>4, <1>5

(* A write, whole or cut short, changes units of its own block only.        *)
LEMMA WriteKeepsBdevInv ==
    ASSUME BdevInv, NEW c \in calls, Write(c) \/ WriteShort(c)
    PROVE  BdevInv'
<1>1. IInv' /\ held' = held /\ reply' = NoReply
    BY NextKeepsIInv DEF Write, WriteShort, WriteReturns, BdevInv, vars, heap
<1>2. ReadsBack'
    BY <1>1 DEF ReadsBack, NoReply
<1>3. /\ c.op = "write" /\ c.block \in held /\ calls' = calls \ {c}
      /\ known[c.block] = Unknown
    BY DEF Write, WriteShort, WriteReturns, BdevInv, CallInv
<1>4. /\ known'[c.block] = c.val
      /\ \A b \in held \ {c.block} : known'[b] = known[b] /\ (b \in cut' <=> b \in cut)
    BY <1>3 DEF Write, WriteShort, WriteReturns
<1>5. DOMAIN dev' = Units0 /\ DOMAIN known' = held
    BY DEF Write, WriteShort, WriteReturns, BdevInv, DataInv
<1>6. \A u \in Units0 \ Units(c.block) : dev'[u] = dev[u]
    BY DEF Write, WriteShort, BdevInv, DataInv
<1>7. \A b \in (held \ cut') \ {c.block} : known'[b] # Unknown =>
            \A u \in Units(b) : dev'[u] = known'[b]
    <2> SUFFICES ASSUME NEW b \in held, b # c.block, b \notin cut', known'[b] # Unknown,
                        NEW u \in Units(b)
                 PROVE  dev'[u] = known'[b]
        OBVIOUS
    <2>1. u \in Units0 \ Units(c.block)
        BY <1>3, UnitsApart DEF BdevInv
    <2> QED
        BY <1>4, <1>6, <2>1 DEF BdevInv, DataInv
<1>8. c.block \notin cut' => \A u \in Units(c.block) : dev'[u] = c.val
    <2>1. CASE Write(c)
        <3>1. \A u \in Units(c.block) : u \in DOMAIN dev
            BY <1>3, UnitsApart DEF BdevInv, DataInv
        <3> QED
            BY <2>1, <3>1 DEF Write
    <2>2. CASE WriteShort(c)
        BY <2>2 DEF WriteShort
    <2> QED
        BY <2>1, <2>2
<1>9. DataInv'
    BY <1>1, <1>4, <1>5, <1>7, <1>8 DEF DataInv, Units
<1>10. CallInv'
    BY <1>1, <1>3, <1>4 DEF BdevInv, CallInv
<1> QED
    BY <1>1, <1>2, <1>9, <1>10 DEF BdevInv

(* A read of a file-backed device finds in every unit what is known of the  *)
(* block, unless it or the last write was cut short.                        *)
LEMMA ReadKeepsBdevInv ==
    ASSUME Scheme = "fs", BdevInv, NEW c \in calls, Read(c) \/ ReadShort(c)
    PROVE  BdevInv'
<1>1. /\ IInv' /\ held' = held /\ dev' = dev /\ known' = known /\ cut' = cut
      /\ calls' = calls \ {c}
    BY NextKeepsIInv DEF Read, ReadShort, ReadReturns, BdevInv, vars, heap
<1>2. CallInv' /\ DataInv'
    BY <1>1 DEF BdevInv, CallInv, DataInv, Units
<1>3. CASE ReadShort(c)
    <2>1. PICK found : ReadReturns(c, found, FALSE)
        BY <1>3, Zenon DEF ReadShort
    <2>2. reply'.ok = (FALSE /\ c.block \notin cut)
        BY <2>1 DEF ReadReturns
    <2>3. ReadsBack'
        BY <2>2, Zenon DEF ReadsBack
    <2> QED
        BY <1>1, <1>2, <2>3 DEF BdevInv
<1>4. CASE Read(c)
    <2>1. c.block \in held /\ Units(c.block) # {}
        BY UnitsApart DEF BdevInv, CallInv
    <2>2. reply' = [want |-> known[c.block], got |-> {dev[u] : u \in Units(c.block)},
                    ok |-> c.block \notin cut]
        BY <1>4 DEF Read, ReadReturns
    <2>3. c.block \notin cut /\ known[c.block] # Unknown =>
            {dev[u] : u \in Units(c.block)} = {known[c.block]}
        BY <2>1 DEF BdevInv, DataInv
    <2>4. /\ reply'.want = known[c.block]
          /\ reply'.got = {dev[u] : u \in Units(c.block)}
          /\ reply'.ok = (c.block \notin cut)
        BY <2>2
    <2>5. ReadsBack'
        BY <2>3, <2>4, Zenon DEF ReadsBack
    <2> QED
        BY <1>1, <1>2, <2>5 DEF BdevInv
<1> QED
    BY <1>3, <1>4

(* On a file-backed device, a read returns what the owner of the block      *)
(* wrote to it last, if success_ was set for this read and for that write   *)
(* (Read, Write, Allocate, Free).                                           *)
THEOREM ReadsReturnLastWrite ==
    ASSUME Scheme = "fs"
    PROVE  BdevSpec => []ReadsBack
<1>1. ASSUME BdevInv, [BdevNext]_bdevVars
      PROVE  BdevInv'
    <2>1. CASE UNCHANGED bdevVars
        <3>1. IInv'
            BY <1>1, <2>1, NextKeepsIInv DEF bdevVars, BdevInv
        <3>2. CallInv' /\ DataInv' /\ ReadsBack'
            BY <1>1, <2>1 DEF bdevVars, vars, heap, BdevInv, CallInv, DataInv, ReadsBack, Units
        <3> QED
            BY <3>1, <3>2 DEF BdevInv
    <2>2. CASE AllocateStep
        BY <1>1, <2>2, AllocateKeepsBdevInv
    <2>3. ASSUME NEW b \in held, FreeBlock(b)
          PROVE  BdevInv'
        BY <1>1, <2>3, FreeKeepsBdevInv
    <2>4. ASSUME NEW b \in held, SubmitRead(b) \/ \E v \in Values : SubmitWrite(b, v)
          PROVE  BdevInv'
        BY <1>1, <2>4, SubmitKeepsBdevInv
    <2>5. ASSUME NEW c \in calls, Write(c) \/ WriteShort(c)
          PROVE  BdevInv'
        BY <1>1, <2>5, WriteKeepsBdevInv
    <2>6. ASSUME NEW c \in calls, Read(c) \/ ReadShort(c)
          PROVE  BdevInv'
        BY <1>1, <2>6, ReadKeepsBdevInv
    <2> QED
        BY <1>1, <2>1, <2>2, <2>3, <2>4, <2>5, <2>6 DEF BdevNext
<1>2. BdevInv => ReadsBack
    BY DEF BdevInv
<1> QED
    BY <1>1, <1>2, InitBdevInv, PTL DEF BdevSpec

(* The allocator's guarantee carries over to the device with its clients:   *)
(* blocks in use never overlap (AllocateSlabs, Free), whatever the scheme.  *)
THEOREM DeviceBlocksApart == BdevSpec => [](BlocksDisjoint /\ FreedBlocksApart)
<1>1. ASSUME IInv, [BdevNext]_bdevVars
      PROVE  IInv'
    <2>1. [Next]_vars
        BY <1>1 DEF BdevNext, bdevVars, AllocateStep, FreeBlock, SubmitRead, SubmitWrite,
                    Write, WriteShort, WriteReturns, Read, ReadShort, ReadReturns, Next
    <2> QED
        BY <1>1, <2>1, NextKeepsIInv
<1>2. IInv => BlocksDisjoint /\ FreedBlocksApart
    BY DEF IInv
<1>3. BdevInit => IInv
    BY InitIInv DEF BdevInit
<1> QED
    BY <1>1, <1>2, <1>3, PTL DEF BdevSpec
=============================================================================
