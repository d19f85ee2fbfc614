--------------------------- MODULE BlockAllocator ---------------------------
(***************************************************************************)
(* The slab allocator of a block device (block_allocator.h), driven by the  *)
(* Allocate and Free methods of the bdev module.  Both methods run on the   *)
(* one lane of the metadata lane group and never yield, so one of them ends *)
(* before the next starts; the loop of Allocate is taken slab by slab, with *)
(* coins as what is left of it.                                             *)
(***************************************************************************)
EXTENDS Integers, Sequences, FiniteSetsExt, SequencesExt

CONSTANTS
    NumSlabs,       \* slab_sizes_.size()
    SlabSizes,      \* slab_sizes_, ascending
    MaxHeapSize,    \* max_heap_size_
    Sizes,          \* request sizes
    MaxHeapOff      \* bound on heap_off_, which a refused slab advances too

Slabs == 1..NumSlabs

ASSUME AllocatorAssumption ==
    /\ NumSlabs \in Nat \ {0}
    /\ SlabSizes \in [Slabs -> Nat \ {0}]
    /\ \A i, j \in Slabs : i < j => SlabSizes[i] < SlabSizes[j]
    /\ MaxHeapSize \in Nat
    /\ Sizes \subseteq Nat
    /\ MaxHeapOff \in Nat

VARIABLES
    heap_off_,      \* end of the part of the device that was ever handed out
    free_size_,     \* the free space that PollStats reports
    free_list_,     \* per slab size: the blocks that were freed
    held,           \* blocks that tasks own
    coins,          \* per slab size: slabs still to allocate for the request
    size,           \* the request, 0 between requests
    total_size,     \* space given to the request so far
    refused         \* slab sizes for which the request ran out of space

heap == <<heap_off_, free_size_, free_list_, held>>
request == <<coins, size, total_size, refused>>
vars == <<heap, request>>

NoCoins == [s \in Slabs |-> 0]

Init ==
    /\ heap_off_ = 0
    /\ free_size_ = MaxHeapSize
    /\ free_list_ = [s \in Slabs |-> <<>>]
    /\ held = {}
    /\ coins = NoCoins
    /\ size = 0
    /\ total_size = 0
    /\ refused = {}
-----------------------------------------------------------------------------
(* FindNearestSlab: the smallest slab that covers rem, else the largest.    *)
NearestSlab(rem) ==
    IF \E s \in Slabs : SlabSizes[s] >= rem
    THEN CHOOSE s \in Slabs : /\ SlabSizes[s] >= rem
                              /\ \A r \in 1..(s - 1) : SlabSizes[r] < rem
    ELSE NumSlabs

(* Faulty variant of CoinSelect: what the division leaves is dropped.       *)
CoinSelectNoRest(n) ==
    LET s == NearestSlab(n)
    IN IF n > SlabSizes[s] THEN [NoCoins EXCEPT ![s] = n \div SlabSizes[s]]
       ELSE IF n > 0 THEN [NoCoins EXCEPT ![s] = 1] ELSE NoCoins

(* CoinSelect: how many slabs of each size make up a request.               *)
CoinSelect(n) ==
    LET select[rem \in 0..n] ==
            LET s == NearestSlab(rem) IN
            IF rem = 0 THEN NoCoins
            ELSE IF rem > SlabSizes[s]
                 THEN [select[rem % SlabSizes[s]] EXCEPT ![s] = @ + rem \div SlabSizes[s]]
                 ELSE [NoCoins EXCEPT ![s] = 1]
    IN select[n]

Idle == coins = NoCoins

(* Allocate up to its loop over the coins.                                  *)
Allocate(n) ==
    /\ Idle
    /\ heap_off_ <= MaxHeapOff
    /\ coins' = CoinSelect(n)
    /\ size' = n
    /\ total_size' = 0
    /\ refused' = {}
    /\ UNCHANGED heap

(* The slab size that the loops of Allocate and AllocateSlabs have reached. *)
Current(s) == coins[s] > 0 /\ \A r \in 1..(s - 1) : coins[r] = 0

(* AllocateSlabs hands out the block that ListAllocate returned.            *)
GiveBlock(s, block) ==
    /\ held' = held \cup {block}
    /\ total_size' = total_size + block.size_
    /\ free_size_' = free_size_ - block.size_
    /\ coins' = [coins EXCEPT ![s] = @ - 1]
    /\ UNCHANGED <<size, refused>>

(* Faulty variant of TakeFreed: the block stays in its list.                *)
TakeFreedKeeps(s) ==
    /\ Current(s)
    /\ free_list_[s] # <<>>
    /\ GiveBlock(s, Head(free_list_[s]))
    /\ UNCHANGED <<free_list_, heap_off_>>

(* ListAllocate finds a freed block.                                        *)
TakeFreed(s) ==
    /\ Current(s)
    /\ free_list_[s] # <<>>
    /\ GiveBlock(s, Head(free_list_[s]))
    /\ free_list_' = [free_list_ EXCEPT ![s] = Tail(@)]
    /\ UNCHANGED heap_off_

(* Faulty variant of TakeHeap: heap_off_ is read and not advanced.          *)
TakeHeapStays(s) ==
    /\ Current(s)
    /\ free_list_[s] = <<>>
    /\ heap_off_ + SlabSizes[s] <= MaxHeapSize
    /\ GiveBlock(s, [off_ |-> heap_off_, size_ |-> SlabSizes[s]])
    /\ UNCHANGED <<free_list_, heap_off_>>

(* ListAllocate takes the next piece of the heap.                           *)
TakeHeap(s) ==
    /\ Current(s)
    /\ free_list_[s] = <<>>
    /\ heap_off_ + SlabSizes[s] <= MaxHeapSize
    /\ heap_off_' = heap_off_ + SlabSizes[s]
    /\ GiveBlock(s, [off_ |-> heap_off_, size_ |-> SlabSizes[s]])
    /\ UNCHANGED free_list_

(* ListAllocate reports "Out of space on device" after it has advanced      *)
(* heap_off_; AllocateSlabs gives up this slab size.                        *)
OutOfSpace(s) ==
    /\ Current(s)
    /\ free_list_[s] = <<>>
    /\ heap_off_ + SlabSizes[s] > MaxHeapSize
    /\ heap_off_' = heap_off_ + SlabSizes[s]
    /\ coins' = [coins EXCEPT ![s] = 0]
    /\ refused' = refused \cup {s}
    /\ UNCHANGED <<free_size_, free_list_, held, size, total_size>>

(* Faulty variant of Free: free_size_ is not given back.                    *)
FreeUncounted(block) ==
    /\ Idle
    /\ \E s \in Slabs :
        /\ block.size_ <= SlabSizes[s]
        /\ \A r \in 1..(s - 1) : block.size_ > SlabSizes[r]
        /\ free_list_' = [free_list_ EXCEPT ![s] = Append(@, block)]
    /\ held' = held \ {block}
    /\ UNCHANGED <<free_size_, heap_off_, request>>

(* Free: the block joins the list of the smallest slab that covers it.      *)
Free(block) ==
    /\ Idle
    /\ \E s \in Slabs :
        /\ block.size_ <= SlabSizes[s]
        /\ \A r \in 1..(s - 1) : block.size_ > SlabSizes[r]
        /\ free_list_' = [free_list_ EXCEPT ![s] = Append(@, block)]
    /\ free_size_' = free_size_ + block.size_
    /\ held' = held \ {block}
    /\ UNCHANGED <<heap_off_, request>>

(* No client asks for anything, which may last for ever.                    *)
Quiet == Idle /\ UNCHANGED vars

Next ==
    \/ Quiet
    \/ \E n \in Sizes : Allocate(n)
    \/ \E s \in Slabs : TakeFreed(s) \/ TakeHeap(s) \/ OutOfSpace(s)
    \/ \E block \in held : Free(block)

Spec == Init /\ [][Next]_vars
-----------------------------------------------------------------------------
Blocks == [off_ : Nat, size_ : Nat]

TypeOK ==
    /\ heap_off_ \in Nat
    /\ free_size_ \in 0..MaxHeapSize
    /\ free_list_ \in [Slabs -> Seq(Blocks)]
    /\ held \subseteq Blocks
    /\ coins \in [Slabs -> Nat]
    /\ size \in Nat
    /\ total_size \in Nat
    /\ refused \subseteq Slabs

Disjoint(b, c) == b.off_ + b.size_ <= c.off_ \/ c.off_ + c.size_ <= b.off_

(* Two blocks that tasks own never overlap, and none reaches beyond the     *)
(* device: what one task writes to its block, no other task overwrites,     *)
(* however blocks were freed and handed out again.                          *)
BlocksDisjoint ==
    /\ \A b, c \in held : b # c => Disjoint(b, c)
    /\ \A b \in held : b.off_ + b.size_ <= MaxHeapSize

(* A freed block waits in one place only, does not overlap a block that is  *)
(* in use, and has the size that its list will pass it on for.              *)
FreedBlocksApart ==
    \A s \in Slabs : \A i \in DOMAIN free_list_[s] :
        LET b == free_list_[s][i] IN
        /\ b.size_ = SlabSizes[s]
        /\ b.off_ + b.size_ <= MaxHeapSize
        /\ \A c \in held : Disjoint(b, c)
        /\ \A r \in Slabs : \A j \in DOMAIN free_list_[r] :
            <<s, i>> # <<r, j>> => Disjoint(b, free_list_[r][j])

Size(block) == block.size_

(* free_size_, which PollStats reports, is the device less what tasks own,  *)
(* refused requests and reused blocks included.                             *)
FreeSizeExact == free_size_ = MaxHeapSize - MapThenSumSet(Size, held)

(* A request that was not refused anything has got all it asked for, and    *)
(* no slab too many: without any one of them it would be too short          *)
(* (CoinSelect, AllocateSlabs).                                             *)
RequestIsCovered ==
    Idle /\ refused = {} =>
        /\ total_size >= size
        /\ \A s \in Slabs : CoinSelect(size)[s] > 0 => total_size - SlabSizes[s] < size

(* "Out of space on device" is true: when a slab is refused, the part of    *)
(* the device that neither is owned nor was freed is smaller than the slab. *)
(* It does not hold: a refusal moves heap_off_ too (README, section 5).     *)
OutOfSpaceIsTrue ==
    LET freed == UNION {ToSet(free_list_[s]) : s \in Slabs}
    IN \A s \in refused :
        MaxHeapSize - MapThenSumSet(Size, held \cup freed) < SlabSizes[s]
=============================================================================
