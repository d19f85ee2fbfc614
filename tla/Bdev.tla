-------------------------------- MODULE Bdev --------------------------------
(***************************************************************************)
(* A block device (bdev_runtime.cc) with its clients (bdev_client.h): the   *)
(* allocator of BlockAllocator.tla on the metadata lane, and reads and      *)
(* writes on the 32 data lanes, where two of them run in any order.  A      *)
(* client owns the blocks that Allocate gave it and waits for each call on  *)
(* a block before it makes the next (Client::Read, Write and Free).         *)
(*                                                                          *)
(* The device is a function from units to values; a write fills its block   *)
(* with one value.  Left out: GPU buffers, the SPDK scheme, which has no    *)
(* code, and the measurements.                                              *)
(***************************************************************************)
EXTENDS BlockAllocator, FiniteSets

CONSTANTS
    Values,         \* what can be written
    Zero,           \* what InitialStats writes
    Junk,           \* what a client's buffer holds before it is read into
    Unknown,
    Scheme,         \* "fs" or "ram"
    MaxCalls        \* bound: reads and writes under way at a time

ASSUME BdevAssumption ==
    /\ Zero \in Values
    /\ Junk \notin Values /\ Unknown \notin Values
    /\ Scheme \in {"fs", "ram"}
    /\ MaxCalls \in Nat

VARIABLES
    dev,            \* the file, or ram_
    known,          \* per block that is held: what its owner wrote to it last
    cut,            \* blocks whose last write had success_ = false
    calls,          \* reads and writes that clients wait for
    reply           \* of the read that returns: what was known, what the
                    \* buffer holds, and whether success_ was set for this
                    \* read and for the last write

bdevVars == <<vars, dev, known, cut, calls, reply>>

Units(b) == b.off_ .. (b.off_ + b.size_ - 1)

(* Of a read only the moment of its return is of interest.                  *)
NoReply == [want |-> Unknown, got |-> {}, ok |-> TRUE]

BdevInit ==
    /\ Init
    /\ dev = [u \in 0..(MaxHeapSize - 1) |-> Zero]
    /\ known = [b \in {} |-> Unknown]
    /\ cut = {}
    /\ calls = {}
    /\ reply = NoReply
-----------------------------------------------------------------------------
Busy(b) == \E c \in calls : c.block = b

MaySubmit(b) == ~Busy(b) /\ Cardinality(calls) < MaxCalls

(* Allocate, which takes several steps on the metadata lane; its blocks     *)
(* hold what was there before.                                              *)
AllocateStep ==
    /\ \/ \E n \in Sizes : Allocate(n)
       \/ \E s \in Slabs : TakeFreed(s) \/ TakeHeap(s) \/ OutOfSpace(s)
    /\ known' = [b \in held' |-> IF b \in held THEN known[b] ELSE Unknown]
    /\ reply' = NoReply
    /\ UNCHANGED <<dev, cut, calls>>

(* The client frees a block; it has waited for its calls on it.             *)
FreeBlock(b) ==
    /\ ~Busy(b)
    /\ Free(b)
    /\ known' = [c \in held' |-> known[c]]
    /\ cut' = cut \ {b}
    /\ reply' = NoReply
    /\ UNCHANGED <<dev, calls>>

(* Client::Write and Client::Read up to Wait.                               *)
SubmitWrite(b, v) ==
    /\ MaySubmit(b)
    /\ calls' = calls \cup {[block |-> b, op |-> "write", val |-> v]}
    /\ known' = [known EXCEPT ![b] = Unknown]
    /\ reply' = NoReply
    /\ UNCHANGED <<vars, dev, cut>>

SubmitRead(b) ==
    /\ MaySubmit(b)
    /\ calls' = calls \cup {[block |-> b, op |-> "read", val |-> Junk]}
    /\ reply' = NoReply
    /\ UNCHANGED <<vars, dev, known, cut>>

(* Client::Write returns; its caller takes the block to hold the value.     *)
WriteReturns(c) ==
    /\ known' = [b \in held |-> IF b = c.block THEN c.val ELSE known[b]]
    /\ calls' = calls \ {c}
    /\ reply' = NoReply
    /\ UNCHANGED vars

(* Faulty variant of Write: it goes one unit too far.                       *)
WriteBeyond(c) ==
    /\ c.op = "write"
    /\ dev' = [u \in DOMAIN dev |->
                 IF u \in Units(c.block) \/ u = c.block.off_ + c.block.size_ THEN c.val ELSE dev[u]]
    /\ cut' = cut \ {c.block}
    /\ WriteReturns(c)

(* WritePosix and WriteMemory.                                              *)
Write(c) ==
    /\ c.op = "write"
    /\ dev' = [u \in DOMAIN dev |-> IF u \in Units(c.block) THEN c.val ELSE dev[u]]
    /\ cut' = cut \ {c.block}
    /\ WriteReturns(c)

(* pwrite64 fails or writes a part of the block only.  WritePosix clears    *)
(* success_, and Client::Write returns as ever.                             *)
WriteShort(c) ==
    /\ Scheme = "fs"
    /\ c.op = "write"
    /\ \E n \in 0..(c.block.size_ - 1) :
        dev' = [u \in DOMAIN dev |->
                    IF u \in Units(c.block) /\ u < c.block.off_ + n THEN c.val ELSE dev[u]]
    /\ cut' = cut \cup {c.block}
    /\ WriteReturns(c)

(* Client::Read returns with what its buffer holds.                         *)
ReadReturns(c, found, success_) ==
    /\ reply' = [want |-> known[c.block], got |-> found, ok |-> success_ /\ c.block \notin cut]
    /\ calls' = calls \ {c}
    /\ UNCHANGED <<vars, dev, known, cut>>

(* ReadPosix fills the client's buffer; the kRam case of Read does nothing. *)
Read(c) ==
    /\ c.op = "read"
    /\ ReadReturns(c, IF Scheme = "fs" THEN {dev[u] : u \in Units(c.block)} ELSE {c.val}, TRUE)

(* pread64 fails or stops early: the rest of the buffer keeps what it held, *)
(* ReadPosix clears success_, and Client::Read returns as ever.             *)
ReadShort(c) ==
    /\ Scheme = "fs"
    /\ c.op = "read"
    /\ \E n \in 0..(c.block.size_ - 1) :
        ReadReturns(c, {dev[u] : u \in {v \in Units(c.block) : v < c.block.off_ + n}} \cup {c.val}, FALSE)

BdevNext ==
    \/ AllocateStep
    \/ \E b \in held : FreeBlock(b) \/ SubmitRead(b)
    \/ \E b \in held, v \in Values : SubmitWrite(b, v)
    \/ \E c \in calls : Write(c) \/ WriteShort(c) \/ Read(c) \/ ReadShort(c)
    \/ Quiet /\ UNCHANGED bdevVars

BdevSpec == BdevInit /\ [][BdevNext]_bdevVars
-----------------------------------------------------------------------------
(* A read returns what the owner of the block wrote to it last, if success_ *)
(* was set for both, whatever other clients allocate, write and free in     *)
(* between and in whatever order the data lanes run their calls (Allocate,  *)
(* Free, Write, Read).                                                      *)
ReadsBack == reply.ok /\ reply.want # Unknown => reply.got = {reply.want}

(* The same of every read that returns.  It does not hold: Client::Write    *)
(* and Client::Read do not look at success_ (README, section 5).            *)
ReadsBackAlways == reply.want # Unknown => reply.got = {reply.want}
=============================================================================
