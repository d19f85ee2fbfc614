------------------------------ MODULE TaskWire ------------------------------
(***************************************************************************)
(* What a task carries to another node and what it brings back:             *)
(* serialize_defn.h, the copies and deletions of chimaera_client_defn.h,    *)
(* and the parts of the remote queue that use them.                         *)
(*                                                                          *)
(* One client node sends the tasks of a job to the server nodes.  Tasks     *)
(* sent in one call share an archive: a stream md_ of values, read back in  *)
(* the order of writing, and a list bulk_ of data buffers, matched by       *)
(* position.  A value is <<object, field, version>>.  Buffers are numbered: *)
(* those of the client first, then those of AllocateBulksServer.            *)
(*                                                                          *)
(* RemoteQueue has the calls themselves, with failures and the blocking of  *)
(* the submit task; here a call never fails, and Push and Yield are one     *)
(* step.  TASK_LONG_RUNNING and a domain of no nodes are left out.          *)
(***************************************************************************)
EXTENDS TaskTypes, SequencesExt

CONSTANTS
    Servers,        \* server nodes, 1..k
    Jobs            \* sequences of [type, to, empty]: the name of a type, the
                    \* destinations (<<>> for the own node), whether size_ = 0

Junk(f) == <<0, f, "junk">>
NoBuffer == 0
WildBuffer == -1
NoCall == [tasks_ |-> <<>>, md_ |-> <<>>, bulk_ |-> <<>>, at |-> 0, off |-> 0]

VARIABLES
    job,            \* the tasks, fixed
    st,             \* per task: "new", "sent", "complete", "deleted" or "over"
    blocked,        \* per task: block_count_ of its submit task
    obj,            \* objects on the client: <<t, 0>> the task, <<t, i>> replica i
    rep,            \* objects on the servers, by the client object they run for
    ran,            \* server objects whose Run is over
    mem,            \* buffers: [val, frees]
    wild,           \* objects whose destructor freed a pointer nobody set
    submit_,        \* client objects to send
    out,            \* calls of ClientSubmit that are not over: [node, xfer]
    inbox,          \* per server: the RpcTaskSubmit it handles
    complete_,      \* per server: objects to send back
    back            \* per server: the RpcTaskComplete it waits for

vars == <<job, st, blocked, obj, rep, ran, mem, wild, submit_, out, inbox, complete_, back>>

TaskIds == DOMAIN job
(* The type that the caller constructed, and the one that the container of   *)
(* its module takes the object for.                                          *)
TypeOf(o) == Types[job[o[1]].type]
Casts == [n \in DOMAIN Types |-> Cast(Types[n].lib, Types[n].method, Types[n].io)]
CastOf(o) == Casts[job[o[1]].type]
Fields(type) == type.in \cup type.out
HasData(type) == \E i \in DOMAIN type.start : type.start[i].flag # "none"

(* The objects that are sent for task t, and where object o goes.            *)
Sent(t) ==
    IF Len(job[t].to) = 1 THEN <<<<t, 0>>>> ELSE [i \in DOMAIN job[t].to |-> <<t, i>>]
NodeOf(o) == job[o[1]].to[IF o[2] = 0 THEN 1 ELSE o[2]]

(* A task as its constructor leaves it.  The inputs are set, the outputs     *)
(* are not, and the t-th client buffer is the t-th task's.                   *)
NewTask(t) ==
    LET type == TypeOf(<<t, 0>>)
    IN  [val |-> [f \in Fields(type) |->
                    IF (f = "size_" /\ job[t].empty) \/ f \in type.sums THEN <<t, f, "zero">>
                    ELSE IF f \in type.in THEN <<t, f, "in">>
                    ELSE Junk(f)],
         data_ |-> IF HasData(type) THEN t ELSE NoBuffer,
         owner |-> type.owner]

(* NewEmptyTask: the default constructor.                                   *)
NewEmptyTask(type) ==
    [val |-> [f \in Fields(type) |-> Junk(f)], data_ |-> NoBuffer, owner |-> FALSE]

Init ==
    /\ job \in Jobs
    /\ st = [t \in TaskIds |-> "new"]
    /\ blocked = [t \in TaskIds |-> 0]
    /\ obj = [o \in {<<t, 0>> : t \in TaskIds} |-> NewTask(o[1])]
    /\ rep = <<>>
    /\ ran = {}
    /\ mem = [t \in TaskIds |-> [val |-> <<t, "data_", "in">>, frees |-> 0]]
    /\ wild = {}
    /\ submit_ = <<>>
    /\ out = {}
    /\ inbox = [n \in Servers |-> NoCall]
    /\ complete_ = [n \in Servers |-> <<>>]
    /\ back = [n \in Servers |-> NoCall]
-----------------------------------------------------------------------------
(* Archives.                                                                *)

IsZero(v) == v[3] = "zero"

(* The items of a serializer that are bulks: at most one.                   *)
Bulks(items) == {items[i] : i \in {j \in DOMAIN items : items[j].flag # "none"}}

(* BinaryOutputArchive::bulk: an entry for the buffer unless its size is 0.  *)
BulkEntry(items, o) ==
    IF Bulks(items) = {} \/ IsZero(o.val["size_"]) THEN <<>>
    ELSE <<[flag |-> (CHOOSE it \in Bulks(items) : TRUE).flag, src |-> o.data_, dst |-> NoBuffer]>>

(* BinaryOutputArchive: the fields, and the sizes of bulks, go to md_.       *)
Save(items, o, x) ==
    [x EXCEPT !.md_ = @ \o [i \in DOMAIN items |-> o.val[items[i].field]],
              !.bulk_ = @ \o BulkEntry(items, o)]

(* SaveStart, for a type that is sent: the header of the task, its segment   *)
(* and its inputs.  TF_LOCAL leaves no trace.                                *)
SaveStart(o, x) ==
    IF CastOf(o).srl
    THEN Save(CastOf(o).start, obj[o],
              [x EXCEPT !.md_ = Append(@, <<o[1], "task_flags_", "in">>), !.tasks_ = Append(@, o)])
    ELSE x

(* Faulty variant of SaveEnd: no segment for a task without results.         *)
SaveEndIfAny(o, x) ==
    IF CastOf(o).srl /\ CastOf(o).end # <<>>
    THEN Save(CastOf(o).end, rep[o], [x EXCEPT !.tasks_ = Append(@, o)])
    ELSE x

(* SaveEnd: the segment names the client's object.                          *)
SaveEnd(o, x) ==
    IF CastOf(o).srl
    THEN Save(CastOf(o).end, rep[o], [x EXCEPT !.tasks_ = Append(@, o)])
    ELSE x

(* Faulty variant of LoadBulk: the place in bulk_ is not moved on.           *)
LoadBulkInPlace(s, is_start) ==
    IF IsZero(s.o.val["size_"])
    THEN IF is_start THEN [s EXCEPT !.o.data_ = WildBuffer] ELSE s
    ELSE IF is_start
         THEN [s EXCEPT !.o.data_ = s.x.bulk_[1].dst]
         ELSE [s EXCEPT !.x.bulk_[1].dst = s.o.data_]

(* BinaryInputArchive::bulk, once the size is read: at the start the task    *)
(* takes the next buffer of the message, at the end the message takes the    *)
(* task's.  With size 0 the pointer set at the start was never assigned.     *)
LoadBulk(s, is_start) ==
    IF IsZero(s.o.val["size_"])
    THEN IF is_start THEN [s EXCEPT !.o.data_ = WildBuffer] ELSE s
    ELSE IF is_start
         THEN [s EXCEPT !.o.data_ = s.x.bulk_[s.x.off + 1].dst, !.x.off = @ + 1]
         ELSE [s EXCEPT !.x.bulk_[s.x.off + 1].dst = s.o.data_, !.x.off = @ + 1]

(* The archive x is read into the object o.                                 *)
Load(items, o, x, is_start) ==
    LET n == Len(items)
        at(f) == {i \in 1..n : items[i].field = f}
        s == [o |-> [o EXCEPT !.val = [f \in DOMAIN @ |->
                        IF at(f) # {} THEN x.md_[CHOOSE i \in at(f) : TRUE] ELSE @[f]]],
              x |-> [x EXCEPT !.md_ = SubSeq(@, n + 1, Len(@))]]
    IN  IF Bulks(items) # {} THEN LoadBulk(s, is_start) ELSE s

(* LoadStart: a new task of the type that the method stands for.  The header *)
(* is read first.                                                            *)
LoadStart(o, x) ==
    Load(CastOf(o).start, NewEmptyTask(CastOf(o)), [x EXCEPT !.md_ = Tail(@)], TRUE)

(* DT_WRITE has the bit of DT_EXPOSE too.                                   *)
Bits(flag) == IF flag = "DT_WRITE" THEN {0, 1} ELSE {0}

(* IoCallServerWrite pulls every buffer that shares a bit with DT_WRITE.     *)
Pull(x, m) ==
    LET pulled(i) == {b \in ToSet(x.bulk_) : b.dst = i /\ Bits(b.flag) \cap Bits("DT_WRITE") # {}}
    IN  [i \in DOMAIN m |->
            IF pulled(i) = {} THEN m[i]
            ELSE [m[i] EXCEPT !.val = m[(CHOOSE b \in pulled(i) : TRUE).src].val]]
-----------------------------------------------------------------------------
(* Deleting a task.                                                         *)

(* The destructor frees the buffer of a task that owns it.                   *)
Frees(o, type) == type.frees /\ o.owner /\ o.data_ # NoBuffer

(* The memory after DelTask for the objects os of one node, and the frees    *)
(* of a pointer nobody set.                                                  *)
AfterDel(os, m) ==
    [i \in DOMAIN m |->
        [m[i] EXCEPT !.frees = @ + Cardinality({o \in DOMAIN os :
                                     Frees(os[o], CastOf(o)) /\ os[o].data_ = i})]]
WildFrees(os) == {o \in DOMAIN os : Frees(os[o], CastOf(o)) /\ os[o].data_ = WildBuffer}
-----------------------------------------------------------------------------
(* The client.                                                              *)

(* Run sets the outputs, and replaces the bytes of some types.               *)
AfterRun(r, o) ==
    [r EXCEPT !.val = [f \in DOMAIN @ |->
        IF f \in CastOf(o).out THEN <<o[1], f, "out">> ELSE @[f]]]
MemAfterRun(r, o) ==
    IF CastOf(o).writes /\ r.data_ \in DOMAIN mem
    THEN [mem EXCEPT ![r.data_].val = <<o[1], "data_", "out">>]
    ELSE mem

(* A task for the own node never leaves it.                                 *)
RunHere(t) ==
    LET o == <<t, 0>>
    IN  /\ st[t] = "new"
        /\ job[t].to = <<>>
        /\ obj' = [obj EXCEPT ![o] = AfterRun(@, o)]
        /\ mem' = MemAfterRun(obj[o], o)
        /\ st' = [st EXCEPT ![t] = "complete"]
        /\ UNCHANGED <<job, blocked, rep, ran, wild, submit_, out, inbox, complete_, back>>

(* Faulty variant of CopyTask: a copy for sending owns the buffer as well.   *)
CopyTaskOwns(o) ==
    [NewEmptyTask(CastOf(o)) EXCEPT
        !.val = [f \in DOMAIN @ |-> IF f \in CastOf(o).copy THEN obj[o].val[f] ELSE @[f]],
        !.data_ = obj[o].data_,
        !.owner = obj[o].owner]

(* CopyTask(deep = false): CopyStart shares the buffer and the copy does     *)
(* not own it.                                                              *)
CopyTask(o) ==
    [NewEmptyTask(CastOf(o)) EXCEPT
        !.val = [f \in DOMAIN @ |-> IF f \in CastOf(o).copy THEN obj[o].val[f] ELSE @[f]],
        !.data_ = obj[o].data_,
        !.owner = FALSE]

(* ClientPushSubmit: the task itself for one node (Direct), a copy for each  *)
(* of several (Replicate).                                                   *)
ClientPushSubmit(t) ==
    /\ st[t] = "new"
    /\ job[t].to # <<>>
    /\ LET new == ToSet(Sent(t)) \ DOMAIN obj
       IN  /\ obj' = [o \in DOMAIN obj \cup new |->
                        IF o \in new THEN CopyTask(<<t, 0>>) ELSE obj[o]]
           /\ submit_' = submit_ \o Sent(t)
    /\ blocked' = [blocked EXCEPT ![t] = Len(job[t].to)]
    /\ st' = [st EXCEPT ![t] = "sent"]
    /\ UNCHANGED <<job, rep, ran, mem, wild, out, inbox, complete_, back>>

(* ClientSubmit empties submit_ into one archive for each node.              *)
ClientSubmit ==
    /\ out = {}
    /\ submit_ # <<>>
    /\ out' = {[node |-> n,
                xfer |-> FoldLeft(LAMBDA x, o : SaveStart(o, x), NoCall,
                                  SelectSeq(submit_, LAMBDA o : NodeOf(o) = n))] :
                  n \in {NodeOf(o) : o \in ToSet(submit_)}}
    /\ submit_' = <<>>
    /\ UNCHANGED <<job, st, blocked, obj, rep, ran, mem, wild, inbox, complete_, back>>

(* kReplicaAgg, for one field: the value of a replica replaces that of the   *)
(* task, or is added to it.                                                  *)
Aggregate(type, f, own, replica) ==
    IF f \in type.sums /\ ~IsZero(own) THEN <<own[1], f, "sum">>
    ELSE IF f \in type.agg THEN replica
    ELSE own

(* The submit task is resumed.  Replicate combines the replicas into the     *)
(* task and deletes them.                                                    *)
ClientDone(t) ==
    /\ st[t] = "sent"
    /\ blocked[t] = 0
    /\ LET reps == ToSet(Sent(t)) \ {<<t, 0>>}
           type == CastOf(<<t, 0>>)
           from == <<t, IF type.pick = "first" THEN 1 ELSE Len(job[t].to)>>
           del == [o \in reps |-> obj[o]]
       IN  /\ obj' = [o \in DOMAIN obj \ reps |->
                        IF o = <<t, 0>> /\ reps # {}
                        THEN [obj[o] EXCEPT !.val = [f \in DOMAIN @ |->
                                Aggregate(type, f, @[f], obj[from].val[f])]]
                        ELSE obj[o]]
           /\ mem' = AfterDel(del, mem)
           /\ wild' = wild \cup WildFrees(del)
    /\ st' = [st EXCEPT ![t] = "complete"]
    /\ UNCHANGED <<job, blocked, rep, ran, submit_, out, inbox, complete_, back>>

(* The caller deletes the task it waited for: the destructor frees the       *)
(* buffer of a task with TASK_DATA_OWNER.                                    *)
DelTask(t) ==
    /\ st[t] = "complete"
    /\ LET del == [o \in {<<t, 0>>} |-> obj[o]]
       IN  /\ mem' = AfterDel(del, mem)
           /\ wild' = wild \cup WildFrees(del)
    /\ st' = [st EXCEPT ![t] = "deleted"]
    /\ UNCHANGED <<job, blocked, obj, rep, ran, submit_, out, inbox, complete_, back>>

(* Whether the buffer is the caller's, who then frees it (FreeBuffer) when   *)
(* the task is deleted.                                                      *)
CallersBuffer(t) == HasData(TypeOf(<<t, 0>>)) /\ ~TypeOf(<<t, 0>>).owner

FreeBuffer(t) ==
    /\ st[t] = "deleted"
    /\ CallersBuffer(t)
    /\ mem' = [mem EXCEPT ![t].frees = @ + 1]
    /\ st' = [st EXCEPT ![t] = "over"]
    /\ UNCHANGED <<job, blocked, obj, rep, ran, wild, submit_, out, inbox, complete_, back>>
-----------------------------------------------------------------------------
(* The servers.                                                             *)

Idle(c) == c = NoCall

(* RpcTaskSubmit, for one node at a time: AllocateBulksServer, then the      *)
(* bytes are pulled.                                                         *)
RpcTaskSubmit(n) ==
    /\ \A m \in Servers : Idle(inbox[m])
    /\ \E c \in out :
          /\ c.node = n
          /\ LET k == Len(mem)
                 x == [c.xfer EXCEPT !.bulk_ = [i \in DOMAIN @ |-> [@[i] EXCEPT !.dst = k + i]],
                                     !.at = 1]
             IN  /\ inbox' = [inbox EXCEPT ![n] = x]
                 /\ mem' = Pull(x, mem \o [i \in DOMAIN x.bulk_ |->
                                             [val |-> Junk("data_"), frees |-> 0]])
    /\ UNCHANGED <<job, st, blocked, obj, rep, ran, wild, submit_, out, complete_, back>>

(* DeserializeTask for the next segment; the task owns its buffer.           *)
DeserializeTask(n) ==
    /\ inbox[n].at \in 1..Len(inbox[n].tasks_)
    /\ LET o == inbox[n].tasks_[inbox[n].at]
           s == LoadStart(o, inbox[n])
       IN  /\ rep' = [q \in DOMAIN rep \cup {o} |-> IF q = o THEN [s.o EXCEPT !.owner = TRUE] ELSE rep[q]]
           /\ inbox' = [inbox EXCEPT ![n] = [s.x EXCEPT !.at = @ + 1]]
    /\ UNCHANGED <<job, st, blocked, obj, ran, mem, wild, submit_, out, complete_, back>>

(* The response lets ClientSubmit go on to its next node.                    *)
SubmitResponds(n) ==
    /\ inbox[n].at = Len(inbox[n].tasks_) + 1
    /\ inbox' = [inbox EXCEPT ![n] = NoCall]
    /\ out' = {c \in out : c.node # n}
    /\ UNCHANGED <<job, st, blocked, obj, rep, ran, mem, wild, submit_, complete_, back>>

(* A worker runs the task; ServerPushComplete files it.                      *)
RunTask(o) ==
    /\ o \notin ran
    /\ rep' = [rep EXCEPT ![o] = AfterRun(@, o)]
    /\ mem' = MemAfterRun(rep[o], o)
    /\ ran' = ran \cup {o}
    /\ complete_' = [complete_ EXCEPT ![NodeOf(o)] = Append(@, o)]
    /\ UNCHANGED <<job, st, blocked, obj, wild, submit_, out, inbox, back>>

(* ServerComplete empties complete_ into one archive.                        *)
ServerComplete(n) ==
    /\ Idle(back[n])
    /\ complete_[n] # <<>>
    /\ back' = [back EXCEPT ![n] =
                    FoldLeft(LAMBDA x, o : SaveEnd(o, x), [NoCall EXCEPT !.at = 1], complete_[n])]
    /\ complete_' = [complete_ EXCEPT ![n] = <<>>]
    /\ UNCHANGED <<job, st, blocked, obj, rep, ran, mem, wild, submit_, out, inbox>>

(* LoadEnd of every segment into the client's objects.                       *)
LoadEnds(x) ==
    FoldLeft(LAMBDA s, o :
                LET r == Load(CastOf(o).end, s.obj[o], s.x, FALSE)
                IN  [obj |-> [s.obj EXCEPT ![o] = r.o], x |-> r.x],
             [obj |-> obj, x |-> x], x.tasks_)

(* RpcTaskComplete on the client: all results are read, then the bytes are   *)
(* pulled.                                                                   *)
RpcTaskComplete(n) ==
    /\ back[n].at = 1
    /\ LET s == LoadEnds(back[n])
       IN  /\ obj' = s.obj
           /\ mem' = Pull(s.x, mem)
           /\ back' = [back EXCEPT ![n] = [s.x EXCEPT !.at = 2]]
    /\ UNCHANGED <<job, st, blocked, rep, ran, wild, submit_, out, inbox, complete_>>

(* It unblocks the submit tasks one after the other.                        *)
SignalUnblock(n) ==
    /\ back[n].at \in 2..(Len(back[n].tasks_) + 1)
    /\ LET t == back[n].tasks_[back[n].at - 1][1]
       IN  blocked' = [blocked EXCEPT ![t] = @ - 1]
    /\ back' = [back EXCEPT ![n].at = @ + 1]
    /\ UNCHANGED <<job, st, obj, rep, ran, mem, wild, submit_, out, inbox, complete_>>

(* The response lets ServerComplete delete the tasks it sent back.           *)
ServerFrees(n) ==
    /\ back[n].at = Len(back[n].tasks_) + 2
    /\ LET done == {back[n].tasks_[i] : i \in DOMAIN back[n].tasks_}
           del == [o \in done |-> rep[o]]
       IN  /\ mem' = AfterDel(del, mem)
           /\ wild' = wild \cup WildFrees(del)
           /\ rep' = [o \in DOMAIN rep \ done |-> rep[o]]
    /\ back' = [back EXCEPT ![n] = NoCall]
    /\ UNCHANGED <<job, st, blocked, obj, ran, submit_, out, inbox, complete_>>

Next ==
    \/ \E t \in TaskIds : RunHere(t)
    \/ \E t \in TaskIds : ClientPushSubmit(t)
    \/ ClientSubmit
    \/ \E t \in TaskIds : ClientDone(t)
    \/ \E t \in TaskIds : DelTask(t)
    \/ \E t \in TaskIds : FreeBuffer(t)
    \/ \E n \in Servers : RpcTaskSubmit(n)
    \/ \E n \in Servers : DeserializeTask(n)
    \/ \E n \in Servers : SubmitResponds(n)
    \/ \E o \in DOMAIN rep : RunTask(o)
    \/ \E n \in Servers : ServerComplete(n)
    \/ \E n \in Servers : RpcTaskComplete(n)
    \/ \E n \in Servers : SignalUnblock(n)
    \/ \E n \in Servers : ServerFrees(n)

Spec == Init /\ [][Next]_vars
-----------------------------------------------------------------------------
(* The copies of a replicated task share the caller's buffer.  If its bytes  *)
(* go out and come back, those of one server may arrive before those for     *)
(* the other have left.                                                      *)
SharesBuffer(t) ==
    Len(job[t].to) > 1 /\ TypeOf(<<t, 0>>).reads /\ TypeOf(<<t, 0>>).gives

(* A task that runs on a server has every input of the task it was sent      *)
(* for, and the bytes of its caller: whatever else shares the message, the   *)
(* receiver reads back field by field and buffer by buffer what the sender   *)
(* wrote (SerializeStart, the archives, CopyStart).  The bytes of tasks as   *)
(* in SharesBuffer are the exception.                                        *)
InputsArrive ==
    \A o \in DOMAIN rep \ ran :
        /\ \A f \in TypeOf(o).in :
               rep[o].val[f] = NewTask(o[1]).val[f]
        /\ TypeOf(o).reads /\ ~job[o[1]].empty /\ ~SharesBuffer(o[1]) =>
               mem[rep[o].data_].val = <<o[1], "data_", "in">>

(* The outputs of a task that are expected back: those of its own run; of a  *)
(* single remote run, all but the success_ that WriteTask keeps; of several  *)
(* runs, those that kReplicaAgg combines.                                    *)
Expected(t) ==
    LET type == TypeOf(<<t, 0>>)
    IN  IF Len(job[t].to) > 1 THEN type.agg \cap type.out
        ELSE IF Len(job[t].to) = 1 /\ job[t].type = "Write" THEN {}
        ELSE type.out

(* When the caller goes on, the results in its task are those of a run of    *)
(* that task, and so are the bytes in its buffer if it wanted any: no result *)
(* is lost, and none lands in the task or the buffer of another              *)
(* (SerializeEnd, RpcTaskComplete, kReplicaAgg).                             *)
OutputsReturn ==
    \A t \in TaskIds : st[t] \in {"complete", "deleted"} =>
        /\ \A f \in Expected(t) : obj[<<t, 0>>].val[f] = <<t, f, "out">>
        /\ TypeOf(<<t, 0>>).gives /\ ~job[t].empty =>
               mem[t].val = <<t, "data_", "out">>

(* The task is there, or its caller's buffer is.                             *)
UsesBuffer(t) == st[t] # "over" /\ (st[t] = "deleted" => CallersBuffer(t))

(* The buffers that a task or a transfer under way still needs.              *)
InUse ==
    {rep[o].data_ : o \in DOMAIN rep}
        \cup {obj[<<t, 0>>].data_ : t \in {u \in TaskIds : UsesBuffer(u)}}
        \cup UNION {{inbox[n].bulk_[i].dst : i \in (inbox[n].off + 1)..Len(inbox[n].bulk_)} : n \in Servers}
        \cup UNION {{b.src : b \in ToSet(back[n].bulk_)} : n \in {m \in Servers : back[m].at = 1}}

(* No buffer is freed twice, or while a task or a transfer needs it: a task  *)
(* frees a buffer of its own, and the caller the one it lent (the            *)
(* destructors, CopyTask, ServerComplete).  When the job is over each buffer *)
(* was freed.  The pointers that empty transfers leave unset are freed too;  *)
(* they are the exception (README, section 5).                               *)
BuffersFreedOnce ==
    /\ \A i \in DOMAIN mem : mem[i].frees <= 1
    /\ \A i \in InUse \ {NoBuffer, WildBuffer} : mem[i].frees = 0
    /\ \A o \in wild : job[o[1]].empty
    /\ DOMAIN rep = {} /\ (\A t \in TaskIds : ~UsesBuffer(t)) =>
           \A i \in DOMAIN mem : mem[i].frees = 1 \/ (i \in TaskIds /\ ~HasData(TypeOf(<<i, 0>>)))

(* The results of object o are back and its submit task was told.            *)
Returned(o) ==
    /\ o \in ran
    /\ o \in DOMAIN rep =>
          \E i \in DOMAIN back[NodeOf(o)].tasks_ :
              back[NodeOf(o)].tasks_[i] = o /\ i + 1 < back[NodeOf(o)].at

(* A caller waits for as many returns as are outstanding, and each of those  *)
(* is in a queue, in a message, or on its server: a task that was sent       *)
(* cannot be lost or answered twice.  Only a type with TF_LOCAL vanishes,    *)
(* since nothing of it is written (Serialize, SetBlocked, SignalUnblock).    *)
NothingLost ==
    \A t \in TaskIds : st[t] = "sent" /\ TypeOf(<<t, 0>>).srl =>
        LET away == {o \in ToSet(Sent(t)) : ~Returned(o)}
        IN  /\ blocked[t] = Cardinality(away)
            /\ \A o \in away \ ran :
                   \/ o \in ToSet(submit_) \cup DOMAIN rep
                   \/ \E c \in out : o \in ToSet(c.xfer.tasks_)
            /\ \A o \in away \cap ran :
                   o \in ToSet(complete_[NodeOf(o)]) \cup ToSet(back[NodeOf(o)].tasks_)

(* Every field that a task declares OUT has the result of the run when the   *)
(* caller goes on after a single remote run.  It does not hold for the       *)
(* success_ of WriteTask (README, section 5).                                *)
DeclaredOutputsReturn ==
    \A t \in TaskIds : st[t] \in {"complete", "deleted"} /\ Len(job[t].to) = 1 =>
        \A f \in TypeOf(<<t, 0>>).out : obj[<<t, 0>>].val[f] = <<t, f, "out">>
=============================================================================
