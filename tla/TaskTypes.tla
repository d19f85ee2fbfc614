------------------------------ MODULE TaskTypes ------------------------------
(***************************************************************************)
(* The task types of the modules under tasks/, each by what its struct      *)
(* declares and does:                                                       *)
(*   in, out    the fields marked IN, OUT and INOUT;                        *)
(*   start, end the items that SerializeStart and SerializeEnd pass to the  *)
(*              archive, in that order;                                     *)
(*   copy       the fields that CopyStart copies;                           *)
(*   agg, pick  the fields that kReplicaAgg takes over, and from which      *)
(*              replica;                                                    *)
(*   sums       those it adds to the task's own value, which starts as 0;   *)
(*   srl        whether the type is sent at all (false with TF_LOCAL);      *)
(*   owner      TASK_DATA_OWNER, as the constructor sets it;                *)
(*   frees      whether the destructor frees data_ when the task owns it;   *)
(*   reads, gives  whether the caller hands over the bytes at data_, and    *)
(*              whether it wants them back;                                 *)
(*   writes     whether Run replaces them;                                  *)
(*   io         io_flags_, of IoTask only.                                  *)
(* lib and method are what a message says of a task (its pool, and with it  *)
(* the module, and its method_): the generated *_lib_exec.h of the module   *)
(* chooses the struct by the method.  The field data_ itself is not in      *)
(* these sets: it is a pointer, and travels as a bulk.                      *)
(***************************************************************************)
EXTENDS Integers, Sequences, FiniteSets

(* One item of a serializer: ar(f), or ar.bulk(flag, data_, size_), which    *)
(* also carries size_.                                                      *)
ar(f) == [field |-> f, flag |-> "none"]
bulk(flag) == [field |-> "size_", flag |-> flag]

(* A type with none of the optional parts.                                  *)
Task(lib, method, ins, outs, start, end, copy) ==
    [lib |-> lib, method |-> method, in |-> ins, out |-> outs, start |-> start, end |-> end,
     copy |-> copy, agg |-> {}, pick |-> "first", sums |-> {}, srl |-> TRUE, owner |-> FALSE,
     frees |-> FALSE, reads |-> FALSE, gives |-> FALSE, writes |-> FALSE, io |-> {}]

(* TF_LOCAL: no serializers and no copies.                                  *)
LocalTask(lib, method, ins, outs) ==
    [Task(lib, method, ins, outs, <<>>, <<>>, {}) EXCEPT !.srl = FALSE]
-----------------------------------------------------------------------------
(* chimaera_admin *)

(* RegisterModuleTask and DestroyModuleTask.                                *)
RegisterModuleTaskTempl(method) ==
    Task("admin", method, {"lib_name_"}, {}, <<ar("lib_name_")>>, <<>>, {"lib_name_"})

UpgradeModuleTask ==
    Task("admin", "kUpgradeModule", {"lib_name_"}, {}, <<ar("lib_name_")>>, <<>>, {"lib_name_"})

(* ctx_ goes out whole, only its id_ comes back, and kReplicaAgg takes it   *)
(* over whole.                                                              *)
CreatePoolTask ==
    [Task("admin", "kCreatePool",
          {"lib_name_", "pool_name_", "ctx_.id_", "ctx_.lanes", "root_", "affinity_", "params_"},
          {"ctx_.id_", "params_"},
          <<ar("lib_name_"), ar("pool_name_"), ar("ctx_.id_"), ar("ctx_.lanes"), ar("root_"),
            ar("affinity_"), ar("params_")>>,
          <<ar("ctx_.id_"), ar("params_")>>,
          {"lib_name_", "pool_name_", "ctx_.id_", "ctx_.lanes", "root_", "affinity_", "params_"})
        EXCEPT !.agg = {"ctx_.id_", "ctx_.lanes"}]

(* The same fields, for the module's own Create.                            *)
CreateTask == [CreatePoolTask EXCEPT !.method = "kCreate", !.agg = {}]

GetPoolIdTask ==
    [Task("admin", "kGetPoolId", {"pool_name_"}, {"id_"}, <<ar("pool_name_")>>, <<ar("id_")>>,
          {"pool_name_"})
        EXCEPT !.agg = {"id_"}]

DestroyContainerTask ==
    Task("admin", "kDestroyContainer", {"id_"}, {}, <<ar("id_")>>, <<>>, {"id_"})

(* root_ is declared, but neither set nor sent.                             *)
StopRuntimeTask == Task("admin", "kStopRuntime", {}, {}, <<>>, <<>>, {})

(* SetWorkOrchQueuePolicyTask and SetWorkOrchProcPolicyTask.                *)
SetWorkOrchestratorPolicyTask(method) ==
    Task("admin", method, {"policy_id_"}, {}, <<ar("policy_id_")>>, <<>>, {"policy_id_"})

(* work_done_ += that of the first replica.                                 *)
FlushTask ==
    [Task("admin", "kFlush", {"work_done_"}, {"work_done_"}, <<ar("work_done_")>>,
          <<ar("work_done_")>>, {"work_done_"})
        EXCEPT !.agg = {"work_done_"}, !.sums = {"work_done_"}]

GetDomainSizeTask == LocalTask("admin", "kGetDomainSize", {"dom_id_"}, {"dom_size_"})

UpdateDomainTask == Task("admin", "kUpdateDomain", {"ops_"}, {}, <<ar("ops_")>>, <<>>, {"ops_"})

PollStatsTask ==
    Task("admin", "kPollStats", {}, {"stats_"}, <<>>, <<ar("stats_")>>, {"stats_"})
-----------------------------------------------------------------------------
(* bdev *)

AllocateTask ==
    Task("bdev", "kAllocate", {"size_"}, {"total_size_", "blocks_"}, <<ar("size_")>>,
         <<ar("blocks_"), ar("total_size_")>>, {"size_", "blocks_"})

FreeTask == Task("bdev", "kFree", {"block_"}, {}, <<ar("block_")>>, <<>>, {"block_"})

(* success_ is declared OUT; SerializeEnd has it commented out.             *)
WriteTask ==
    [Task("bdev", "kWrite", {"size_", "off_"}, {"success_"}, <<bulk("DT_WRITE"), ar("off_")>>,
          <<>>, {"size_", "off_"})
        EXCEPT !.frees = TRUE, !.reads = TRUE]

(* Faulty variant of ReadTask: the bytes do not come with the results.       *)
ReadTaskKeepsData ==
    [Task("bdev", "kRead", {"size_", "off_"}, {"success_"}, <<bulk("DT_EXPOSE"), ar("off_")>>,
          <<ar("success_")>>, {"size_", "off_"})
        EXCEPT !.frees = TRUE, !.gives = TRUE, !.writes = TRUE]

(* Room is asked for on the way out, and the bytes come with the results.   *)
ReadTask ==
    [Task("bdev", "kRead", {"size_", "off_"}, {"success_"}, <<bulk("DT_EXPOSE"), ar("off_")>>,
          <<bulk("DT_WRITE"), ar("success_")>>, {"size_", "off_"})
        EXCEPT !.frees = TRUE, !.gives = TRUE, !.writes = TRUE]

BdevPollStatsTask ==
    Task("bdev", "kPollStats", {}, {"stats_"}, <<>>, <<ar("stats_")>>, {})
-----------------------------------------------------------------------------
(* small_message *)

MdTask ==
    [Task("small_message", "kMd", {"depth_"}, {"ret_"}, <<ar("depth_")>>, <<ar("ret_")>>,
          {"depth_"})
        EXCEPT !.agg = {"ret_"}, !.pick = "last"]

(* io_flags_ decides whether the bytes go out, come back, or both.          *)
IoTask(io_flags_) ==
    [Task("small_message", "kIo", {"size_", "io_flags_"}, {"ret_"},
          <<ar("io_flags_"), bulk(IF "MD_IO_WRITE" \in io_flags_ THEN "DT_WRITE" ELSE "DT_EXPOSE")>>,
          <<ar("io_flags_"), ar("ret_")>>
            \o (IF "MD_IO_READ" \in io_flags_ THEN <<bulk("DT_WRITE")>> ELSE <<>>),
          {"size_", "io_flags_"})
        EXCEPT !.agg = {"ret_"}, !.pick = "last", !.owner = TRUE, !.frees = TRUE,
               !.reads = "MD_IO_WRITE" \in io_flags_, !.gives = "MD_IO_READ" \in io_flags_,
               !.writes = TRUE, !.io = io_flags_]
-----------------------------------------------------------------------------
(* remote_queue and the two schedulers: all TF_LOCAL *)

ClientPushSubmitTask == LocalTask("remote_queue", "kClientPushSubmit", {"orig_task_"}, {})
ClientSubmitTask == LocalTask("remote_queue", "kClientSubmit", {}, {})
ServerPushCompleteTask == LocalTask("remote_queue", "kServerPushComplete", {}, {})
ServerCompleteTask == LocalTask("remote_queue", "kServerComplete", {}, {})
ScheduleTask(lib) == LocalTask(lib, "kSchedule", {}, {})

(* The types by name.                                                       *)
Types ==
    [RegisterModule |-> RegisterModuleTaskTempl("kRegisterModule"),
     DestroyModule |-> RegisterModuleTaskTempl("kDestroyModule"),
     UpgradeModule |-> UpgradeModuleTask,
     CreatePool |-> CreatePoolTask, Create |-> CreateTask, GetPoolId |-> GetPoolIdTask,
     DestroyContainer |-> DestroyContainerTask, StopRuntime |-> StopRuntimeTask,
     SetQueuePolicy |-> SetWorkOrchestratorPolicyTask("kSetWorkOrchQueuePolicy"),
     SetProcPolicy |-> SetWorkOrchestratorPolicyTask("kSetWorkOrchProcPolicy"),
     Flush |-> FlushTask, GetDomainSize |-> GetDomainSizeTask, UpdateDomain |-> UpdateDomainTask,
     PollStats |-> PollStatsTask, Allocate |-> AllocateTask, Free |-> FreeTask,
     Write |-> WriteTask, Read |-> ReadTask, BdevPollStats |-> BdevPollStatsTask,
     Md |-> MdTask, IoWrite |-> IoTask({"MD_IO_WRITE"}), IoRead |-> IoTask({"MD_IO_READ"}),
     IoBoth |-> IoTask({"MD_IO_WRITE", "MD_IO_READ"}),
     ClientPushSubmit |-> ClientPushSubmitTask, ClientSubmit |-> ClientSubmitTask,
     ServerPushComplete |-> ServerPushCompleteTask, ServerComplete |-> ServerCompleteTask,
     ScheduleQueue |-> ScheduleTask("worch_queue"), ScheduleProc |-> ScheduleTask("worch_proc")]
-----------------------------------------------------------------------------
(* The switches of a module's lib_exec.h, which are the same in its nine     *)
(* calls: the struct that the task of a method is cast to, and in LoadStart  *)
(* constructed as.  CreateTask and DestroyTask of every module are those of  *)
(* the admin.                                                               *)

AdminExec ==
    [kCreate |-> CreateTask, kDestroy |-> DestroyContainerTask, kCreatePool |-> CreatePoolTask,
     kDestroyContainer |-> DestroyContainerTask,
     kRegisterModule |-> RegisterModuleTaskTempl("kRegisterModule"),
     kDestroyModule |-> RegisterModuleTaskTempl("kDestroyModule"),
     kUpgradeModule |-> UpgradeModuleTask, kGetPoolId |-> GetPoolIdTask,
     kStopRuntime |-> StopRuntimeTask,
     kSetWorkOrchQueuePolicy |-> SetWorkOrchestratorPolicyTask("kSetWorkOrchQueuePolicy"),
     kSetWorkOrchProcPolicy |-> SetWorkOrchestratorPolicyTask("kSetWorkOrchProcPolicy"),
     kFlush |-> FlushTask, kGetDomainSize |-> GetDomainSizeTask,
     kUpdateDomain |-> UpdateDomainTask, kPollStats |-> PollStatsTask]

BdevExec ==
    [kCreate |-> CreateTask, kDestroy |-> DestroyContainerTask, kAllocate |-> AllocateTask,
     kFree |-> FreeTask, kWrite |-> WriteTask, kRead |-> ReadTask,
     kPollStats |-> BdevPollStatsTask]

RemoteQueueExec ==
    [kCreate |-> CreateTask, kDestroy |-> DestroyContainerTask,
     kClientPushSubmit |-> ClientPushSubmitTask, kClientSubmit |-> ClientSubmitTask,
     kServerPushComplete |-> ServerPushCompleteTask, kServerComplete |-> ServerCompleteTask]

SmallMessageExec(io_flags_) ==
    [kCreate |-> CreateTask, kDestroy |-> DestroyContainerTask, kMd |-> MdTask,
     kIo |-> IoTask(io_flags_)]

WorchQueueExec ==
    [kCreate |-> CreateTask, kDestroy |-> DestroyContainerTask,
     kSchedule |-> ScheduleTask("worch_queue")]

WorchProcExec ==
    [kCreate |-> CreateTask, kDestroy |-> DestroyContainerTask,
     kSchedule |-> ScheduleTask("worch_proc")]

(* The struct that the container of a module takes a task for.  Only the     *)
(* module, the method and the values in the task decide.                     *)
Cast(lib, method, io_flags_) ==
    CASE lib = "admin" -> AdminExec[method]
      [] lib = "bdev" -> BdevExec[method]
      [] lib = "remote_queue" -> RemoteQueueExec[method]
      [] lib = "small_message" -> SmallMessageExec(io_flags_)[method]
      [] lib = "worch_queue" -> WorchQueueExec[method]
      [] lib = "worch_proc" -> WorchProcExec[method]
=============================================================================
