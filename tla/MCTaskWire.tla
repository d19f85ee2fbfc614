----------------------------- MODULE MCTaskWire -----------------------------
(* TaskWire for TLC: one or two tasks of a client and two servers.  The     *)
(* first has any type; the second is one that shares a message in an        *)
(* interesting way: with bytes out, with bytes back, or with neither.       *)
EXTENDS TaskWire

MCServers == {1, 2}

Destinations(type) ==
    CASE Types[type].lib \in {"remote_queue", "worch_queue", "worch_proc"} -> {<<>>}
      [] type = "Create" -> {<<>>}
      [] ~Types[type].srl -> {<<>>, <<1>>}
      [] OTHER -> {<<>>, <<1>>, <<1, 2>>}

Sizes(type) == IF HasData(Types[type]) THEN {FALSE, TRUE} ELSE {FALSE}

TasksOf(names) ==
    UNION {{[type |-> n, to |-> d, empty |-> e] : d \in Destinations(n), e \in Sizes(n)} : n \in names}

(* Types whose place in a message matters: they have bytes, or long lists.  *)
Mixed == {"Write", "Read", "IoWrite", "IoRead", "IoBoth", "CreatePool"}

(* Each type by itself, each sent to one or both servers next to a read,    *)
(* and every pair of types that share a message in an interesting way.      *)
MCJobs ==
    {<<x>> : x \in TasksOf(DOMAIN Types)}
        \cup ({x \in TasksOf(DOMAIN Types) : x.to # <<>>}
                \X {[type |-> "Read", to |-> <<1>>, empty |-> FALSE]})
        \cup ({x \in TasksOf(Mixed) : x.to = <<1>>}
                \X {[type |-> "IoBoth", to |-> <<1>>, empty |-> FALSE],
                    [type |-> "GetPoolId", to |-> <<1>>, empty |-> FALSE]})
=============================================================================
