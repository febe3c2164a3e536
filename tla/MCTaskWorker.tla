----------------------------- MODULE MCTaskWorker -----------------------------
(***************************************************************************)
(* Instances of TaskWorker for TLC.  Either a task is sent, the same       *)
(* operation again under another task_id, and a message that uses the      *)
(* first one's task_id for something else; or a task and a notification    *)
(* that is issued twice.                                                   *)
(***************************************************************************)
EXTENDS TaskWorker

MCMessages == {"task", "reissued task", "other task", "notice", "reissued notice"}
MCNotifications == {"notice", "reissued notice"}
MCTraffics == {{"task", "reissued task", "other task"},
               {"task", "notice", "reissued notice"}}

MCTasks == 1 .. 4
MCTaskOf ==
    [m \in MCMessages |-> CASE m \in {"task", "other task"} -> 1
                            [] m = "reissued task"          -> 2
                            [] m = "notice"                 -> 3
                            [] m = "reissued notice"        -> 4]

MCContents == {"incident", "something else", "notice"}
MCContentOf ==
    [m \in MCMessages |-> CASE m \in {"task", "reissued task"} -> "incident"
                            [] m = "other task"               -> "something else"
                            [] m \in MCNotifications          -> "notice"]

\* Each content has a key of its own.
MCKeys == MCContents
MCKeyOf == MCContentOf
=============================================================================
