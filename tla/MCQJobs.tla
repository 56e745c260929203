------------------------------ MODULE MCQJobs ------------------------------
(* Instances of QJobs for TLC: in the module JOBS every call comes from the
   event loop, in the module FLOW a worker adds events and nobody moves or
   removes one. *)
EXTENDS QJobs

JobsModule ==
  [t \in {"loop", "worker"} |-> IF t = "loop" THEN {"tick", "add", "set", "rm"} ELSE {}]
FlowModule ==
  [t \in {"loop", "worker"} |-> IF t = "loop" THEN {"tick"} ELSE {"add"}]
MCUses == {JobsModule, FlowModule}
=============================================================================
