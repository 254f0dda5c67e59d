------------------------------ MODULE MCRoutine ------------------------------
(* Instances of Routine for TLC. *)
EXTENDS Routine, TLC

(* main: the scheduler is restarted, the storage never (agent.c) *)
MainOrder  == <<"sch", "st">>
MainPolicy == ("sch" :> "always") @@ ("st" :> "never")

(* main and the scheduler only *)
SchedulerOrder  == <<"sch">>
SchedulerPolicy == "sch" :> "always"

(* the scheduler and one plugin, restarted while it gathers (scheduler.c) *)
PluginOrder  == <<"plugin">>
PluginPolicy == "plugin" :> "gather"
==============================================================================
