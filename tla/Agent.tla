-------------------------------- MODULE Agent --------------------------------
(***************************************************************************)
(* The process from its command line to its end: Startup, and if that says *)
(* so the runners, the service and its events.                             *)
(***************************************************************************)
EXTENDS LifecycleEvents, Startup

AgentInit == AllInit /\ StartInit

(* The runners are begun, if they say that they should run.  Nothing reads *)
(* any more what they were started with.                                   *)
BeginRunners ==
    /\ stage = "running" /\ stage' = "begun"
    /\ flags' = None /\ config' = None /\ opts' = None
    /\ asked' = None /\ dial' = None
    /\ process' = Nowhere /\ file' = Nowhere /\ legacy' = FALSE /\ oldURL' = FALSE
    /\ UNCHANGED allVars

AgentNext ==
    \/ Start /\ UNCHANGED allVars
    \/ BeginRunners
    \/ stage = "begun" /\ AllNext /\ UNCHANGED startVars

AgentSpec == AgentInit /\ [][AgentNext]_<<allVars, startVars>>

=============================================================================
