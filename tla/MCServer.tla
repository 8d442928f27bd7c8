------------------------------ MODULE MCServer ------------------------------
(***************************************************************************)
(* An instance of Server for TLC.  As in MCStreams `part' names the        *)
(* component that moves.                                                   *)
(***************************************************************************)
EXTENDS Server, TLC

CONSTANTS l1, l2        \* event listener programs

VARIABLE part

Req(api, op, name, sync) == [api |-> api, op |-> op, name |-> name, sync |-> sync]

\* One client waits for a program; the other does everything else.
Asked ==
    [x |-> {Req("rest", "start", "a", TRUE), Req("rest", "stop", "a", TRUE),
            Req("rpc", "start", "g", FALSE), Req("rpc", "signal", "a", FALSE)},
     y |-> {Req("rest", "start", "a", FALSE), Req("rest", "restart", "a", FALSE),
            Req("rest", "restart_group", "g", FALSE), Req("rest", "stop_all", "g", FALSE),
            Req("rest", "details", "b", FALSE), Req("rpc", "stop", "g", FALSE),
            Req("rpc", "start_group", "g", FALSE), Req("rpc", "start_all", "g", FALSE),
            Req("rpc", "probe", "a", FALSE), Req("rpc", "query", "b", FALSE)}]

AllSettings == [basic : [Sockets -> BOOLEAN], token : BOOLEAN]

Subscriptions == {<<"PROCESS", "GROUP">>, <<"PROCESS", "STATE", "EXITED">>}

\* An exit is subscribed, a log line is not.
HubEvents ==
    {[ch |-> "system", type |-> "StateChanged", new_state |-> "EXITED"],
     [ch |-> "logs", stream |-> "stdout", events_enabled |-> TRUE]}

\* The names of the listeners do not matter to the pool.
Symmetry == Permutations({l1, l2})

-----------------------------------------------------------------------------
\* More events than the buffer and the hub's queue hold, for a pool of which
\* one listener is started.
Crowded == INSTANCE EventListener WITH MaxEvents <- MaxEvents + 1

CrowdedStep ==
    /\ Crowded!Next /\ UNCHANGED <<actionVars, authVars, activityVars>>
    /\ Cardinality({l \in Listeners : calls'[l] > 0}) <= 1

\* Program b runs only after a start of the group or of all programs.
MCInit ==
    /\ part \in {"actions", "auth", "activity", "pool", "crowded"}
    /\ ServerInit
    /\ state["b"] = "Stopped"
    /\ part # "actions" => state = [p \in Programs |-> "Stopped"]
    /\ part # "auth" => setting = [basic |-> [s \in Sockets |-> TRUE], token |-> TRUE]

MCNext ==
    /\ UNCHANGED part
    /\ \/ part = "actions" /\ ActionsStep
       \/ part = "auth" /\ AuthStep
       \/ part = "activity" /\ TrackerStep
       \/ part = "pool" /\ PoolStep
       \/ part = "crowded" /\ CrowdedStep

MCSpec == MCInit /\ [][MCNext]_<<part, serverVars>>
=============================================================================
