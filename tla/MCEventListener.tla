--------------------------- MODULE MCEventListener ---------------------------
(***************************************************************************)
(* Instances of EventListener for TLC.                                     *)
(***************************************************************************)
EXTENDS EventListener, TLC

Subscriptions == {<<"PROCESS", "GROUP">>, <<"PROCESS", "STATE", "EXITED">>}

\* An exit is subscribed, a log line is not.
FewEvents ==
    {[ch |-> "system", type |-> "StateChanged", new_state |-> "EXITED"],
     [ch |-> "logs", stream |-> "stdout", events_enabled |-> TRUE]}

Symmetry == Permutations(Listeners)
=============================================================================
