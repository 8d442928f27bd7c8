----------------------- MODULE ProgramActorContract -------------------------
(***************************************************************************)
(* The program that a ProgramActor and its handle present to the manager,  *)
(* and the claim that it keeps to ProgramContract.                         *)
(***************************************************************************)
EXTENDS ProgramActor

C == INSTANCE ProgramContract

SpawnPoints == {"spawn", "spawn_drain", "pre_start", "launch"}

\* The commands in the channel, without who waits for them.
Inbox == [i \in DOMAIN command_rx |-> command_rx[i].op]

\* A spawn of the actor's own accord is not distinguished from waiting.
Doing == IF cur.op \in C!Ops \cup {"Health", "Cancel"} THEN cur.op ELSE "idle"

\* The child of the command being served is gone.
Half == \/ pc = "stopped"
        \/ pc \in SpawnPoints /\ cur.op \in {"Restart", "Health"}

Outcome == CASE call.res = "waiting"          -> "wait"
             [] call.res \in {"ok", "err"}    -> call.res
             [] call.res = "closed"           -> "err"
             [] OTHER                         -> "none"

\* The contract's record.
Presented ==
    [state |-> status.state, inbox |-> Inbox, doing |-> Doing, half |-> Half,
     cancel |-> cancel_token, ended |-> (pc = "done"), outcome |-> Outcome]

\* A step of the caller or of the program.
ContractStep ==
    \/ \E op \in C!Ops : Presented' = C!Send(Presented, op)
    \/ Presented' = C!Hangup(Presented)
    \/ Presented' = C!CancelIt(Presented)
    \/ Presented' \in C!Steps(Presented)

(***************************************************************************)
(* Every step of the actor, its child, its probe and its caller (process.rs*)
(* 271-408 and 1058-1832) is one the manager's model of a program allows:  *)
(* a stop is answered only after STOPPED was published, a refused Start    *)
(* brings nothing up, only a command or an earlier run of the program      *)
(* starts it, and an answer belongs to the newest call.                    *)
(***************************************************************************)
ImplementsContract == Presented = C!Fresh /\ [][ContractStep]_Presented
=============================================================================
