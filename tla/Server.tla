------------------------------- MODULE Server -------------------------------
(***************************************************************************)
(* What the daemon serves, side by side: the requests, the sessions and    *)
(* the activity of its HTTP clients, and the events of a listener pool,    *)
(* whose definitions are the unprefixed ones.  The components share no     *)
(* variable; every step is a step of one of them.                          *)
(***************************************************************************)
EXTENDS EventListener

CONSTANTS
    Programs, Group, Requests, ChannelSize, MaxMoves, MaxRemovals,  \* ApiActions
    Clients,                                \* HTTP clients
    Sockets, Settings, SessionIds, Ttl,     \* ApiAuth; Sockets are its listeners
    Samplers, IdleTimeout                   \* Activity

\* SESSION_TTL is positive; an idle_timeout_secs of 0 disables the tracker.
ASSUME ServerAssumption ==
    Ttl \in Nat \ {0} /\ IdleTimeout \in Nat \ {0} /\ IsFiniteSet(Clients)

VARIABLES
    registered, state, channel, serving, tasks, req, script, asked, listening, rx,
    lagged, answer, blind, done, moves, removals,
    setting, sessions, request, issued, ended, unused,
    idle, observers, step, wasInactive, streaming, sampler, surplus

Actions == INSTANCE ApiActions WITH call <- asked
Auth    == INSTANCE ApiAuth WITH Listeners <- Sockets
Tracker == INSTANCE Activity

\* A broadcast channel has room; every request is one that has a handler; Nobody
\* stands for the caller that is gone.
ASSUME RequestAssumption ==
    /\ HubCapacity \in Nat \ {0} /\ Actions!Nobody \notin Clients
    /\ \A c \in Clients : \A r \in Requests[c] : Actions!Handled(r)

actionVars   == <<registered, state, channel, serving, tasks, req, script, asked,
                  listening, rx, lagged, answer, blind, done, moves, removals>>
authVars     == <<setting, sessions, request, issued, ended, unused>>
activityVars == <<idle, observers, step, wasInactive, streaming, sampler, surplus>>
serverVars   == <<actionVars, authVars, activityVars, vars>>

ActionsStep == Actions!Next /\ UNCHANGED <<authVars, activityVars, vars>>
AuthStep    == Auth!Next /\ UNCHANGED <<actionVars, activityVars, vars>>
TrackerStep == Tracker!Next /\ UNCHANGED <<actionVars, authVars, vars>>
PoolStep    == Next /\ UNCHANGED <<actionVars, authVars, activityVars>>

ServerInit == Actions!Init /\ Auth!Init /\ Tracker!Init /\ Init
ServerNext == ActionsStep \/ AuthStep \/ TrackerStep \/ PoolStep
ServerSpec == ServerInit /\ [][ServerNext]_serverVars

-----------------------------------------------------------------------------
(* Properties of the parts, stated there in full.                          *)

\* The synchronous start_program cannot miss the event it waits for.
WakeupPending == Actions!WakeupPending

\* The handlers of REST and XML-RPC answer what became of the request.
AnswersTrue == Actions!AnswersTrue

\* A session of SessionStore opens exactly what it should, as long as it should.
SessionsSound == Auth!SessionsSound

\* ActivityTracker lets the sampling of metrics pause when nobody looks.
DormantWhenIdle == Tracker!DormantWhenIdle
=============================================================================
