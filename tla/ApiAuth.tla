------------------------------- MODULE ApiAuth -------------------------------
(***************************************************************************)
(* Authentication of the HTTP interfaces: the middleware in front of the   *)
(* two listeners, the login surface, and the session store they share.  A  *)
(* session is renewed whenever it is presented and removed when a later    *)
(* look at the store finds it expired; time passes in ticks.               *)
(***************************************************************************)
EXTENDS Integers, FiniteSets

CONSTANTS
    Listeners,      \* the local socket and the TCP listener
    Settings,       \* possible [basic: listener -> BOOLEAN, token: BOOLEAN]
    SessionIds,
    Ttl             \* SESSION_TTL in ticks

VARIABLES
    setting,        \* what the configuration file asks for
    sessions,       \* sessions[id]: ticks left, or 0: not in the store
    request,        \* the last request: [listener, tier, basic, token, session, passed]
    issued,         \* history: ids handed out by a login
    ended,          \* history: ids that were logged out
    unused          \* history: ticks since id was issued or presented, at most Ttl
vars == <<setting, sessions, request, issued, ended, unused>>

NoSession == "none"
Tiers     == {"static", "auth", "protected"}
NoRequest == [listener |-> "none", tier |-> "static", basic |-> FALSE, token |-> FALSE,
              session |-> NoSession, passed |-> FALSE]

\* is_auth_configured: a token guards both listeners, a user name and a password only one.
IsAuthConfigured(l) == setting.basic[l] \/ setting.token

\* validate_session: what is left in the store, and whether the id is valid.
\* (An entry with no time left was pruned by then.)
ValidSession(id) == id # NoSession /\ sessions[id] > 0

\* The store after an id was presented: a valid one is renewed.
Pruned(s, id) == [i \in SessionIds |-> IF i = id /\ s[i] > 0 THEN Ttl ELSE s[i]]

Validate(id) ==
    /\ sessions' = IF id = NoSession THEN sessions ELSE Pruned(sessions, id)
    /\ unused' = [i \in SessionIds |-> IF i = id /\ ValidSession(id) THEN 0 ELSE unused[i]]

\* authorize: nothing is configured, or one of the credentials is right.
Authorize(l, basic, token, id) ==
    \/ ~IsAuthConfigured(l)
    \/ ValidSession(id)
    \/ setting.token /\ token
    \/ setting.basic[l] /\ basic

\* is_protected_path, is_public_auth_path: which requests are let through unseen.
IsGuarded(tier) == tier = "protected"

-----------------------------------------------------------------------------
\* http_auth_middleware in front of a handler.  The session is validated, and
\* renewed, whenever something is configured.
Middleware(l, tier, basic, token, id) ==
    /\ request' = [listener |-> l, tier |-> tier, basic |-> basic, token |-> token, session |-> id,
                   passed |-> ~IsGuarded(tier) \/ Authorize(l, basic, token, id)]
    /\ IF IsGuarded(tier) /\ IsAuthConfigured(l) THEN Validate(id)
       ELSE UNCHANGED <<sessions, unused>>
    /\ UNCHANGED <<setting, issued, ended>>

\* GET auth/config: tells whether the cookie is valid, and so renews it.
AuthConfig(l, id) ==
    /\ request' = [NoRequest EXCEPT !.listener = l, !.tier = "auth", !.session = id]
    /\ Validate(id)
    /\ UNCHANGED <<setting, issued, ended>>

\* POST auth/login: the credentials of the body, never the cookie.
AuthLogin(l, basic, token) ==
    IF Authorize(l, basic, token, NoSession)
    THEN \E id \in SessionIds \ issued :
            /\ sessions' = [sessions EXCEPT ![id] = Ttl]
            /\ issued' = issued \cup {id}
            /\ unused' = [unused EXCEPT ![id] = 0]
            /\ request' = [listener |-> l, tier |-> "auth", basic |-> basic, token |-> token,
                           session |-> id, passed |-> TRUE]
            /\ UNCHANGED <<setting, ended>>
    ELSE /\ request' = [listener |-> l, tier |-> "auth", basic |-> basic, token |-> token,
                        session |-> NoSession, passed |-> FALSE]
         /\ UNCHANGED <<setting, sessions, issued, ended, unused>>

\* Fault: only the cookie is cleared.
LogoutKeepsSession(l, id) ==
    /\ ended' = ended \cup ({id} \ {NoSession})
    /\ request' = [NoRequest EXCEPT !.listener = l, !.tier = "auth", !.session = id]
    /\ UNCHANGED <<setting, sessions, issued, unused>>

\* POST auth/logout.
AuthLogout(l, id) ==
    /\ sessions' = IF id = NoSession THEN sessions ELSE [sessions EXCEPT ![id] = 0]
    /\ ended' = ended \cup ({id} \ {NoSession})
    /\ request' = [NoRequest EXCEPT !.listener = l, !.tier = "auth", !.session = id]
    /\ UNCHANGED <<setting, issued, unused>>

Tick ==
    /\ sessions' = [id \in SessionIds |-> IF sessions[id] > 0 THEN sessions[id] - 1 ELSE 0]
    /\ unused' = [id \in SessionIds |-> IF unused[id] < Ttl THEN unused[id] + 1 ELSE Ttl]
    /\ request' = NoRequest
    /\ UNCHANGED <<setting, issued, ended>>

\* Cookies hold ids that were handed out, or nothing.
Cookies == issued \cup {NoSession}

Init ==
    /\ setting \in Settings
    /\ sessions = [id \in SessionIds |-> 0]
    /\ request = NoRequest
    /\ issued = {} /\ ended = {}
    /\ unused = [id \in SessionIds |-> Ttl]

Next ==
    \/ \E l \in Listeners, basic, token \in BOOLEAN :
          \/ AuthLogin(l, basic, token)
          \/ \E tier \in Tiers, id \in Cookies : Middleware(l, tier, basic, token, id)
    \/ \E l \in Listeners, id \in Cookies : AuthConfig(l, id) \/ AuthLogout(l, id)
    \/ Tick

Spec == Init /\ [][Next]_vars

-----------------------------------------------------------------------------
(* Properties.                                                             *)

HasCredentials(r) == (setting.token /\ r.token) \/ (setting.basic[r.listener] /\ r.basic)

\* A guarded handler is reached only on a listener where nothing is configured,
\* with credentials that are valid on that listener, or with a session that a
\* login handed out, that was not logged out, and that was presented to either
\* listener within the session's lifetime before this request.
GuardedRequests ==
    [][(request'.passed /\ IsGuarded(request'.tier)) =>
          \/ ~IsAuthConfigured(request'.listener)
          \/ HasCredentials(request')
          \/ /\ request'.session \in issued \ ended
             /\ unused[request'.session] < Ttl]_vars

\* A client that keeps presenting its session in time stays logged in.
SessionKept == \A id \in issued \ ended : unused[id] < Ttl => sessions[id] > 0

\* A session opens exactly what it should, exactly as long as it should
\* (http_auth_middleware, auth_logout and the pruning in validate_session).
SessionsSound == []SessionKept /\ GuardedRequests
=============================================================================
