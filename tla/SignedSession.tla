---------------------------- MODULE SignedSession ----------------------------
(***************************************************************************)
(* One signed-session scope and the calls that share it:                   *)
(* signed_session/coordinator.rs, exchange.rs and fetch.rs, with the       *)
(* record's predicates of protocol.rs.  Every action is one critical       *)
(* section of the scope's lock; between two of them a call waits for HTTP, *)
(* for another call's flight, or for nothing.                              *)
(*                                                                         *)
(* A session (id and secret) is a number, 0 is none; the gateway mints     *)
(* them in order.  The distance to expires_at is `age`.  A response is the *)
(* action's choice among what the gateway may answer.                      *)
(***************************************************************************)
EXTENDS Naturals, Sequences

CONSTANTS
    Clients,      \* threads that use a SignedSessionClient of the scope
    Extension,    \* client -> its extension's id
    Restored,     \* sets of pending requests that a journal may bring back
    Grants,       \* grants that a verification callback may bring
    None,
    MaxSessions,  \* bound on the sessions the gateway mints
    MaxClears,    \* bound on clear()
    MaxCalls,     \* bound on the calls
    MaxEvents     \* bound on the events from outside

ASSUME SessionAssumption ==
    /\ None \notin Clients \cup Grants
    /\ \A s \in Restored : s \subseteq {Extension[c] : c \in Clients}
    /\ MaxSessions \in Nat /\ MaxClears \in Nat /\ MaxCalls \in Nat
    /\ MaxEvents \in Nat

VARIABLES
    record,       \* the stored Record: [session, age], and the generation
                  \* and session that the request for it began with
    generation,   \* clear_generation
    completed,    \* completed_grant
    blocked,      \* blocked_generation, as the session it is the hash of
    challenge,    \* None, or [owner, live]
    pendingIds,   \* extensions that joined the challenge
    pending,      \* AuthRegistry: extensions with a pending request
    flight,       \* kind -> the call that performs it, or None
    grants,       \* extension -> grant not yet exchanged, or None
    closed,       \* shutdown
    call,         \* client -> what it is doing
    minted,       \* sessions the gateway has minted
    calls, events

scopeVars == <<record, generation, completed, blocked, challenge, pendingIds,
               pending, flight, grants, closed>>
vars == <<scopeVars, call, minted, calls, events>>

Kinds == {"bootstrap", "refresh", "exchange"}
Extensions == {Extension[c] : c \in Clients}
NoSession == [session |-> 0, age |-> "fresh", begun |-> 0, from |-> 0]

\* `base` is the record the call signs with, `own` and `begun` the record and
\* generation its flight began with, `back` where bootstrap returns to.
Idle == [at |-> "idle", back |-> "none", base |-> 0, own |-> 0, begun |-> 0,
         grant |-> None, sessions |-> 0, retried |-> FALSE,
         cancelled |-> FALSE]

Init ==
    /\ \/ record = NoSession /\ minted = 0
       \/ /\ minted = 1   \* a session stored by an earlier process
          /\ \E age \in {"fresh", "due"} :
                record = [NoSession EXCEPT !.session = 1, !.age = age]
    /\ generation = 0 /\ completed = None /\ blocked = 0
    /\ challenge = None /\ pendingIds = {}
    /\ pending \in Restored
    /\ flight = [k \in Kinds |-> None]
    /\ grants = [e \in Extensions |-> None]
    /\ closed = FALSE
    /\ call = [c \in Clients |-> Idle]
    /\ calls = 0 /\ events = 0

-----------------------------------------------------------------------------
Usable == record.session # 0 /\ record.age # "expired"
RefreshDue == record.session # 0 /\ record.age = "due"
Blocked == record.session # 0 /\ blocked = record.session

Stopped(c) == closed \/ call[c].cancelled

Move(c, changes) ==
    [f \in DOMAIN Idle |-> IF f \in DOMAIN changes THEN changes[f]
                           ELSE call[c][f]]

Set(c, changes) == call' = [call EXCEPT ![c] = Move(c, changes)]

\* State::clear_challenge.
ClearChallenge ==
    /\ pending' = pending \ pendingIds
    /\ pendingIds' = {}
    /\ challenge' = None

KeepChallenge == UNCHANGED <<challenge, pendingIds, pending>>

\* A session that a response brings.
Mint(c) ==
    /\ minted < MaxSessions
    /\ minted' = minted + 1
    /\ record' = [session |-> minted', age |-> "fresh",
                  begun |-> call[c].begun, from |-> call[c].own]

\* Where a call goes on when bootstrap has answered "error", "url" or "empty".
\* A URL goes to the caller, and so does an error, or the verification without
\* a URL that on_mint_failure makes of it.
Resumed(c, answer) ==
    IF answer = "empty" /\ call[c].back \in {"blocked", "gateway"}
    THEN Move(c, [at |-> call[c].back, own |-> 0, begun |-> 0]) ELSE Idle

\* Mutant: the flight is taken down without a result for those who wait.
FinishSilent(kind, c, mine, ok) ==
    /\ flight' = [flight EXCEPT ![kind] = None]
    /\ call' = [call EXCEPT ![c] = mine]

Waiting == [bootstrap |-> "bootstrap wait", refresh |-> "refresh wait",
            exchange |-> "exchange wait"]

\* A finished flight wakes the calls that wait for it: a success sends them
\* back to the head of their loop, a failure is theirs too.
Finish(kind, c, mine, ok) ==
    /\ flight' = [flight EXCEPT ![kind] = None]
    /\ call' = [d \in Clients |->
          IF d = c THEN mine
          ELSE IF call[d].at # Waiting[kind] THEN call[d]
          ELSE IF ok \/ kind = "exchange" THEN Move(d, [at |-> kind])
          ELSE IF kind = "refresh" THEN Move(d, [at |-> "refreshed"])
          ELSE Resumed(d, "error")]

-----------------------------------------------------------------------------
(* bootstrap.                                                              *)

\* The head of its loop, in the order of its tests.
Bootstrap(c) ==
    LET live == challenge # None /\ challenge.live
        dropped == challenge # None /\ ~challenge.live
        kept == IF dropped THEN pending \ pendingIds ELSE pending
        ids == IF dropped THEN {} ELSE pendingIds
        me == Extension[c]
    IN  /\ call[c].at = "bootstrap"
        /\ IF Stopped(c)
           THEN /\ call' = [call EXCEPT ![c] = Resumed(c, "error")]
                /\ KeepChallenge /\ UNCHANGED flight
           ELSE IF live \/ me \in kept
           THEN /\ call' = [call EXCEPT ![c] = Resumed(c, "url")]
                /\ challenge' = IF live THEN challenge
                                ELSE [owner |-> me, live |-> TRUE]
                /\ pendingIds' = ids \cup {me}
                /\ pending' = kept \cup {me}
                /\ UNCHANGED flight
           ELSE /\ challenge' = None
                /\ pendingIds' = ids
                /\ pending' = kept
                /\ IF Usable /\ ~Blocked
                   THEN /\ call' = [call EXCEPT ![c] = Resumed(c, "empty")]
                        /\ UNCHANGED flight
                   ELSE IF flight["bootstrap"] # None
                   THEN Set(c, [at |-> "bootstrap wait"]) /\ UNCHANGED flight
                   ELSE /\ flight' = [flight EXCEPT !["bootstrap"] = c]
                        /\ Set(c, [at |-> "bootstrap http",
                                   own |-> record.session,
                                   begun |-> generation])
        /\ UNCHANGED <<record, generation, completed, blocked, grants, closed,
                       minted, calls>>

\* Mutant: a failed request returns at once.
BootstrapReturns(c) ==
    /\ call[c].at = "bootstrap http"
    /\ call' = [call EXCEPT ![c] = Resumed(c, "error")]
    /\ UNCHANGED <<scopeVars, minted, calls>>

\* A failed request, a cancelled call, or one that a clear superseded.
BootstrapFails(c) ==
    /\ call[c].at = "bootstrap http"
    /\ Finish("bootstrap", c, Resumed(c, "error"), FALSE)
    /\ UNCHANGED <<record, generation, completed, blocked, challenge,
                   pendingIds, pending, grants, closed, minted, calls>>

\* Mutant: the record is not read again after HTTP.
OvertakenNever(c) == FALSE

\* Another session was stored meanwhile, and can be used.
Overtaken(c) == Usable /\ record.session # call[c].own

BootstrapAnswered(c) ==
    /\ call[c].at = "bootstrap http"
    /\ ~Stopped(c) /\ call[c].begun = generation
    /\ \/ /\ Overtaken(c) /\ ~Blocked
          /\ ClearChallenge
          /\ Finish("bootstrap", c, Resumed(c, "empty"), TRUE)
          /\ UNCHANGED <<record, blocked, minted>>
       \/ /\ ~(Overtaken(c) /\ ~Blocked)
          /\ Mint(c)
          /\ blocked' = 0
          /\ ClearChallenge
          /\ Finish("bootstrap", c, Resumed(c, "empty"), TRUE)
       \/ /\ ~(Overtaken(c) /\ ~Blocked)
          /\ challenge' = [owner |-> Extension[c], live |-> TRUE]
          /\ pendingIds' = pendingIds \cup {Extension[c]}
          /\ pending' = pending \cup {Extension[c]}
          /\ Finish("bootstrap", c, Resumed(c, "url"), TRUE)
          /\ UNCHANGED <<record, blocked, minted>>
    /\ UNCHANGED <<generation, completed, grants, closed, calls>>

-----------------------------------------------------------------------------
(* refresh, whose result signed_fetch ignores.                             *)

Refresh(c) ==
    /\ call[c].at = "refresh"
    /\ IF Stopped(c) \/ ~RefreshDue
       THEN Set(c, [at |-> "refreshed"]) /\ UNCHANGED flight
       ELSE IF flight["refresh"] # None
       THEN Set(c, [at |-> "refresh wait"]) /\ UNCHANGED flight
       ELSE /\ flight' = [flight EXCEPT !["refresh"] = c]
            /\ Set(c, [at |-> "refresh http", own |-> record.session,
                       begun |-> generation])
    /\ UNCHANGED <<record, generation, completed, blocked, challenge,
                   pendingIds, pending, grants, closed, minted, calls>>

AfterRefresh(c) == Move(c, [at |-> "refreshed", own |-> 0, begun |-> 0])

RefreshFails(c) ==
    /\ call[c].at = "refresh http"
    /\ Finish("refresh", c, AfterRefresh(c), FALSE)
    /\ UNCHANGED <<record, generation, completed, blocked, challenge,
                   pendingIds, pending, grants, closed, minted, calls>>

\* Only the session that was refreshed is changed: to a new one, or to a later
\* expiry, or not at all.
RefreshAnswered(c) ==
    /\ call[c].at = "refresh http"
    /\ ~Stopped(c) /\ call[c].begun = generation
    /\ \/ record.session = call[c].own /\ record.session # 0 /\ Mint(c)
       \/ /\ record' = IF record.session = call[c].own /\ record.session # 0
                       THEN [record EXCEPT !.age = "fresh"] ELSE record
          /\ UNCHANGED minted
       \/ UNCHANGED <<record, minted>>
    /\ Finish("refresh", c, AfterRefresh(c), TRUE)
    /\ UNCHANGED <<generation, completed, blocked, challenge, pendingIds,
                   pending, grants, closed, calls>>

-----------------------------------------------------------------------------
(* complete_grant and exchange.                                            *)

\* set_grant.
CompleteGrant(c, g) ==
    /\ call[c].at = "idle" /\ calls < MaxCalls /\ ~closed
    /\ calls' = calls + 1
    /\ grants' = [grants EXCEPT ![Extension[c]] = g]
    /\ call' = [call EXCEPT ![c] = [Idle EXCEPT !.at = "grant"]]
    /\ UNCHANGED <<record, generation, completed, blocked, challenge,
                   pendingIds, pending, flight, closed, minted>>

\* The grant is read back: a newer callback's, or none after a forget.
TakeGrant(c) ==
    LET found == grants[Extension[c]]
    IN  /\ call[c].at = "grant"
        /\ call' = [call EXCEPT ![c] =
                       IF found = None THEN Idle
                       ELSE Move(c, [at |-> "exchange start", grant |-> found])]
        /\ UNCHANGED <<scopeVars, minted, calls>>

\* exchange reads the generation it must find again.
ExchangeStart(c) ==
    /\ call[c].at = "exchange start"
    /\ Set(c, [at |-> "exchange", begun |-> generation])
    /\ UNCHANGED <<scopeVars, minted, calls>>

\* Exchanges of different grants take turns.
Exchange(c) ==
    /\ call[c].at = "exchange"
    /\ IF Stopped(c)
       THEN /\ call' = [call EXCEPT ![c] = Idle]
            /\ UNCHANGED flight
       ELSE IF flight["exchange"] # None
       THEN Set(c, [at |-> "exchange wait"]) /\ UNCHANGED flight
       ELSE /\ flight' = [flight EXCEPT !["exchange"] = c]
            /\ Set(c, [at |-> "exchange begin"])
    /\ UNCHANGED <<record, generation, completed, blocked, challenge,
                   pendingIds, pending, grants, closed, minted, calls>>

Superseded(c) == call[c].begun # generation

ExchangeBegin(c) ==
    /\ call[c].at = "exchange begin"
    /\ IF Superseded(c)
       THEN /\ Set(c, [at |-> "exchange end"])
            /\ KeepChallenge /\ UNCHANGED blocked
       ELSE IF completed = call[c].grant /\ Usable
       THEN /\ Set(c, [at |-> "exchange done"])
            /\ ClearChallenge /\ blocked' = 0
       ELSE /\ Set(c, [at |-> "exchange http", own |-> record.session])
            /\ KeepChallenge /\ UNCHANGED blocked
    /\ UNCHANGED <<record, generation, completed, flight, grants, closed, minted,
                   calls>>

ExchangeFails(c) ==
    /\ call[c].at = "exchange http"
    /\ Set(c, [at |-> "exchange end"])
    /\ UNCHANGED <<scopeVars, minted, calls>>

\* Mutant: a clear during HTTP goes unnoticed.
ExchangeRegardless(c) ==
    /\ call[c].at = "exchange http"
    /\ ~Stopped(c)
    /\ Mint(c) /\ completed' = call[c].grant
    /\ blocked' = 0
    /\ ClearChallenge
    /\ Set(c, [at |-> "exchange done"])
    /\ UNCHANGED <<generation, flight, grants, closed, calls>>

\* A usable session that came meanwhile is kept; the verification counts for
\* it all the same.
ExchangeAnswered(c) ==
    /\ call[c].at = "exchange http"
    /\ ~Stopped(c) /\ ~Superseded(c)
    /\ IF Usable /\ (completed = call[c].grant \/ Overtaken(c))
       THEN UNCHANGED <<record, completed, minted>>
       ELSE Mint(c) /\ completed' = call[c].grant
    /\ blocked' = 0
    /\ ClearChallenge
    /\ Set(c, [at |-> "exchange done"])
    /\ UNCHANGED <<generation, flight, grants, closed, calls>>

ExchangeEnd(c) ==
    /\ call[c].at \in {"exchange end", "exchange done"}
    /\ Finish("exchange", c,
              IF call[c].at = "exchange done" THEN Move(c, [at |-> "granted"])
              ELSE Idle,
              TRUE)
    /\ UNCHANGED <<record, generation, completed, blocked, challenge,
                   pendingIds, pending, grants, closed, minted, calls>>

\* The end of complete_grant: only this call's grant is discarded.
Granted(c) ==
    LET me == Extension[c]
    IN  /\ call[c].at = "granted"
        /\ grants' = IF grants[me] = call[c].grant
                     THEN [grants EXCEPT ![me] = None] ELSE grants
        /\ pending' = pending \ {me}
        /\ call' = [call EXCEPT ![c] = Idle]
        /\ UNCHANGED <<record, generation, completed, blocked, challenge,
                       pendingIds, flight, closed, minted, calls>>

-----------------------------------------------------------------------------
(* signed_fetch and preflight.                                             *)

\* Sign with the stored record, after a refresh if one is due.
Signing(c) ==
    Move(c, [at |-> IF RefreshDue THEN "refresh" ELSE "send",
             base |-> record.session])

SignedFetch(c) ==
    /\ call[c].at = "idle" /\ calls < MaxCalls /\ ~closed
    /\ calls' = calls + 1
    /\ LET missing == record.session = 0 \/ record.age = "expired"
       IN  /\ record' = IF missing THEN NoSession ELSE record
           /\ call' = [call EXCEPT ![c] =
                 IF missing
                 THEN [Idle EXCEPT !.at = "bootstrap", !.back = "missing"]
                 ELSE IF Blocked
                 THEN [Idle EXCEPT !.at = "bootstrap", !.back = "blocked"]
                 ELSE [Idle EXCEPT !.at = IF RefreshDue THEN "refresh"
                                          ELSE "send",
                                   !.base = record.session]]
    /\ UNCHANGED <<generation, completed, blocked, challenge, pendingIds,
                   pending, flight, grants, closed, minted>>

Preflight(c) ==
    /\ call[c].at = "idle" /\ calls < MaxCalls /\ ~closed
    /\ ~Usable \/ Blocked
    /\ calls' = calls + 1
    /\ call' = [call EXCEPT ![c] = [Idle EXCEPT !.at = "bootstrap",
                                                !.back = "preflight"]]
    /\ UNCHANGED <<scopeVars, minted>>

\* Back from the bootstrap that a blocked session needed.
Unblocked(c) ==
    /\ call[c].at = "blocked"
    /\ call' = [call EXCEPT ![c] =
          IF Usable /\ ~Blocked THEN Signing(c)
          ELSE Idle]
    /\ UNCHANGED <<scopeVars, minted, calls>>

Refreshed(c) ==
    /\ call[c].at = "refreshed"
    /\ call' = [call EXCEPT ![c] =
          IF Stopped(c) THEN Idle
          ELSE IF Usable /\ ~Blocked
          THEN Move(c, [at |-> "send", base |-> record.session])
          ELSE [Idle EXCEPT !.at = "bootstrap", !.back = "stale"]]
    /\ UNCHANGED <<scopeVars, minted, calls>>

\* An answer the extension gets as it is, after up to two provider_retries
\* with the same record, or no answer at all.
Answered(c) ==
    /\ call[c].at = "send"
    /\ call' = [call EXCEPT ![c] = Idle]
    /\ UNCHANGED <<scopeVars, minted, calls>>

Changed(c) == Usable /\ record.session # call[c].base

\* request_auth_invalid: once more with the session that replaced this one.
AuthInvalid(c) ==
    /\ call[c].at = "send" /\ ~call[c].retried /\ Changed(c)
    /\ Set(c, [retried |-> TRUE, base |-> record.session])
    /\ UNCHANGED <<scopeVars, minted, calls>>

\* The gateway wants another session, or a verification of this one.  When the
\* dropped session cannot be saved, the call fails and only its block is gone.
GatewayAction(c) ==
    LET mine == record.session = call[c].base
        Ask == Set(c, [at |-> "bootstrap", back |-> "gateway"])
        End == call' = [call EXCEPT ![c] = Idle]
    IN  /\ call[c].at = "send"
        /\ \/ /\ Changed(c)
              /\ IF call[c].sessions >= 1 THEN End
                 ELSE Set(c, [sessions |-> 1, base |-> record.session])
              /\ UNCHANGED <<record, blocked>>
           \/ ~Changed(c) /\ mine /\ record' = NoSession /\ blocked' = 0 /\ Ask
           \/ ~Changed(c) /\ mine /\ blocked' = 0 /\ UNCHANGED record /\ End
           \/ ~Changed(c) /\ mine /\ blocked' = record.session
              /\ UNCHANGED record /\ Ask
           \/ ~Changed(c) /\ ~mine /\ UNCHANGED <<record, blocked>> /\ Ask
        /\ UNCHANGED <<generation, completed, challenge, pendingIds, pending,
                       flight, grants, closed, minted, calls>>

\* Back from the bootstrap that the gateway asked for.
GatewayRetry(c) ==
    /\ call[c].at = "gateway"
    /\ call' = [call EXCEPT ![c] =
          IF Changed(c) /\ call[c].sessions < 1
          THEN Move(c, [at |-> "send", sessions |-> 1, base |-> record.session])
          ELSE Idle]
    /\ UNCHANGED <<scopeVars, minted, calls>>

\* A waiting call notices its own cancellation, or the shutdown.
WaitStopped(c) ==
    /\ Stopped(c)
    /\ \/ /\ call[c].at = "bootstrap wait"
          /\ call' = [call EXCEPT ![c] = Resumed(c, "error")]
       \/ /\ call[c].at = "refresh wait"
          /\ Set(c, [at |-> "refreshed"])
       \/ /\ call[c].at = "exchange wait"
          /\ call' = [call EXCEPT ![c] = Idle]
    /\ UNCHANGED <<scopeVars, minted, calls>>

-----------------------------------------------------------------------------
(* What comes from outside.                                                *)

\* clear(), which the user asks for.
Clear ==
    /\ generation < MaxClears /\ ~closed
    /\ record' = NoSession
    /\ generation' = generation + 1
    /\ completed' = None
    /\ blocked' = 0
    /\ \E e \in Extensions : pending' = pending \ (pendingIds \cup {e})
    /\ pendingIds' = {}
    /\ challenge' = None
    /\ UNCHANGED <<flight, grants, closed, call, minted, calls>>

\* forget_extension.
Forget(e) ==
    /\ grants[e] # None \/ e \in pendingIds
    /\ grants' = [grants EXCEPT ![e] = None]
    /\ pendingIds' = pendingIds \ {e}
    /\ challenge' = IF challenge # None /\ challenge.owner = e THEN None
                    ELSE challenge
    /\ UNCHANGED <<record, generation, completed, blocked, pending, flight,
                   closed, call, minted, calls>>

Shutdown ==
    /\ ~closed
    /\ closed' = TRUE
    /\ grants' = [e \in Extensions |-> None]
    /\ ClearChallenge
    /\ UNCHANGED <<record, generation, completed, blocked, flight, call, minted,
                   calls>>

\* The item is cancelled, or complete_grant's 30 seconds are over.
Cancel(c) ==
    /\ call[c].at # "idle" /\ ~call[c].cancelled
    /\ Set(c, [cancelled |-> TRUE])
    /\ UNCHANGED <<scopeVars, minted, calls>>

Time ==
    \/ /\ record.session # 0 /\ record.age # "expired"
       /\ record' = [record EXCEPT !.age = IF @ = "fresh" THEN "due"
                                           ELSE "expired"]
       /\ UNCHANGED challenge
    \/ /\ challenge # None /\ challenge.live
       /\ challenge' = [challenge EXCEPT !.live = FALSE]
       /\ UNCHANGED record

Passing ==
    /\ Time
    /\ UNCHANGED <<generation, completed, blocked, pendingIds, pending, flight,
                   grants, closed, call, minted, calls>>

Step(c) ==
    \/ Bootstrap(c) \/ BootstrapFails(c) \/ BootstrapAnswered(c)
    \/ Refresh(c) \/ RefreshFails(c) \/ RefreshAnswered(c)
    \/ TakeGrant(c) \/ ExchangeStart(c)
    \/ Exchange(c) \/ ExchangeBegin(c) \/ ExchangeFails(c)
    \/ ExchangeAnswered(c) \/ ExchangeEnd(c) \/ Granted(c)
    \/ Unblocked(c) \/ Refreshed(c) \/ Answered(c) \/ AuthInvalid(c)
    \/ GatewayAction(c) \/ GatewayRetry(c) \/ WaitStopped(c)

Inside ==
    \E c \in Clients :
        \/ SignedFetch(c) \/ Preflight(c)
        \/ \E g \in Grants : CompleteGrant(c, g)
        \/ Step(c)

Outside ==
    \/ \E c \in Clients : Cancel(c)
    \/ Shutdown \/ Passing
    \/ \E e \in Extensions : Forget(e)

Next ==
    \/ (Inside \/ Clear) /\ UNCHANGED events
    \/ Outside /\ events < MaxEvents /\ events' = events + 1

\* Requests time out and waits poll, so a call that can move does.
Fairness == \A c \in Clients : WF_vars(Step(c) /\ UNCHANGED events)

Spec == Init /\ [][Next]_vars /\ Fairness

-----------------------------------------------------------------------------
TypeOK ==
    /\ record.session \in 0..minted
    /\ record.age \in {"fresh", "due", "expired"}
    /\ generation \in 0..MaxClears
    /\ completed \in Grants \cup {None}
    /\ blocked \in 0..minted
    /\ pendingIds \subseteq Extensions /\ pending \subseteq Extensions
    /\ challenge # None => challenge.owner \in pendingIds
    /\ flight \in [Kinds -> Clients \cup {None}]
    /\ grants \in [Extensions -> Grants \cup {None}]
    /\ \A c \in Clients : DOMAIN call[c] = DOMAIN Idle

\* clear() is final: no session that a call asked for before it is ever stored
\* after it, however late the gateway answers (exchange.rs:112, 375 and 426).
ClearedStaysCleared ==
    record.session # 0 => record.begun = generation

\* A usable session is replaced only by the answer to a request that was made
\* with it, so an answer that comes late never undoes a newer session; the one
\* exception is a session that the gateway wants verified.
NewerSessionKept ==
    [][ Usable /\ ~Blocked /\ record'.session \notin {0, record.session}
            => record'.from = record.session ]_vars

\* A flight is marked exactly while one call performs it: two calls never ask
\* for the same thing at once, and no failure leaves a flight behind that
\* everybody would wait for.
Performing == [bootstrap |-> {"bootstrap http"}, refresh |-> {"refresh http"},
               exchange |-> {"exchange begin", "exchange http",
                             "exchange end", "exchange done"}]

FlightsOwned ==
    \A k \in Kinds, c \in Clients :
        call[c].at \in Performing[k] <=> flight[k] = c

\* The state is well typed and each flight in progress belongs to the one call
\* that performs it.
SessionInv == TypeOK /\ FlightsOwned

\* Every call ends, whatever the gateway answers and whoever else is cancelled.
CallsEnd == \A c \in Clients : call[c].at # "idle" ~> call[c].at = "idle"
=============================================================================
