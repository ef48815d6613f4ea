------------------------- MODULE SignedSessionProofs -------------------------
(***************************************************************************)
(* Proofs about the calls that share a signed session, for any number of   *)
(* clients, extensions, sessions, clears and events.                       *)
(*                                                                         *)
(* The inductive invariant has one part per thing the scope's lock guards: *)
(* the stored session (StoreInv), the challenge and who joined it          *)
(* (ChallengeInv), the grants, and the flights with the calls that perform *)
(* them (FlightInv).  The typing of a call is part of it because a call    *)
(* carries what it read before HTTP into the section after it: the grant   *)
(* that becomes completed_grant, the generation and the session that the   *)
(* stored record remembers.                                                *)
(***************************************************************************)
EXTENDS SignedSession, TLAPS

Places ==
    {"idle", "send", "blocked", "gateway", "refreshed", "granted",
     "bootstrap", "bootstrap wait", "bootstrap http",
     "refresh", "refresh wait", "refresh http", "grant", "exchange start",
     "exchange", "exchange wait", "exchange begin", "exchange http",
     "exchange end", "exchange done"}

CallType ==
    [at : Places,
     back : {"none", "missing", "blocked", "preflight", "stale", "gateway"},
     base : Nat, own : Nat, begun : Nat, grant : Grants \cup {None},
     sessions : Nat, retried : BOOLEAN, cancelled : BOOLEAN]

StoreInv ==
    /\ minted \in Nat /\ generation \in 0..MaxClears
    /\ record \in [session : 0..minted, age : {"fresh", "due", "expired"},
                   begun : Nat, from : Nat]
    /\ completed \in Grants \cup {None}
    /\ blocked \in 0..minted
    /\ ClearedStaysCleared

ChallengeInv ==
    /\ pendingIds \subseteq Extensions /\ pending \subseteq Extensions
    /\ challenge # None => /\ challenge \in [owner : Extensions, live : BOOLEAN]
                           /\ challenge.owner \in pendingIds

GrantsTyped == grants \in [Extensions -> Grants \cup {None}]

FlightInv ==
    /\ flight \in [Kinds -> Clients \cup {None}]
    /\ call \in [Clients -> CallType]
    /\ FlightsOwned

IInv == StoreInv /\ ChallengeInv /\ GrantsTyped /\ FlightInv

\* The places where a call performs some flight.
Flying == {"bootstrap http", "refresh http", "exchange begin", "exchange http",
           "exchange end", "exchange done"}

-----------------------------------------------------------------------------
(* The invariant gives the types that the run checks. *)
LEMMA Typed == IInv => TypeOK
<1> SUFFICES ASSUME IInv PROVE TypeOK
  OBVIOUS
<1>1. \A c \in Clients : DOMAIN call[c] = DOMAIN Idle
  BY DEF IInv, FlightInv, CallType, Idle
<1>2. record.session \in 0..minted /\ record.age \in {"fresh", "due", "expired"}
  BY DEF IInv, StoreInv
<1> QED
  BY <1>1, <1>2 DEF TypeOK, IInv, StoreInv, ChallengeInv, GrantsTyped, FlightInv

(* A call at rest is a call. *)
LEMMA IdleTyped == Idle \in CallType /\ Idle.at = "idle"
  BY DEF Idle, CallType, Places

(* What Move leaves of a call: the fields that change and the ones that    *)
(* stay.                                                                   *)
LEMMA MoveAt ==
    ASSUME NEW c \in Clients, call[c] \in CallType, NEW p \in Places
    PROVE  /\ Move(c, [at |-> p]) \in CallType
           /\ Move(c, [at |-> p]).at = p
  BY DEF Move, Idle, CallType

LEMMA MoveAtBase ==
    ASSUME NEW c \in Clients, call[c] \in CallType, NEW p \in Places, NEW n \in Nat
    PROVE  /\ Move(c, [at |-> p, base |-> n]) \in CallType
           /\ Move(c, [at |-> p, base |-> n]).at = p
  BY DEF Move, Idle, CallType

LEMMA MoveAtOwn ==
    ASSUME NEW c \in Clients, call[c] \in CallType, NEW p \in Places, NEW n \in Nat
    PROVE  /\ Move(c, [at |-> p, own |-> n]) \in CallType
           /\ Move(c, [at |-> p, own |-> n]).at = p
  BY DEF Move, Idle, CallType

LEMMA MoveGrant ==
    ASSUME NEW c \in Clients, call[c] \in CallType, NEW p \in Places,
           NEW g \in Grants
    PROVE  /\ Move(c, [at |-> p, grant |-> g]) \in CallType
           /\ Move(c, [at |-> p, grant |-> g]).at = p
  BY DEF Move, Idle, CallType

LEMMA MoveBegun ==
    ASSUME NEW c \in Clients, call[c] \in CallType, NEW p \in Places, NEW n \in Nat
    PROVE  /\ Move(c, [at |-> p, begun |-> n]) \in CallType
           /\ Move(c, [at |-> p, begun |-> n]).at = p
  BY DEF Move, Idle, CallType

LEMMA MoveFlight ==
    ASSUME NEW c \in Clients, call[c] \in CallType, NEW p \in Places,
           NEW n \in Nat, NEW g \in Nat
    PROVE  /\ Move(c, [at |-> p, own |-> n, begun |-> g]) \in CallType
           /\ Move(c, [at |-> p, own |-> n, begun |-> g]).at = p
  BY DEF Move, Idle, CallType

LEMMA MoveGateway ==
    ASSUME NEW c \in Clients, call[c] \in CallType
    PROVE  /\ Move(c, [at |-> "bootstrap", back |-> "gateway"]) \in CallType
           /\ Move(c, [at |-> "bootstrap", back |-> "gateway"]).at = "bootstrap"
  BY DEF Move, Idle, CallType, Places

LEMMA MoveRetried ==
    ASSUME NEW c \in Clients, call[c] \in CallType, NEW n \in Nat
    PROVE  /\ Move(c, [retried |-> TRUE, base |-> n]) \in CallType
           /\ Move(c, [retried |-> TRUE, base |-> n]).at = call[c].at
  BY DEF Move, Idle, CallType

LEMMA MoveSessions ==
    ASSUME NEW c \in Clients, call[c] \in CallType, NEW n \in Nat
    PROVE  /\ Move(c, [sessions |-> 1, base |-> n]) \in CallType
           /\ Move(c, [sessions |-> 1, base |-> n]).at = call[c].at
  BY DEF Move, Idle, CallType

LEMMA MoveRetry ==
    ASSUME NEW c \in Clients, call[c] \in CallType, NEW n \in Nat
    PROVE  /\ Move(c, [at |-> "send", sessions |-> 1, base |-> n]) \in CallType
           /\ Move(c, [at |-> "send", sessions |-> 1, base |-> n]).at = "send"
  BY DEF Move, Idle, CallType, Places

LEMMA MoveCancelled ==
    ASSUME NEW c \in Clients, call[c] \in CallType
    PROVE  /\ Move(c, [cancelled |-> TRUE]) \in CallType
           /\ Move(c, [cancelled |-> TRUE]).at = call[c].at
  BY DEF Move, Idle, CallType

(* Where bootstrap returns to performs no flight. *)
LEMMA ResumedTyped ==
    ASSUME NEW c \in Clients, call[c] \in CallType, NEW answer
    PROVE  Resumed(c, answer) \in CallType /\ Resumed(c, answer).at \notin Flying
<1>1. CASE answer = "empty" /\ call[c].back \in {"blocked", "gateway"}
  <2>1. call[c].back \in Places
    BY <1>1 DEF Places
  <2>2. Resumed(c, answer) = Move(c, [at |-> call[c].back, own |-> 0, begun |-> 0])
    BY <1>1 DEF Resumed
  <2>3. 0 \in Nat /\ call[c].back \notin Flying
    BY <1>1 DEF Flying
  <2> QED
    BY <2>1, <2>2, <2>3, MoveFlight
<1>2. CASE ~(answer = "empty" /\ call[c].back \in {"blocked", "gateway"})
  BY <1>2, IdleTyped DEF Resumed, Flying
<1> QED
  BY <1>1, <1>2

-----------------------------------------------------------------------------
(* Flights: a call that moves outside them, one that starts one, and one   *)
(* that ends its own.                                                      *)
LEMMA PerformingIs ==
    /\ Performing["bootstrap"] = {"bootstrap http"}
    /\ Performing["refresh"] = {"refresh http"}
    /\ Performing["exchange"] = {"exchange begin", "exchange http",
                                 "exchange end", "exchange done"}
    /\ \A p : \A k \in Kinds : p \notin Flying => p \notin Performing[k]
    /\ \A p : \A k, j \in Kinds : p \in Performing[k] /\ p \in Performing[j] => k = j
<1>1. /\ Performing["bootstrap"] = {"bootstrap http"}
      /\ Performing["refresh"] = {"refresh http"}
      /\ Performing["exchange"] = {"exchange begin", "exchange http",
                                   "exchange end", "exchange done"}
  BY DEF Performing
<1> QED
  BY <1>1 DEF Kinds, Flying

LEMMA FlightKept ==
    ASSUME FlightInv, NEW c \in Clients, NEW mine \in CallType,
           call' = [call EXCEPT ![c] = mine], UNCHANGED flight,
           \/ mine.at = call[c].at
           \/ mine.at \notin Flying /\ call[c].at \notin Flying
           \/ \A p \in {mine.at, call[c].at} : p \in Performing["exchange"]
    PROVE  FlightInv'
<1>1. call' \in [Clients -> CallType]
  BY DEF FlightInv
<1>2. \A k \in Kinds : mine.at \in Performing[k] <=> call[c].at \in Performing[k]
  BY PerformingIs DEF Kinds
<1>3. \A d \in Clients : call'[d] = IF d = c THEN mine ELSE call[d]
  BY DEF FlightInv
<1>4. FlightsOwned'
  BY <1>2, <1>3 DEF FlightInv, FlightsOwned
<1> QED
  BY <1>1, <1>4 DEF FlightInv

LEMMA FlightKeptAt ==
    ASSUME FlightInv, NEW c \in Clients, NEW p \in Places,
           Set(c, [at |-> p]), UNCHANGED flight,
           \/ p \notin Flying /\ call[c].at \notin Flying
           \/ p \in Performing["exchange"] /\ call[c].at \in Performing["exchange"]
    PROVE  FlightInv'
<1> DEFINE mine == Move(c, [at |-> p])
<1>1. mine \in CallType /\ mine.at = p
  BY MoveAt DEF FlightInv
<1>2. call' = [call EXCEPT ![c] = mine]
  BY DEF Set
<1> HIDE DEF mine
<1> QED
  BY <1>1, <1>2, FlightKept

LEMMA FlightStarts ==
    ASSUME FlightInv, NEW c \in Clients, NEW mine \in CallType, NEW k \in Kinds,
           call' = [call EXCEPT ![c] = mine],
           flight' = [flight EXCEPT ![k] = c], flight[k] = None,
           call[c].at \notin Flying,
           mine.at \in Performing[k]
    PROVE  FlightInv'
<1>1. call' \in [Clients -> CallType] /\ flight' \in [Kinds -> Clients \cup {None}]
  BY DEF FlightInv
<1>2. \A d \in Clients : call'[d] = IF d = c THEN mine ELSE call[d]
  BY DEF FlightInv
<1>3. \A j \in Kinds : flight'[j] = IF j = k THEN c ELSE flight[j]
  BY DEF FlightInv
<1>4. \A j \in Kinds : call[c].at \notin Performing[j]
  BY PerformingIs
<1>5. \A j \in Kinds : mine.at \in Performing[j] => j = k
  BY PerformingIs
<1>6. \A d \in Clients : d # None
  BY SessionAssumption
<1>7. FlightsOwned'
  BY <1>2, <1>3, <1>4, <1>5, <1>6 DEF FlightInv, FlightsOwned
<1> QED
  BY <1>1, <1>7 DEF FlightInv

LEMMA FlightEnds ==
    ASSUME FlightInv, NEW c \in Clients, NEW mine \in CallType, NEW k \in Kinds,
           NEW ok, Finish(k, c, mine, ok),
           call[c].at \in Performing[k], mine.at \notin Flying
    PROVE  FlightInv'
<1>1. flight' = [flight EXCEPT ![k] = None]
  BY DEF Finish
<1>2. \A j \in Kinds : flight'[j] = IF j = k THEN None ELSE flight[j]
  BY <1>1 DEF FlightInv
<1>3. ASSUME NEW d \in Clients
      PROVE  /\ call'[d] \in CallType
             /\ \/ call'[d] = call[d] /\ d # c
                \/ call'[d].at \notin Flying /\ (d = c \/ call[d].at \notin Flying)
  <2>1. call[d] \in CallType
    BY DEF FlightInv
  <2>2. CASE d = c
    BY <2>2 DEF Finish
  <2>3. CASE d # c /\ call[d].at # Waiting[k]
    BY <2>1, <2>3 DEF Finish
  <2>4. CASE d # c /\ call[d].at = Waiting[k]
    <3>0. /\ Waiting["bootstrap"] = "bootstrap wait"
          /\ Waiting["refresh"] = "refresh wait"
          /\ Waiting["exchange"] = "exchange wait"
      BY DEF Waiting
    <3>1. call[d].at \notin Flying
      BY <2>4, <3>0 DEF Kinds, Flying
    <3>2. k \in Places \ Flying /\ "refreshed" \in Places \ Flying
      BY DEF Kinds, Places, Flying
    <3>3. \/ call'[d] = Move(d, [at |-> k])
          \/ call'[d] = Move(d, [at |-> "refreshed"])
          \/ call'[d] = Resumed(d, "error")
      BY <2>4 DEF Finish
    <3> QED
      BY <2>1, <2>4, <3>1, <3>2, <3>3, MoveAt, ResumedTyped
  <2> QED
    BY <2>2, <2>3, <2>4
<1>4. call' \in [Clients -> CallType]
  <2>1. call' = [d \in Clients |-> call'[d]]
    BY DEF Finish
  <2> QED
    BY <1>3, <2>1
<1>5. \A j \in Kinds, p \in Places : p \notin Flying => p \notin Performing[j]
  BY PerformingIs
<1>6. \A j \in Kinds : call[c].at \in Performing[j] => j = k
  BY PerformingIs
<1>7. \A d \in Clients : d # None /\ call[d].at \in Places /\ call'[d].at \in Places
  BY <1>3, SessionAssumption DEF FlightInv, CallType
<1>8. FlightsOwned'
  BY <1>2, <1>3, <1>5, <1>6, <1>7 DEF FlightInv, FlightsOwned
<1>9. flight' \in [Kinds -> Clients \cup {None}]
  BY <1>1 DEF FlightInv
<1> QED
  BY <1>4, <1>8, <1>9 DEF FlightInv

-----------------------------------------------------------------------------
(* What leaves a part of the state alone keeps that part. *)
LEMMA Frames ==
    /\ StoreInv /\ UNCHANGED <<record, generation, completed, blocked, minted>>
           => StoreInv'
    /\ ChallengeInv /\ UNCHANGED <<challenge, pendingIds, pending>> => ChallengeInv'
    /\ GrantsTyped /\ UNCHANGED grants => GrantsTyped'
    /\ FlightInv /\ UNCHANGED <<flight, call>> => FlightInv'
<1>1. StoreInv /\ UNCHANGED <<record, generation, completed, blocked, minted>>
           => StoreInv'
  BY DEF StoreInv, ClearedStaysCleared
<1>2. ChallengeInv /\ UNCHANGED <<challenge, pendingIds, pending>> => ChallengeInv'
  BY DEF ChallengeInv
<1>3. GrantsTyped /\ UNCHANGED grants => GrantsTyped'
  BY DEF GrantsTyped
<1>4. FlightInv /\ UNCHANGED <<flight, call>> => FlightInv'
  BY DEF FlightInv, FlightsOwned
<1> QED
  BY <1>1, <1>2, <1>3, <1>4

(* State::clear_challenge. *)
LEMMA Challenged ==
    /\ ChallengeInv /\ ClearChallenge => ChallengeInv'
    /\ ChallengeInv /\ KeepChallenge => ChallengeInv'
  BY DEF ChallengeInv, ClearChallenge, KeepChallenge

(* A minted session remembers the generation its request began with: when  *)
(* no clear came in between, that is the current one.                      *)
LEMMA Minted ==
    ASSUME StoreInv, FlightInv, NEW c \in Clients, Mint(c),
           call[c].begun = generation, UNCHANGED generation,
           completed' \in Grants \cup {None}, blocked' \in {0, blocked}
    PROVE  StoreInv'
<1>1. minted \in Nat /\ minted' = minted + 1
  BY DEF StoreInv, Mint
<1>2. call[c].begun \in Nat /\ call[c].own \in Nat
  BY DEF FlightInv, CallType
<1>3. record' = [session |-> minted', age |-> "fresh",
                 begun |-> call[c].begun, from |-> call[c].own]
  BY DEF Mint
<1>4. record' \in [session : 0..minted', age : {"fresh", "due", "expired"},
                   begun : Nat, from : Nat]
  BY <1>1, <1>2, <1>3
<1>5. record'.begun = generation'
  BY <1>3
<1>6. blocked' \in 0..minted'
  BY <1>1 DEF StoreInv
<1> QED
  BY <1>1, <1>4, <1>5, <1>6 DEF StoreInv, ClearedStaysCleared

(* The record is dropped. *)
LEMMA Dropped ==
    ASSUME StoreInv, record' = NoSession, UNCHANGED minted,
           generation' \in 0..MaxClears, completed' \in Grants \cup {None},
           blocked' \in {0, blocked}
    PROVE  StoreInv'
<1>1. NoSession \in [session : 0..minted, age : {"fresh", "due", "expired"},
                     begun : Nat, from : Nat]
  BY DEF StoreInv, NoSession
<1>2. NoSession.session = 0
  BY DEF NoSession
<1>3. blocked' \in 0..minted
  BY DEF StoreInv
<1> QED
  BY <1>1, <1>2, <1>3 DEF StoreInv, ClearedStaysCleared

(* Only the age of the record changes. *)
LEMMA Aged ==
    ASSUME StoreInv, NEW age \in {"fresh", "due", "expired"},
           record' = [record EXCEPT !.age = age],
           UNCHANGED <<generation, completed, blocked, minted>>
    PROVE  StoreInv' /\ record'.session = record.session
<1>1. record' \in [session : 0..minted, age : {"fresh", "due", "expired"},
                   begun : Nat, from : Nat]
      /\ record'.session = record.session /\ record'.begun = record.begun
  BY DEF StoreInv
<1> QED
  BY <1>1 DEF StoreInv, ClearedStaysCleared

-----------------------------------------------------------------------------
(* The numbers a call reads from the scope. *)
LEMMA Reads ==
    ASSUME IInv
    PROVE  /\ record.session \in Nat /\ generation \in Nat
           /\ \A c \in Clients : call[c] \in CallType /\ Extension[c] \in Extensions
  BY SessionAssumption DEF IInv, StoreInv, FlightInv, Extensions

(* A new scope, with a stored session or without one. *)
LEMMA InitEstablishes == Init => IInv
<1> SUFFICES ASSUME Init PROVE IInv
  OBVIOUS
<1>1. StoreInv
  <2>1. CASE record = NoSession /\ minted = 0
    BY <2>1, SessionAssumption DEF Init, StoreInv, NoSession, ClearedStaysCleared
  <2>2. ASSUME NEW age \in {"fresh", "due"}, minted = 1,
               record = [NoSession EXCEPT !.session = 1, !.age = age]
        PROVE  StoreInv
    <3>1. record = [session |-> 1, age |-> age, begun |-> 0, from |-> 0]
      BY <2>2 DEF NoSession
    <3>2. record \in [session : 0..minted, age : {"fresh", "due", "expired"},
                      begun : Nat, from : Nat]
      BY <2>2, <3>1
    <3>3. record.begun = 0
      BY <3>1
    <3> QED
      BY <2>2, <3>2, <3>3, SessionAssumption
         DEF Init, StoreInv, ClearedStaysCleared
  <2> QED
    BY <2>1, <2>2 DEF Init
<1>2. ChallengeInv
  BY SessionAssumption DEF Init, ChallengeInv, Extensions
<1>3. GrantsTyped
  BY DEF Init, GrantsTyped
<1>4. FlightInv
  <2>1. \A k \in Kinds : "idle" \notin Performing[k]
    BY PerformingIs DEF Flying
  <2>2. \A c \in Clients : c # None
    BY SessionAssumption
  <2>3. \A c \in Clients : call[c] = Idle /\ call[c].at = "idle"
    BY IdleTyped DEF Init
  <2>4. \A k \in Kinds : flight[k] = None
    BY DEF Init
  <2>5. FlightsOwned
    BY <2>1, <2>2, <2>3, <2>4 DEF FlightsOwned
  <2> QED
    BY <2>5, IdleTyped DEF Init, FlightInv
<1> QED
  BY <1>1, <1>2, <1>3, <1>4 DEF IInv

(* bootstrap, from the head of its loop to the answer. *)
LEMMA BootstrapPreserves ==
    ASSUME IInv, NEW c \in Clients,
           Bootstrap(c) \/ BootstrapFails(c) \/ BootstrapAnswered(c)
    PROVE  IInv'
<1>0. /\ call[c] \in CallType /\ Extension[c] \in Extensions
      /\ record.session \in Nat /\ generation \in Nat
  BY Reads
<1>1. CASE Bootstrap(c)
  <2>1. call[c].at = "bootstrap" /\ call[c].at \notin Flying
    BY <1>1 DEF Bootstrap, Flying
  <2>2. ChallengeInv'
    <3>1. CASE KeepChallenge
      BY <3>1, Challenged DEF IInv
    <3>2. CASE challenge' = None
      <4>1. /\ pendingIds' \subseteq pendingIds \cup {Extension[c]}
            /\ pending' \subseteq pending \cup {Extension[c]}
        BY <1>1 DEF Bootstrap, KeepChallenge
      <4> QED
        BY <1>0, <3>2, <4>1 DEF IInv, ChallengeInv
    <3>3. CASE ~KeepChallenge /\ challenge' # None
      <4> DEFINE live == challenge # None /\ challenge.live
                 dropped == challenge # None /\ ~challenge.live
                 kept == IF dropped THEN pending \ pendingIds ELSE pending
                 ids == IF dropped THEN {} ELSE pendingIds
                 me == Extension[c]
      <4>1. /\ challenge' = IF live THEN challenge
                             ELSE [owner |-> me, live |-> TRUE]
            /\ pendingIds' = ids \cup {me}
            /\ pending' = kept \cup {me}
        BY <1>1, <3>3 DEF Bootstrap
      <4>2. pendingIds' \subseteq Extensions /\ pending' \subseteq Extensions
        BY <1>0, <4>1 DEF IInv, ChallengeInv
      <4>3. CASE live
        BY <4>1, <4>2, <4>3 DEF IInv, ChallengeInv
      <4>4. CASE ~live
        BY <1>0, <4>1, <4>2, <4>4 DEF ChallengeInv
      <4> QED
        BY <4>3, <4>4
    <3> QED
      BY <3>1, <3>2, <3>3
  <2>3. StoreInv' /\ GrantsTyped'
    BY <1>1, Frames DEF Bootstrap, IInv
  <2>4. ASSUME \E a \in {"error", "url", "empty"} :
                  /\ call' = [call EXCEPT ![c] = Resumed(c, a)]
                  /\ UNCHANGED flight
        PROVE  FlightInv'
    <3>1. PICK a \in {"error", "url", "empty"} :
                  call' = [call EXCEPT ![c] = Resumed(c, a)]
      BY <2>4
    <3>2. Resumed(c, a) \in CallType /\ Resumed(c, a).at \notin Flying
      BY <1>0, ResumedTyped
    <3> QED
      BY <2>1, <2>4, <3>1, <3>2, FlightKept DEF IInv
  <2>5. ASSUME Set(c, [at |-> "bootstrap wait"]), UNCHANGED flight
        PROVE  FlightInv'
    <3>1. "bootstrap wait" \in Places \ Flying
      BY DEF Places, Flying
    <3> DEFINE mine == Move(c, [at |-> "bootstrap wait"])
    <3>2. mine \in CallType /\ mine.at \notin Flying
      BY <1>0, <3>1, MoveAt
    <3>3. call' = [call EXCEPT ![c] = mine]
      BY <2>5 DEF Set
    <3> HIDE DEF mine
    <3> QED
      BY <2>1, <2>5, <3>2, <3>3, FlightKept DEF IInv
  <2>6. ASSUME flight["bootstrap"] = None,
               flight' = [flight EXCEPT !["bootstrap"] = c],
               Set(c, [at |-> "bootstrap http", own |-> record.session,
                       begun |-> generation])
        PROVE  FlightInv'
    <3>1. "bootstrap http" \in Places /\ "bootstrap" \in Kinds
      BY DEF Places, Kinds
    <3>2. "bootstrap http" \in Performing["bootstrap"]
      BY PerformingIs
    <3> DEFINE mine == Move(c, [at |-> "bootstrap http", own |-> record.session,
                                begun |-> generation])
    <3>3. mine \in CallType /\ mine.at \in Performing["bootstrap"]
      BY <1>0, <3>1, <3>2, MoveFlight
    <3>4. call' = [call EXCEPT ![c] = mine]
      BY <2>6 DEF Set
    <3> HIDE DEF mine
    <3> QED
      BY <2>1, <2>6, <3>1, <3>3, <3>4, FlightStarts DEF IInv
  <2>7. \/ \E a \in {"error", "url", "empty"} :
              /\ call' = [call EXCEPT ![c] = Resumed(c, a)]
              /\ UNCHANGED flight
        \/ Set(c, [at |-> "bootstrap wait"]) /\ UNCHANGED flight
        \/ /\ flight["bootstrap"] = None
           /\ flight' = [flight EXCEPT !["bootstrap"] = c]
           /\ Set(c, [at |-> "bootstrap http", own |-> record.session,
                      begun |-> generation])
    BY <1>1 DEF Bootstrap
  <2> QED
    BY <2>2, <2>3, <2>4, <2>5, <2>6, <2>7 DEF IInv
<1>2. ASSUME call[c].at = "bootstrap http",
             NEW a \in {"error", "url", "empty"}, NEW ok,
             Finish("bootstrap", c, Resumed(c, a), ok)
      PROVE  FlightInv'
  <2>1. call[c].at \in Performing["bootstrap"] /\ "bootstrap" \in Kinds
    BY <1>2, PerformingIs DEF Kinds
  <2>2. Resumed(c, a) \in CallType /\ Resumed(c, a).at \notin Flying
    BY <1>0, ResumedTyped
  <2> QED
    BY <1>2, <2>1, <2>2, FlightEnds DEF IInv
<1>3. CASE BootstrapFails(c)
  <2>1. FlightInv'
    BY <1>2, <1>3 DEF BootstrapFails
  <2> QED
    BY <1>3, <2>1, Frames DEF BootstrapFails, IInv
<1>4. CASE BootstrapAnswered(c)
  <2>1. FlightInv'
    BY <1>2, <1>4 DEF BootstrapAnswered
  <2>2. GrantsTyped'
    BY <1>4, Frames DEF BootstrapAnswered, IInv
  <2>3. ChallengeInv'
    <3>1. CASE ClearChallenge
      BY <3>1, Challenged DEF IInv
    <3>2. CASE /\ challenge' = [owner |-> Extension[c], live |-> TRUE]
               /\ pendingIds' = pendingIds \cup {Extension[c]}
               /\ pending' = pending \cup {Extension[c]}
      BY <1>0, <3>2 DEF IInv, ChallengeInv
    <3> QED
      BY <1>4, <3>1, <3>2 DEF BootstrapAnswered
  <2>4. StoreInv'
    <3>1. CASE UNCHANGED <<record, blocked, minted>>
      BY <1>4, <3>1, Frames DEF BootstrapAnswered, IInv
    <3>2. CASE Mint(c) /\ blocked' = 0
      <4>1. call[c].begun = generation /\ UNCHANGED <<generation, completed>>
        BY <1>4 DEF BootstrapAnswered
      <4>2. completed' \in Grants \cup {None}
        BY <4>1 DEF IInv, StoreInv
      <4> QED
        BY <3>2, <4>1, <4>2, Minted DEF IInv
    <3> QED
      BY <1>4, <3>1, <3>2 DEF BootstrapAnswered
  <2> QED
    BY <2>1, <2>2, <2>3, <2>4 DEF IInv
<1> QED
  BY <1>1, <1>3, <1>4

(* refresh.  Only the session that was refreshed gets a successor. *)
LEMMA RefreshPreserves ==
    ASSUME IInv, NEW c \in Clients,
           Refresh(c) \/ RefreshFails(c) \/ RefreshAnswered(c)
    PROVE  IInv'
<1>0. /\ call[c] \in CallType
      /\ record.session \in Nat /\ generation \in Nat
  BY Reads
<1>1. "refresh" \in Kinds /\ Performing["refresh"] = {"refresh http"}
  BY PerformingIs DEF Kinds
<1>2. /\ "refresh wait" \in Places /\ "refreshed" \in Places
      /\ "refresh wait" \notin Flying /\ "refreshed" \notin Flying
      /\ "refresh http" \in Places
  BY DEF Places, Flying
<1>3. CASE Refresh(c)
  <2>1. call[c].at \notin Flying
    BY <1>3 DEF Refresh, Flying
  <2>2. ASSUME NEW p \in {"refresh wait", "refreshed"}, Set(c, [at |-> p]),
               UNCHANGED flight
        PROVE  FlightInv'
    BY <1>2, <2>1, <2>2, FlightKeptAt DEF IInv
  <2>3. ASSUME flight["refresh"] = None,
               flight' = [flight EXCEPT !["refresh"] = c],
               Set(c, [at |-> "refresh http", own |-> record.session,
                       begun |-> generation])
        PROVE  FlightInv'
    <3> DEFINE mine == Move(c, [at |-> "refresh http", own |-> record.session,
                                begun |-> generation])
    <3>0. "refresh http" \in Places /\ "refresh http" \in Performing["refresh"]
      BY <1>1 DEF Places
    <3>1. mine \in CallType /\ mine.at \in Performing["refresh"]
      BY <1>0, <3>0, MoveFlight
    <3>2. call' = [call EXCEPT ![c] = mine]
      BY <2>3 DEF Set
    <3> HIDE DEF mine
    <3> QED
      BY <1>1, <2>1, <2>3, <3>1, <3>2, FlightStarts DEF IInv
  <2>4. FlightInv'
    BY <1>3, <2>2, <2>3 DEF Refresh
  <2> QED
    BY <1>3, <2>4, Frames DEF Refresh, IInv
<1>4. ASSUME call[c].at = "refresh http", NEW ok,
             Finish("refresh", c, AfterRefresh(c), ok)
      PROVE  FlightInv'
  <2>0. 0 \in Nat /\ "refreshed" \in Places
    BY <1>2
  <2>1. AfterRefresh(c) \in CallType /\ AfterRefresh(c).at = "refreshed"
    BY <1>0, <2>0, MoveFlight DEF AfterRefresh
  <2> QED
    BY <1>1, <1>2, <1>4, <2>1, FlightEnds DEF IInv
<1>5. CASE RefreshFails(c)
  <2>1. FlightInv'
    BY <1>4, <1>5 DEF RefreshFails
  <2> QED
    BY <1>5, <2>1, Frames DEF RefreshFails, IInv
<1>6. CASE RefreshAnswered(c)
  <2>1. FlightInv'
    BY <1>4, <1>6 DEF RefreshAnswered
  <2>2. call[c].begun = generation /\ UNCHANGED <<generation, completed, blocked>>
    BY <1>6 DEF RefreshAnswered
  <2>3. StoreInv'
    <3>1. CASE Mint(c)
      BY <2>2, <3>1, Minted DEF IInv, StoreInv
    <3>2. CASE record' = [record EXCEPT !.age = "fresh"] /\ UNCHANGED minted
      BY <2>2, <3>2, Aged DEF IInv
    <3>3. CASE UNCHANGED <<record, minted>>
      BY <2>2, <3>3, Frames DEF IInv
    <3> QED
      BY <1>6, <3>1, <3>2, <3>3 DEF RefreshAnswered
  <2> QED
    BY <1>6, <2>1, <2>3, Frames DEF RefreshAnswered, IInv
<1> QED
  BY <1>3, <1>5, <1>6

(* complete_grant and exchange. *)
LEMMA ExchangePreserves ==
    ASSUME IInv, NEW c \in Clients,
           \/ \E g \in Grants : CompleteGrant(c, g)
           \/ TakeGrant(c) \/ ExchangeStart(c)
           \/ Exchange(c) \/ ExchangeBegin(c) \/ ExchangeFails(c)
           \/ ExchangeAnswered(c) \/ ExchangeEnd(c) \/ Granted(c)
    PROVE  IInv'
<1>0. /\ call[c] \in CallType /\ Extension[c] \in Extensions
      /\ record.session \in Nat /\ generation \in Nat
      /\ call[c].grant \in Grants \cup {None}
  BY Reads DEF CallType
<1>1. /\ "exchange" \in Kinds
      /\ Performing["exchange"] = {"exchange begin", "exchange http",
                                   "exchange end", "exchange done"}
  BY PerformingIs DEF Kinds
<1>2. /\ {"idle", "granted", "grant", "exchange start", "exchange",
          "exchange wait"} \subseteq Places \ Flying
      /\ {"exchange begin", "exchange http", "exchange end",
          "exchange done"} \subseteq Places
  BY DEF Places, Flying
<1>3. ASSUME NEW g \in Grants, CompleteGrant(c, g) PROVE IInv'
  <2> DEFINE mine == [Idle EXCEPT !.at = "grant"]
  <2>1. mine \in CallType /\ mine.at = "grant"
    BY <1>0 DEF Idle, CallType, Places
  <2>2. call' = [call EXCEPT ![c] = mine] /\ UNCHANGED flight
        /\ call[c].at = "idle"
    BY <1>3 DEF CompleteGrant
  <2> HIDE DEF mine
  <2>3. FlightInv'
    BY <1>2, <2>1, <2>2, FlightKept DEF IInv
  <2>4. GrantsTyped'
    BY <1>0, <1>3 DEF CompleteGrant, IInv, GrantsTyped
  <2> QED
    BY <1>3, <2>3, <2>4, Frames DEF CompleteGrant, IInv
<1>4. ASSUME call' = [call EXCEPT ![c] = Idle], UNCHANGED flight,
             call[c].at \notin Flying
      PROVE  FlightInv'
  BY <1>2, <1>4, IdleTyped, FlightKept DEF IInv
<1>5. CASE Exchange(c)
  <2>1. call[c].at \notin Flying
    BY <1>5 DEF Exchange, Flying
  <2>2. ASSUME Set(c, [at |-> "exchange wait"]), UNCHANGED flight
        PROVE  FlightInv'
    BY <1>2, <2>1, <2>2, FlightKeptAt DEF IInv
  <2>3. ASSUME flight["exchange"] = None,
               flight' = [flight EXCEPT !["exchange"] = c],
               Set(c, [at |-> "exchange begin"])
        PROVE  FlightInv'
    <3> DEFINE mine == Move(c, [at |-> "exchange begin"])
    <3>1. mine \in CallType /\ mine.at \in Performing["exchange"]
      BY <1>0, <1>1, <1>2, MoveAt
    <3>2. call' = [call EXCEPT ![c] = mine]
      BY <2>3 DEF Set
    <3> HIDE DEF mine
    <3> QED
      BY <1>1, <2>1, <2>3, <3>1, <3>2, FlightStarts DEF IInv
  <2>4. FlightInv'
    BY <1>4, <1>5, <2>1, <2>2, <2>3 DEF Exchange
  <2> QED
    BY <1>5, <2>4, Frames DEF Exchange, IInv
<1>6. ASSUME NEW p \in {"exchange end", "exchange done"}, Set(c, [at |-> p]),
             UNCHANGED flight, call[c].at \in Performing["exchange"]
      PROVE  FlightInv'
  BY <1>1, <1>2, <1>6, FlightKeptAt DEF IInv
<1>7. CASE ExchangeBegin(c)
  <2>1. call[c].at \in Performing["exchange"] /\ UNCHANGED flight
    BY <1>1, <1>7 DEF ExchangeBegin
  <2>2. ASSUME Set(c, [at |-> "exchange http", own |-> record.session])
        PROVE  FlightInv'
    <3> DEFINE mine == Move(c, [at |-> "exchange http", own |-> record.session])
    <3>1. mine \in CallType /\ mine.at \in Performing["exchange"]
      BY <1>0, <1>1, <1>2, MoveAtOwn
    <3>2. call' = [call EXCEPT ![c] = mine]
      BY <2>2 DEF Set
    <3> HIDE DEF mine
    <3> QED
      BY <2>1, <3>1, <3>2, FlightKept DEF IInv
  <2>3. FlightInv'
    BY <1>6, <1>7, <2>1, <2>2 DEF ExchangeBegin
  <2>4. ChallengeInv'
    BY <1>7, Challenged DEF ExchangeBegin, IInv
  <2>5. blocked' \in {0, blocked} /\ UNCHANGED <<record, generation, completed, minted>>
    BY <1>7 DEF ExchangeBegin
  <2>6. StoreInv'
    BY <2>5 DEF IInv, StoreInv, ClearedStaysCleared
  <2> QED
    BY <1>7, <2>3, <2>4, <2>6, Frames DEF ExchangeBegin, IInv
<1>8. CASE ExchangeFails(c)
  <2>1. FlightInv'
    BY <1>1, <1>6, <1>8 DEF ExchangeFails, scopeVars
  <2> QED
    BY <1>8, <2>1, Frames DEF ExchangeFails, scopeVars, IInv
<1>9. CASE ExchangeAnswered(c)
  <2>1. FlightInv'
    BY <1>1, <1>6, <1>9 DEF ExchangeAnswered
  <2>2. ChallengeInv'
    BY <1>9, Challenged DEF ExchangeAnswered, IInv
  <2>3. call[c].begun = generation /\ generation' = generation /\ blocked' = 0
    BY <1>9 DEF ExchangeAnswered, Superseded
  <2>4. StoreInv'
    <3>1. CASE UNCHANGED <<record, completed, minted>>
      BY <2>3, <3>1 DEF IInv, StoreInv, ClearedStaysCleared
    <3>2. CASE Mint(c) /\ completed' = call[c].grant
      BY <1>0, <2>3, <3>2, Minted DEF IInv
    <3> QED
      BY <1>9, <3>1, <3>2 DEF ExchangeAnswered
  <2> QED
    BY <1>9, <2>1, <2>2, <2>4, Frames DEF ExchangeAnswered, IInv
<1>10. CASE ExchangeEnd(c)
  <2> DEFINE mine == IF call[c].at = "exchange done" THEN Move(c, [at |-> "granted"])
                     ELSE Idle
  <2>1. mine \in CallType /\ mine.at \notin Flying
    BY <1>0, <1>2, MoveAt, IdleTyped
  <2>2. Finish("exchange", c, mine, TRUE) /\ call[c].at \in Performing["exchange"]
    BY <1>1, <1>10 DEF ExchangeEnd
  <2> HIDE DEF mine
  <2>3. FlightInv'
    BY <1>1, <2>1, <2>2, FlightEnds DEF IInv
  <2> QED
    BY <1>10, <2>3, Frames DEF ExchangeEnd, IInv
<1>11. CASE Granted(c)
  <2>1. FlightInv'
    BY <1>4, <1>11 DEF Granted, Flying
  <2>2. ChallengeInv' /\ GrantsTyped'
    BY <1>11 DEF Granted, IInv, ChallengeInv, GrantsTyped
  <2> QED
    BY <1>11, <2>1, <2>2, Frames DEF Granted, IInv
<1>12. CASE TakeGrant(c)
  <2>1. call[c].at \notin Flying /\ UNCHANGED <<scopeVars, minted>>
    BY <1>12 DEF TakeGrant, Flying
  <2>2. CASE grants[Extension[c]] = None
    <3>1. call' = [call EXCEPT ![c] = Idle] /\ UNCHANGED flight
      BY <1>12, <2>1, <2>2 DEF TakeGrant, scopeVars
    <3>2. FlightInv'
      BY <1>2, <2>1, <3>1, IdleTyped, FlightKept DEF IInv
    <3> QED
      BY <2>1, <3>2, Frames DEF IInv, scopeVars
  <2>3. CASE grants[Extension[c]] # None
    <3> DEFINE mine == Move(c, [at |-> "exchange start",
                                grant |-> grants[Extension[c]]])
    <3>1. grants[Extension[c]] \in Grants /\ "exchange start" \in Places
      BY <1>0, <1>2, <2>3 DEF IInv, GrantsTyped
    <3>2. mine \in CallType /\ mine.at = "exchange start"
      <4>1. call[c] \in CallType
        BY <1>0
      <4> QED
        BY <3>1, <4>1, MoveGrant
    <3>3. call' = [call EXCEPT ![c] = mine]
      BY <1>12, <2>3 DEF TakeGrant
    <3> HIDE DEF mine
    <3>4. FlightInv'
      BY <1>2, <2>1, <3>2, <3>3, FlightKept DEF IInv, scopeVars
    <3> QED
      BY <2>1, <3>4, Frames DEF IInv, scopeVars
  <2> QED
    BY <2>2, <2>3
<1>13. CASE ExchangeStart(c)
  <2> DEFINE mine == Move(c, [at |-> "exchange", begun |-> generation])
  <2>1. call[c].at \notin Flying /\ UNCHANGED <<scopeVars, minted>>
        /\ call' = [call EXCEPT ![c] = mine]
    BY <1>13 DEF ExchangeStart, Set, Flying
  <2>2. mine \in CallType /\ mine.at = "exchange"
    BY <1>0, <1>2, MoveBegun
  <2> HIDE DEF mine
  <2>3. FlightInv'
    BY <1>2, <2>1, <2>2, FlightKept DEF IInv, scopeVars
  <2> QED
    BY <2>1, <2>3, Frames DEF IInv, scopeVars
<1> QED
  BY <1>3, <1>5, <1>7, <1>8, <1>9, <1>10, <1>11, <1>12, <1>13

(* signed_fetch and preflight. *)
LEMMA FetchPreserves ==
    ASSUME IInv, NEW c \in Clients,
           \/ SignedFetch(c) \/ Preflight(c) \/ Unblocked(c) \/ Refreshed(c)
           \/ Answered(c) \/ AuthInvalid(c) \/ GatewayAction(c)
           \/ GatewayRetry(c) \/ WaitStopped(c)
    PROVE  IInv'
<1>0. call[c] \in CallType /\ record.session \in Nat
  BY Reads
<1>1. {"idle", "send", "refresh", "refreshed", "bootstrap"} \subseteq Places \ Flying
  BY DEF Places, Flying
<1>2. /\ call[c].at \notin Flying
      /\ UNCHANGED <<generation, completed, challenge, pendingIds, pending,
                     flight, grants, minted>>
  BY DEF SignedFetch, Preflight, Unblocked, Refreshed, Answered, AuthInvalid,
         GatewayAction, GatewayRetry, WaitStopped, Flying, scopeVars
<1>3. ASSUME NEW mine \in CallType, mine.at \notin Flying,
             call' = [call EXCEPT ![c] = mine]
      PROVE  FlightInv'
  BY <1>2, <1>3, FlightKept DEF IInv
<1>4. Idle \in CallType /\ Idle.at \notin Flying
  BY <1>1, IdleTyped
<1>5. ASSUME NEW b \in {"missing", "blocked", "preflight", "stale"}
      PROVE  LET mine == [Idle EXCEPT !.at = "bootstrap", !.back = b]
             IN  mine \in CallType /\ mine.at \notin Flying
  BY DEF Idle, CallType, Places, Flying
<1>6. StoreInv' /\ FlightInv'
  <2>1. CASE SignedFetch(c)
    <3>1. ASSUME NEW p \in {"refresh", "send"}
          PROVE  LET mine == [Idle EXCEPT !.at = p, !.base = record.session]
                 IN  mine \in CallType /\ mine.at \notin Flying
      BY <1>0 DEF Idle, CallType, Places, Flying
    <3>2. FlightInv'
      BY <2>1, <1>3, <1>5, <3>1 DEF SignedFetch
    <3>3. CASE UNCHANGED record
      BY <1>2, <2>1, <3>2, <3>3, Frames DEF SignedFetch, IInv
    <3>4. CASE record' = NoSession
      BY <1>2, <2>1, <3>2, <3>4, Dropped DEF SignedFetch, IInv, StoreInv
    <3> QED
      BY <2>1, <3>3, <3>4 DEF SignedFetch
  <2>2. CASE Preflight(c)
    BY <2>2, <1>3, <1>5, Frames DEF Preflight, scopeVars, IInv
  <2>3. CASE Unblocked(c)
    <3>1. Signing(c) \in CallType /\ Signing(c).at \notin Flying
      BY <1>0, <1>1, MoveAtBase DEF Signing
    <3> QED
      BY <2>3, <1>3, <1>4, <3>1, Frames DEF Unblocked, scopeVars, IInv
  <2>4. CASE Refreshed(c)
    <3> DEFINE mine == Move(c, [at |-> "send", base |-> record.session])
    <3>1. mine \in CallType /\ mine.at \notin Flying
      BY <1>0, <1>1, MoveAtBase
    <3> HIDE DEF mine
    <3>2. FlightInv'
      BY <2>4, <1>3, <1>4, <1>5, <3>1 DEF Refreshed, mine
    <3> QED
      BY <2>4, <3>2, Frames DEF Refreshed, scopeVars, IInv
  <2>5. CASE Answered(c)
    BY <2>5, <1>3, <1>4, Frames DEF Answered, scopeVars, IInv
  <2>6. CASE AuthInvalid(c)
    <3>1. /\ Move(c, [retried |-> TRUE, base |-> record.session]) \in CallType
          /\ Move(c, [retried |-> TRUE, base |-> record.session]).at \notin Flying
      BY <1>0, <1>2, MoveRetried
    <3> QED
      BY <2>6, <1>3, <3>1, Frames DEF AuthInvalid, Set, scopeVars, IInv
  <2>7. CASE GatewayAction(c)
    <3>1. /\ Move(c, [sessions |-> 1, base |-> record.session]) \in CallType
          /\ Move(c, [sessions |-> 1, base |-> record.session]).at \notin Flying
      BY <1>0, <1>2, MoveSessions
    <3>2. /\ Move(c, [at |-> "bootstrap", back |-> "gateway"]) \in CallType
          /\ Move(c, [at |-> "bootstrap", back |-> "gateway"]).at \notin Flying
      BY <1>0, <1>1, MoveGateway
    <3>3. FlightInv'
      BY <2>7, <1>3, <1>4, <3>1, <3>2 DEF GatewayAction, Set
    <3>4. CASE UNCHANGED <<record, blocked>>
      BY <1>2, <3>3, <3>4, Frames DEF IInv
    <3>5. CASE record' = NoSession /\ blocked' = 0
      BY <1>2, <3>3, <3>5, Dropped DEF IInv, StoreInv
    <3>6. CASE blocked' = record.session /\ UNCHANGED record
      BY <1>2, <3>3, <3>6 DEF IInv, StoreInv, ClearedStaysCleared
    <3>7. CASE blocked' = 0 /\ UNCHANGED record
      BY <1>2, <3>3, <3>7 DEF IInv, StoreInv, ClearedStaysCleared
    <3> QED
      BY <2>7, <3>4, <3>5, <3>6, <3>7 DEF GatewayAction
  <2>8. CASE GatewayRetry(c)
    <3> DEFINE mine == Move(c, [at |-> "send", sessions |-> 1, base |-> record.session])
    <3>1. mine \in CallType /\ mine.at \notin Flying
      BY <1>0, <1>1, MoveRetry
    <3> HIDE DEF mine
    <3>2. FlightInv'
      BY <2>8, <1>3, <1>4, <3>1 DEF GatewayRetry, mine
    <3> QED
      BY <2>8, <3>2, Frames DEF GatewayRetry, scopeVars, IInv
  <2>9. CASE WaitStopped(c)
    <3>1. /\ Move(c, [at |-> "refreshed"]) \in CallType
          /\ Move(c, [at |-> "refreshed"]).at \notin Flying
      BY <1>0, <1>1, MoveAt
    <3>2. Resumed(c, "error") \in CallType /\ Resumed(c, "error").at \notin Flying
      BY <1>0, ResumedTyped
    <3>3. FlightInv'
      BY <2>9, <1>3, <1>4, <3>1, <3>2 DEF WaitStopped, Set
    <3> QED
      BY <2>9, <3>3, Frames DEF WaitStopped, scopeVars, IInv
  <2> QED
    BY <2>1, <2>2, <2>3, <2>4, <2>5, <2>6, <2>7, <2>8, <2>9
<1> QED
  BY <1>2, <1>6, Frames DEF IInv

(* clear, forget_extension, shutdown, a cancellation, and time. *)
LEMMA OutsidePreserves ==
    ASSUME IInv, Clear \/ Outside
    PROVE  IInv'
<1>1. CASE Clear
  <2>1. ChallengeInv'
    BY <1>1 DEF Clear, IInv, ChallengeInv
  <2>2. generation' \in 0..MaxClears /\ completed' = None /\ blocked' = 0
    BY <1>1, SessionAssumption DEF Clear, IInv, StoreInv
  <2>3. StoreInv'
    BY <1>1, <2>2, Dropped DEF Clear, IInv
  <2> QED
    BY <1>1, <2>1, <2>3, Frames DEF Clear, IInv
<1>2. ASSUME NEW e \in Extensions, Forget(e) PROVE IInv'
  <2>1. ChallengeInv' /\ GrantsTyped'
    BY <1>2 DEF Forget, IInv, ChallengeInv, GrantsTyped
  <2> QED
    BY <1>2, <2>1, Frames DEF Forget, IInv
<1>3. CASE Shutdown
  <2>1. ChallengeInv' /\ GrantsTyped'
    BY <1>3, Challenged DEF Shutdown, IInv, GrantsTyped
  <2> QED
    BY <1>3, <2>1, Frames DEF Shutdown, IInv
<1>4. ASSUME NEW c \in Clients, Cancel(c) PROVE IInv'
  <2> DEFINE mine == Move(c, [cancelled |-> TRUE])
  <2>1. mine \in CallType /\ mine.at = call[c].at
    BY Reads, MoveCancelled
  <2>2. call' = [call EXCEPT ![c] = mine] /\ UNCHANGED <<scopeVars, minted>>
    BY <1>4 DEF Cancel, Set
  <2> HIDE DEF mine
  <2>3. FlightInv'
    BY <2>1, <2>2, FlightKept DEF IInv, scopeVars
  <2> QED
    BY <2>2, <2>3, Frames DEF IInv, scopeVars
<1>5. CASE Passing
  <2>1. UNCHANGED <<generation, completed, blocked, pendingIds, pending, flight,
                    grants, call, minted>>
    BY <1>5 DEF Passing
  <2>2. CASE /\ record' = [record EXCEPT !.age = IF @ = "fresh" THEN "due"
                                                 ELSE "expired"]
             /\ UNCHANGED challenge
    <3>1. StoreInv'
      BY <2>1, <2>2, Aged DEF IInv
    <3> QED
      BY <2>1, <2>2, <3>1, Frames DEF IInv
  <2>3. CASE /\ challenge # None /\ challenge' = [challenge EXCEPT !.live = FALSE]
             /\ UNCHANGED record
    <3>1. ChallengeInv'
      BY <2>1, <2>3 DEF IInv, ChallengeInv
    <3> QED
      BY <2>1, <2>3, <3>1, Frames DEF IInv
  <2> QED
    BY <1>5, <2>2, <2>3 DEF Passing, Time
<1> QED
  BY <1>1, <1>2, <1>3, <1>4, <1>5 DEF Outside

(* Every step keeps the invariant. *)
LEMMA NextPreserves == IInv /\ [Next]_vars => IInv'
<1> SUFFICES ASSUME IInv, [Next]_vars PROVE IInv'
  OBVIOUS
<1>1. ASSUME NEW c \in Clients, Step(c) PROVE IInv'
  BY <1>1, BootstrapPreserves, RefreshPreserves, ExchangePreserves, FetchPreserves
     DEF Step
<1>2. CASE Inside
  BY <1>1, <1>2, ExchangePreserves, FetchPreserves DEF Inside
<1>3. CASE Clear \/ Outside
  BY <1>3, OutsidePreserves
<1>4. CASE UNCHANGED vars
  BY <1>4, Frames DEF vars, scopeVars, IInv
<1> QED
  BY <1>2, <1>3, <1>4 DEF Next

LEMMA Inductive == Spec => []IInv
  BY InitEstablishes, NextPreserves, PTL DEF Spec

-----------------------------------------------------------------------------
(* A flight is marked exactly while one call performs it: two calls never  *)
(* ask the gateway for the same thing at once, and no failure leaves a     *)
(* flight behind that everybody would wait for (coordinator.rs).           *)
THEOREM FlightsHaveOneOwner == Spec => []SessionInv
<1>1. IInv => SessionInv
  BY Typed DEF SessionInv, IInv, FlightInv
<1> QED
  BY <1>1, Inductive, PTL

(* clear() is final: no session that was asked for before it is stored     *)
(* after it, however late the gateway answers.                             *)
THEOREM ClearIsFinal == Spec => []ClearedStaysCleared
<1>1. IInv => ClearedStaysCleared
  BY DEF IInv, StoreInv
<1> QED
  BY <1>1, Inductive, PTL

(* A usable session is replaced only by the answer to a request that was   *)
(* made with it.                                                           *)
THEOREM LateAnswerHarmless == Spec => NewerSessionKept
<1> DEFINE Kept == Usable /\ ~Blocked /\ record'.session \notin {0, record.session}
                       => record'.from = record.session
<1>1. ASSUME IInv, [Next]_vars PROVE [Kept]_vars
  <2> SUFFICES ASSUME Next, Usable, ~Blocked,
                      record'.session \notin {0, record.session}
               PROVE  record'.from = record.session
    BY <1>1
  <2>1. NoSession.session = 0
    BY DEF NoSession
  <2>2. record'.session # record.session /\ record' # NoSession /\ record' # record
    BY <2>1
  <2>3. \A age \in {"fresh", "due", "expired"} :
            record' # [record EXCEPT !.age = age]
    <3>1. ASSUME NEW age PROVE [record EXCEPT !.age = age].session = record.session
      BY <1>1 DEF IInv, StoreInv
    <3> QED
      BY <2>2, <3>1
  <2>4. ASSUME NEW c \in Clients, Mint(c) PROVE record'.from = call[c].own
    BY <2>4 DEF Mint
  <2>5. ASSUME NEW c \in Clients, BootstrapAnswered(c)
        PROVE  record'.from = record.session
    BY <2>2, <2>4, <2>5 DEF BootstrapAnswered, Overtaken
  <2>6. ASSUME NEW c \in Clients, RefreshAnswered(c)
        PROVE  record'.from = record.session
    BY <2>2, <2>3, <2>4, <2>6 DEF RefreshAnswered
  <2>7. ASSUME NEW c \in Clients, ExchangeAnswered(c)
        PROVE  record'.from = record.session
    BY <2>2, <2>4, <2>7 DEF ExchangeAnswered, Overtaken
  <2>8. ASSUME NEW c \in Clients, Step(c) PROVE record'.from = record.session
    BY <2>2, <2>5, <2>6, <2>7, <2>8
       DEF Step, Bootstrap, BootstrapFails, Refresh, RefreshFails, TakeGrant,
           ExchangeStart, Exchange,
           ExchangeBegin, ExchangeFails, ExchangeEnd, Granted, Unblocked,
           Refreshed, Answered, AuthInvalid, GatewayAction, GatewayRetry,
           WaitStopped, scopeVars
  <2>9. CASE Inside
    BY <2>2, <2>8, <2>9
       DEF Inside, SignedFetch, Preflight, CompleteGrant, scopeVars
  <2>10. CASE Clear \/ Outside
    BY <2>2, <2>3, <2>10
       DEF Clear, Outside, Cancel, Shutdown, Passing, Time, Forget, scopeVars
  <2> QED
    BY <2>9, <2>10 DEF Next
<1> QED
  BY <1>1, Inductive, PTL DEF Spec, NewerSessionKept
=============================================================================
