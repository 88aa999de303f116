------------------------------- MODULE Gateway -------------------------------
(***************************************************************************)
(* The API gateway: the key check, the rate limiter and the proxy a        *)
(* request passes on its way to a service.  The limiter counts in Redis,   *)
(* under the API key and the start of the window in which the request      *)
(* arrived; the first request of a window sends EXPIRE in a second         *)
(* command.  Whatever fails in Redis, the request passes uncounted.  Redis *)
(* is deployed with little memory and evicts any key to make room, so a    *)
(* counter may be gone at any time, and the next INCR starts at one.  The  *)
(* proxy sends a request once and turns what becomes of it into an answer; *)
(* a service may execute what the gateway has given up.                    *)
(*                                                                         *)
(* Time is in ticks.  An INCR is executed at most Lag ticks after its      *)
(* request arrived: while disconnected the client queues its commands, and *)
(* it gives up after ten attempts to reconnect with pauses of 5.5 seconds  *)
(* in all.  Attempts that hang instead of being refused could make it more *)
(* than the Buffer of ten seconds; Lag <= Buffer assumes they do not.      *)
(*                                                                         *)
(* Bounds: Requests are all the requests there ever are, MaxTime ends      *)
(* time.  Every key has one Limit.                                         *)
(***************************************************************************)
EXTENDS Integers, FiniteSets

CONSTANTS
    Requests,
    ApiKeys,    \* valid API keys
    Limit,      \* maxRequests of a key
    Window,     \* windowMs
    Buffer,     \* by how much a counter outlives a window
    Lag,        \* the longest a request waits for its INCR to be executed
    MaxTime,
    None

ASSUME TimesAssumption ==
    /\ Limit \in Nat \ {0} /\ Window \in Nat \ {0}
    /\ Buffer \in Nat /\ Lag \in Nat /\ MaxTime \in Nat
    /\ Lag <= Buffer

ASSUME RequestsAssumption == IsFiniteSet(Requests)

VARIABLES
    now,
    value,      \* [ApiKeys -> [window -> value of its counter in Redis, 0 if absent]]
    expires,    \* [ApiKeys -> [window -> when the counter expires, or None]]
    evicted,    \* history: <<key, window>> of counters Redis dropped before their time
    key,        \* [Requests -> API key of the request, or None]
    at,         \* [Requests -> its time of arrival]
    step,       \* [Requests -> what it waits for]
    passed,     \* requests the limiter counted and let pass
    service,    \* [Requests -> what the service has of it]
    answer      \* [Requests -> the answer given, or None]

redis == <<value, expires, evicted>>
vars == <<now, redis, key, at, step, passed, service, answer>>

Times == 0 .. MaxTime
WindowOf(t) == t \div Window
Windows == 0 .. WindowOf(MaxTime)

Steps == {"new", "incr", "expire", "forward", "await", "done"}

Answers == {"UNAUTHORIZED", "RATE_LIMIT_EXCEEDED", "RESPONSE", "SERVICE_UNAVAILABLE",
            "GATEWAY_TIMEOUT", "BAD_GATEWAY", "DROPPED"}

ASSUME NoneAssumption == None \notin ApiKeys /\ None \notin Nat /\ None \notin Answers

Init ==
    /\ now = 0
    /\ value = [k \in ApiKeys |-> [w \in Windows |-> 0]]
    /\ expires = [k \in ApiKeys |-> [w \in Windows |-> None]]
    /\ evicted = {}
    /\ key = [r \in Requests |-> None]
    /\ at = [r \in Requests |-> 0]
    /\ step = [r \in Requests |-> "new"]
    /\ passed = {}
    /\ service = [r \in Requests |-> "none"]
    /\ answer = [r \in Requests |-> None]

-----------------------------------------------------------------------------
Goto(r, next) == step' = [step EXCEPT ![r] = next] /\ UNCHANGED answer

Answer(r, code) ==
    /\ step' = [step EXCEPT ![r] = "done"]
    /\ answer' = [answer EXCEPT ![r] = code]

\* apiKeyAuth, and the limiter up to its first await: the window is that of
\* the arrival.
Arrive(r) ==
    /\ step[r] = "new"
    /\ \/ Answer(r, "UNAUTHORIZED") /\ UNCHANGED <<key, at>>
       \/ /\ \E k \in ApiKeys : key' = [key EXCEPT ![r] = k]
          /\ at' = [at EXCEPT ![r] = now]
          /\ Goto(r, "incr")
    /\ UNCHANGED <<now, redis, passed, service>>

\* Fault: one counter for all windows.
OneCounter(r) == 0

\* The window in a request's counter key.
windowStart(r) == WindowOf(at[r])

OverLimit(n) == n > Limit

Decide(r, count) ==
    IF OverLimit(count)
    THEN Answer(r, "RATE_LIMIT_EXCEEDED") /\ UNCHANGED passed
    ELSE Goto(r, "forward") /\ passed' = passed \cup {r}

Increment(r) == value' = [value EXCEPT ![key[r]][windowStart(r)] = @ + 1]

\* Fault: the first request is number zero.
FromZero(count) == count = 0

FirstOfWindow(count) == count = 1

Incr(r) ==
    /\ step[r] = "incr"
    /\ Increment(r)
    /\ LET count == value[key[r]][windowStart(r)] + 1 IN
       IF FirstOfWindow(count) THEN Goto(r, "expire") /\ UNCHANGED passed ELSE Decide(r, count)
    /\ UNCHANGED <<now, expires, evicted, key, at, service>>

\* Fault: a counter that lives exactly as long as a window.
NoBuffer == Window

TTL == Window + Buffer

SetExpiry(r) ==
    expires' = IF value[key[r]][windowStart(r)] = 0 THEN expires
               ELSE [expires EXCEPT ![key[r]][windowStart(r)] = now + TTL]

Expire(r) ==
    /\ step[r] = "expire"
    /\ SetExpiry(r)
    /\ Decide(r, 1)
    /\ UNCHANGED <<now, value, evicted, key, at, service>>

\* A command fails, with or without effect: the request passes uncounted.
RedisFails(r) ==
    /\ \/ step[r] = "incr" /\ (Increment(r) \/ UNCHANGED value) /\ UNCHANGED expires
       \/ step[r] = "expire" /\ (SetExpiry(r) \/ UNCHANGED expires) /\ UNCHANGED value
    /\ Goto(r, "forward")
    /\ UNCHANGED <<now, evicted, key, at, passed, service>>

-----------------------------------------------------------------------------
\* The proxy.

\* Fault: a lost connection is reported like a refused one.
AlwaysUnavailable(error) == "SERVICE_UNAVAILABLE"

\* Fault: the client is told the error as it came.
RawError(error) == error

\* forwardRequest and errorHandler: what the client is told of an error.
ErrorAnswer(error) ==
    CASE error = "ECONNREFUSED" -> "SERVICE_UNAVAILABLE"
      [] error \in {"ETIMEDOUT", "ECONNABORTED"} -> "GATEWAY_TIMEOUT"
      [] OTHER -> "BAD_GATEWAY"

Forward(r) ==
    /\ step[r] = "forward"
    /\ \/ service' = [service EXCEPT ![r] = "sent"] /\ Goto(r, "await")
       \/ UNCHANGED service /\ Answer(r, ErrorAnswer("ECONNREFUSED"))
    /\ UNCHANGED <<now, redis, key, at, passed>>

\* The service executes what it was sent, sooner or later or never.
Serve(r) ==
    /\ service[r] = "sent"
    /\ service' = [service EXCEPT ![r] = "executed"]
    /\ UNCHANGED <<now, redis, key, at, step, passed, answer>>

Respond(r) ==
    /\ step[r] = "await"
    /\ service[r] = "executed"
    /\ Answer(r, "RESPONSE")
    /\ UNCHANGED <<now, redis, key, at, passed, service>>

ForwardFails(r) ==
    /\ step[r] = "await"
    /\ \E error \in {"ECONNABORTED", "ECONNRESET"} : Answer(r, ErrorAnswer(error))
    /\ UNCHANGED <<now, redis, key, at, passed, service>>

-----------------------------------------------------------------------------
Waiting == {"incr", "expire", "forward", "await"}

\* The gateway dies, and with it the connections of its clients.
Crash ==
    /\ \E r \in Requests : step[r] \in Waiting
    /\ step' = [r \in Requests |-> IF step[r] \in Waiting THEN "done" ELSE step[r]]
    /\ answer' = [r \in Requests |-> IF step[r] \in Waiting THEN "DROPPED" ELSE answer[r]]
    /\ UNCHANGED <<now, redis, key, at, passed, service>>

\* Time passes, and counters expire; no INCR waits longer than Lag.
Tick ==
    /\ now < MaxTime
    /\ \A r \in Requests : step[r] = "incr" => now < at[r] + Lag
    /\ now' = now + 1
    /\ LET Due(k, w) == expires[k][w] # None /\ expires[k][w] <= now' IN
       /\ value' = [k \in ApiKeys |-> [w \in Windows |-> IF Due(k, w) THEN 0 ELSE value[k][w]]]
       /\ expires' = [k \in ApiKeys |-> [w \in Windows |-> IF Due(k, w) THEN None ELSE expires[k][w]]]
    /\ UNCHANGED <<evicted, key, at, step, passed, service, answer>>

\* Redis evicts a counter to make room, or loses it.
Evict(k, w) ==
    /\ value[k][w] > 0
    /\ value' = [value EXCEPT ![k][w] = 0]
    /\ expires' = [expires EXCEPT ![k][w] = None]
    /\ evicted' = evicted \cup {<<k, w>>}
    /\ UNCHANGED <<now, key, at, step, passed, service, answer>>

Next ==
    \/ \E r \in Requests : \/ Arrive(r) \/ Incr(r) \/ Expire(r) \/ RedisFails(r)
                           \/ Forward(r) \/ Serve(r) \/ Respond(r) \/ ForwardFails(r)
    \/ Crash
    \/ Tick
    \/ \E k \in ApiKeys, w \in Windows : Evict(k, w)

Spec == Init /\ [][Next]_vars

-----------------------------------------------------------------------------
TypeOK ==
    /\ now \in Times
    /\ value \in [ApiKeys -> [Windows -> 0 .. Cardinality(Requests)]]
    /\ expires \in [ApiKeys -> [Windows -> Nat \cup {None}]]
    /\ evicted \subseteq ApiKeys \X Windows
    /\ key \in [Requests -> ApiKeys \cup {None}]
    /\ at \in [Requests -> Times]
    /\ step \in [Requests -> Steps]
    /\ passed \subseteq Requests
    /\ service \in [Requests -> {"none", "sent", "executed"}]
    /\ answer \in [Requests -> Answers \cup {None}]

\* The requests of key k that arrived in window w.
Arrived(k, w) == {r \in Requests : key[r] = k /\ step[r] # "new" /\ WindowOf(at[r]) = w}

\* Of the requests of one key that arrive in one window, the limiter counts
\* and lets pass no more than Limit, unless Redis evicted the counter: none
\* expires while a request of its window may still be on its way to it.
LimitPerWindow ==
    \A k \in ApiKeys, w \in Windows :
        <<k, w>> \in evicted \/ Cardinality(Arrived(k, w) \cap passed) <= Limit

\* Nobody is refused before the Limit is used up by other requests of the
\* same key and the same window.
RefusedOnlyOverLimit ==
    \A r \in Requests : answer[r] = "RATE_LIMIT_EXCEEDED" =>
        Cardinality({q \in Arrived(key[r], WindowOf(at[r])) \ {r} : step[q] # "incr"}) >= Limit

\* A counter without a time to live, which Redis would keep for ever, is one
\* whose EXPIRE is still to come or was lost with the request that owed it:
\* to a failing Redis or to a crash.
CountersExpire ==
    \A k \in ApiKeys, w \in Windows :
        value[k][w] > 0 /\ expires[k][w] = None =>
            \E r \in Arrived(k, w) :
                \/ step[r] = "expire"
                \/ step[r] # "incr" /\ r \notin passed /\ answer[r] # "RATE_LIMIT_EXCEEDED"

\* A client told that a service is unavailable can be sure that the service
\* has done nothing; any other error leaves that open.
UnavailableIsNotExecuted ==
    \A r \in Requests : answer[r] = "SERVICE_UNAVAILABLE" => service[r] = "none"
=============================================================================
