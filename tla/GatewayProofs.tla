---------------------------- MODULE GatewayProofs ----------------------------
(***************************************************************************)
(* Proofs about Gateway, for any number of requests and keys and any       *)
(* limit, window, buffer and lag with Lag <= Buffer.                       *)
(***************************************************************************)
EXTENDS Gateway, FiniteSetTheorems, TLAPS

\* The first tick after window w.
WindowEnd(w) == (w + 1) * Window

\* No INCR of window w can come any more.
Over(w) == now >= WindowEnd(w) + Lag

Evicted(k, w) == <<k, w>> \in evicted

\* Requests of window w whose INCR has been sent and ended.
Executed(k, w) == {q \in Arrived(k, w) : step[q] # "incr"}

\* Those the counter has let pass, the one about to send EXPIRE included.
Counted(k, w) == {q \in Arrived(k, w) : q \in passed \/ step[q] = "expire"}

\* TypeOK without its bound on counters.
Types ==
    /\ now \in Times
    /\ value \in [ApiKeys -> [Windows -> Nat]]
    /\ expires \in [ApiKeys -> [Windows -> Nat \cup {None}]]
    /\ evicted \subseteq ApiKeys \X Windows
    /\ key \in [Requests -> ApiKeys \cup {None}]
    /\ at \in [Requests -> Times]
    /\ step \in [Requests -> Steps]
    /\ passed \subseteq Requests
    /\ service \in [Requests -> {"none", "sent", "executed"}]
    /\ answer \in [Requests -> Answers \cup {None}]

StepsMatch ==
    \A r \in Requests :
        /\ step[r] = "new" => key[r] = None
        /\ step[r] \in Waiting => key[r] \in ApiKeys
        /\ step[r] \in {"new", "incr", "expire"} => r \notin passed
        /\ step[r] \in {"new", "incr", "expire", "forward"} => service[r] = "none"
        /\ step[r] # "done" => answer[r] = None
        /\ answer[r] = "RATE_LIMIT_EXCEEDED" => key[r] \in ApiKeys

\* No request waits longer than Lag for its INCR.
Timely ==
    \A r \in Requests :
        /\ at[r] <= now
        /\ step[r] = "incr" => now <= at[r] + Lag

\* No counter expires while an INCR of its window may come.
ExpiresLate ==
    \A k \in ApiKeys, w \in Windows :
        expires[k][w] # None => expires[k][w] >= WindowEnd(w) + Lag

CountsEnough ==
    \A k \in ApiKeys, w \in Windows :
        Evicted(k, w) \/ Over(w) \/ Cardinality(Counted(k, w)) <= value[k][w]

CountsNoMore ==
    \A k \in ApiKeys, w \in Windows : value[k][w] <= Cardinality(Executed(k, w))

WithinLimit ==
    \A k \in ApiKeys, w \in Windows : Evicted(k, w) \/ Cardinality(Counted(k, w)) <= Limit

Control == Types /\ StepsMatch /\ Timely

IInv ==
    /\ Control /\ ExpiresLate
    /\ CountsEnough /\ CountsNoMore /\ WithinLimit
    /\ RefusedOnlyOverLimit /\ CountersExpire /\ UnavailableIsNotExecuted

-----------------------------------------------------------------------------
\* Windows.

LEMMA Division ==
    ASSUME NEW t \in Nat, NEW n \in Nat \ {0}
    PROVE  t \div n \in Nat /\ (t \div n) * n <= t /\ t < (t \div n + 1) * n
OBVIOUS

\* A time of arrival has a window, which it is not after.
LEMMA WindowFacts ==
    ASSUME NEW t \in Times
    PROVE  /\ t \in Nat
           /\ WindowOf(t) \in Windows
           /\ t < WindowEnd(WindowOf(t))
           /\ WindowEnd(WindowOf(t)) <= t + Window
<1> USE TimesAssumption
<1>0. t \in Nat /\ MaxTime \in Nat /\ t <= MaxTime /\ Window \in Nat \ {0}
  BY DEF Times
<1> DEFINE a == t \div Window
           b == MaxTime \div Window
<1>1. a \in Nat /\ a * Window <= t /\ t < (a + 1) * Window
  BY <1>0, Division
<1>2. b \in Nat /\ MaxTime < (b + 1) * Window
  BY <1>0, Division
<1>3. (a + 1) * Window = a * Window + Window
  BY <1>0, <1>1
<1>4. a <= b
  <2>1. ASSUME b + 1 <= a PROVE (b + 1) * Window <= a * Window
    BY <2>1, <1>0, <1>1, <1>2
  <2> QED BY <2>1, <1>0, <1>1, <1>2
<1> QED BY <1>0, <1>1, <1>2, <1>3, <1>4 DEF WindowOf, Windows, WindowEnd

LEMMA WindowEndType ==
    ASSUME NEW w \in Windows PROVE w \in Nat /\ WindowEnd(w) \in Nat
<1>1. w \in Nat /\ Window \in Nat
  BY TimesAssumption, Division DEF Windows, WindowOf
<1> QED BY <1>1 DEF WindowEnd

-----------------------------------------------------------------------------
\* Sets of requests.

LEMMA Counting ==
    ASSUME NEW S \in SUBSET Requests
    PROVE  /\ IsFiniteSet(S) /\ Cardinality(S) \in Nat
           /\ \A T \in SUBSET S : Cardinality(T) <= Cardinality(S)
           /\ \A r \in Requests : Cardinality(S \cup {r}) =
                  IF r \in S THEN Cardinality(S) ELSE Cardinality(S) + 1
<1>1. IsFiniteSet(S)
  BY RequestsAssumption, FS_Subset
<1> QED BY <1>1, FS_CardinalityType, FS_Subset, FS_AddElement

LEMMA SetsOfRequests ==
    ASSUME NEW k, NEW w
    PROVE  /\ Arrived(k, w) \subseteq Requests
           /\ Executed(k, w) \subseteq Requests /\ Executed(k, w)' \subseteq Requests
           /\ Counted(k, w) \subseteq Requests /\ Counted(k, w)' \subseteq Requests
BY DEF Arrived, Executed, Counted

-----------------------------------------------------------------------------
\* Control: where requests stand, and when.

LEMMA InitControl == Init => Control
<1> SUFFICES ASSUME Init PROVE Control
  OBVIOUS
<1>1. now \in Times
  BY TimesAssumption DEF Init, Times
<1>2. Types
  BY <1>1, NoneAssumption DEF Init, Types, Steps, Times
<1>3. StepsMatch
  BY NoneAssumption DEF Init, StepsMatch, Waiting, Answers
<1>4. Timely
  BY DEF Init, Timely
<1> QED BY <1>2, <1>3, <1>4 DEF Control

LEMMA StepTypes == ASSUME Types, StepsMatch, Next PROVE Types'
<1> USE TimesAssumption, NoneAssumption DEF Types, Steps
<1>1. ASSUME NEW r \in Requests, Arrive(r) PROVE Types'
  <2>1. CASE Answer(r, "UNAUTHORIZED") /\ UNCHANGED <<key, at>>
    BY <1>1, <2>1 DEF Arrive, Answer, redis, Answers
  <2>2. CASE /\ \E k \in ApiKeys : key' = [key EXCEPT ![r] = k]
             /\ at' = [at EXCEPT ![r] = now]
             /\ Goto(r, "incr")
    BY <1>1, <2>2 DEF Arrive, Goto, redis
  <2> QED BY <1>1, <2>1, <2>2 DEF Arrive
<1>2. ASSUME NEW r \in Requests, step[r] \in {"incr", "expire"}
      PROVE  key[r] \in ApiKeys /\ windowStart(r) \in Windows
  <2>1. key[r] \in ApiKeys
    BY <1>2 DEF StepsMatch, Waiting
  <2>2. at[r] \in Times
    OBVIOUS
  <2> QED BY ONLY <2>1, <2>2, WindowFacts DEF windowStart
<1>3. ASSUME NEW r \in Requests, NEW count, Decide(r, count)
      PROVE  /\ step' \in [Requests -> Steps] /\ passed' \subseteq Requests
             /\ answer' \in [Requests -> Answers \cup {None}]
  BY <1>3 DEF Decide, Goto, Answer, Answers
<1>4. ASSUME NEW r \in Requests, key[r] \in ApiKeys, windowStart(r) \in Windows
      PROVE  /\ Increment(r) => value' \in [ApiKeys -> [Windows -> Nat]]
             /\ SetExpiry(r) => expires' \in [ApiKeys -> [Windows -> Nat \cup {None}]]
  <2>1. Increment(r) => value' \in [ApiKeys -> [Windows -> Nat]]
    BY <1>4 DEF Increment
  <2>2. now + TTL \in Nat
    BY DEF Times, TTL
  <2>3. SetExpiry(r) => \/ expires' = expires
                        \/ expires' = [expires EXCEPT ![key[r]][windowStart(r)] = now + TTL]
    BY DEF SetExpiry
  <2> DEFINE e == now + TTL
             Moments == Nat \cup {None}
  <2>4. e \in Moments /\ expires \in [ApiKeys -> [Windows -> Moments]]
    BY <2>2
  <2>5. SetExpiry(r) => expires' = expires \/ expires' = [expires EXCEPT ![key[r]][windowStart(r)] = e]
    BY <2>3
  <2> HIDE DEF e, Moments
  <2>6. SetExpiry(r) => expires' \in [ApiKeys -> [Windows -> Moments]]
    BY ONLY <1>4, <2>4, <2>5
  <2> QED BY <2>1, <2>6 DEF Moments
<1>5. ASSUME NEW r \in Requests, Incr(r) PROVE Types'
  <2>1. /\ step' \in [Requests -> Steps] /\ passed' \subseteq Requests
        /\ answer' \in [Requests -> Answers \cup {None}]
    BY <1>3, <1>5 DEF Incr, Goto
  <2> QED BY <2>1, <1>2, <1>4, <1>5 DEF Incr
<1>6. ASSUME NEW r \in Requests, Expire(r) PROVE Types'
  BY <1>2, <1>3, <1>4, <1>6 DEF Expire
<1>7. ASSUME NEW r \in Requests, RedisFails(r) PROVE Types'
  BY <1>2, <1>4, <1>7 DEF RedisFails, Goto
<1>8. ASSUME NEW r \in Requests, Forward(r) PROVE Types'
  BY <1>8 DEF Forward, Goto, Answer, ErrorAnswer, redis, Answers
<1>9. ASSUME NEW r \in Requests, Serve(r) PROVE Types'
  BY <1>9 DEF Serve, redis
<1>10. ASSUME NEW r \in Requests, Respond(r) PROVE Types'
  BY <1>10 DEF Respond, Answer, redis, Answers
<1>11. ASSUME NEW r \in Requests, ForwardFails(r) PROVE Types'
  BY <1>11 DEF ForwardFails, Answer, ErrorAnswer, redis, Answers
<1>12. CASE Crash
  BY <1>12 DEF Crash, redis, Answers
<1>13. CASE Tick
  BY <1>13 DEF Tick, Times
<1>14. ASSUME NEW k \in ApiKeys, NEW w \in Windows, Evict(k, w) PROVE Types'
  BY <1>14 DEF Evict
<1> QED BY <1>1, <1>5, <1>6, <1>7, <1>8, <1>9, <1>10, <1>11, <1>12, <1>13, <1>14 DEF Next

LEMMA StepStepsMatch == ASSUME Types, StepsMatch, Next PROVE StepsMatch'
<1> USE NoneAssumption DEF Types, StepsMatch, Waiting, Answers
<1>1. ASSUME NEW r \in Requests, Arrive(r) PROVE StepsMatch'
  BY <1>1 DEF Arrive, Goto, Answer
<1>2. ASSUME NEW r \in Requests, Incr(r) PROVE StepsMatch'
  BY <1>2 DEF Incr, Decide, Goto, Answer
<1>3. ASSUME NEW r \in Requests, Expire(r) PROVE StepsMatch'
  BY <1>3 DEF Expire, Decide, Goto, Answer
<1>4. ASSUME NEW r \in Requests, RedisFails(r) PROVE StepsMatch'
  BY <1>4 DEF RedisFails, Goto
<1>5. ASSUME NEW r \in Requests, Forward(r) PROVE StepsMatch'
  BY <1>5 DEF Forward, Goto, Answer, ErrorAnswer
<1>6. ASSUME NEW r \in Requests, Serve(r) PROVE StepsMatch'
  BY <1>6 DEF Serve
<1>7. ASSUME NEW r \in Requests, Respond(r) PROVE StepsMatch'
  BY <1>7 DEF Respond, Answer
<1>8. ASSUME NEW r \in Requests, ForwardFails(r) PROVE StepsMatch'
  BY <1>8 DEF ForwardFails, Answer, ErrorAnswer
<1>9. CASE Crash
  BY <1>9 DEF Crash
<1>10. CASE Tick
  BY <1>10 DEF Tick
<1>11. ASSUME NEW k \in ApiKeys, NEW w \in Windows, Evict(k, w) PROVE StepsMatch'
  BY <1>11 DEF Evict
<1> QED BY <1>1, <1>2, <1>3, <1>4, <1>5, <1>6, <1>7, <1>8, <1>9, <1>10, <1>11 DEF Next

LEMMA StepTimely == ASSUME Types, Timely, Next PROVE Timely'
<1> USE TimesAssumption DEF Types, Timely, Times
<1>1. ASSUME NEW r \in Requests, Arrive(r) PROVE Timely'
  BY <1>1 DEF Arrive, Goto, Answer
<1>2. ASSUME NEW r \in Requests, Incr(r) \/ Expire(r) PROVE Timely'
  BY <1>2 DEF Incr, Expire, Decide, Goto, Answer
<1>3. ASSUME NEW r \in Requests, RedisFails(r) PROVE Timely'
  BY <1>3 DEF RedisFails, Goto
<1>4. ASSUME NEW r \in Requests, Forward(r) \/ Serve(r) \/ Respond(r) \/ ForwardFails(r)
      PROVE  Timely'
  BY <1>4 DEF Forward, Serve, Respond, ForwardFails, Goto, Answer
<1>5. CASE Crash
  BY <1>5 DEF Crash
<1>6. CASE Tick
  BY <1>6 DEF Tick
<1>7. ASSUME NEW k \in ApiKeys, NEW w \in Windows, Evict(k, w) PROVE Timely'
  BY <1>7 DEF Evict
<1> QED BY <1>1, <1>2, <1>3, <1>4, <1>5, <1>6, <1>7 DEF Next

LEMMA StepControl == ASSUME Control, Next PROVE Control'
BY StepTypes, StepStepsMatch, StepTimely DEF Control

-----------------------------------------------------------------------------
\* Counters and their windows.

\* A request still before its INCR or EXPIRE has a counter.
LEMMA HasCounter ==
    ASSUME Control, NEW r \in Requests, step[r] \in {"incr", "expire"}
    PROVE  /\ key[r] \in ApiKeys
           /\ windowStart(r) \in Windows
           /\ r \in Arrived(key[r], windowStart(r))
           /\ \A k \in ApiKeys, w \in Windows :
                  r \in Arrived(k, w) => k = key[r] /\ w = windowStart(r)
           /\ r \notin passed
<1>1. key[r] \in ApiKeys /\ r \notin passed /\ at[r] \in Times /\ step[r] # "new"
  BY DEF Control, Types, StepsMatch, Waiting
<1>2. windowStart(r) \in Windows
  BY ONLY <1>1, WindowFacts DEF windowStart
<1> QED BY <1>1, <1>2 DEF Arrived, windowStart

\* The window of a request waiting for its INCR is not over.
LEMMA NotOver ==
    ASSUME Control, NEW r \in Requests, step[r] = "incr"
    PROVE  ~Over(windowStart(r))
<1>1. at[r] \in Times /\ now \in Times /\ now <= at[r] + Lag
  BY DEF Control, Types, Timely
<1>2. at[r] \in Nat /\ now \in Nat /\ at[r] < WindowEnd(windowStart(r)) /\ windowStart(r) \in Windows
  BY ONLY <1>1, WindowFacts DEF windowStart
<1>3. WindowEnd(windowStart(r)) \in Nat
  BY <1>2, WindowEndType
<1> QED BY <1>1, <1>2, <1>3, TimesAssumption DEF Over

LEMMA StepExpiresLate == ASSUME Control, ExpiresLate, Next PROVE ExpiresLate'
<1> USE DEF ExpiresLate
<1>1. ASSUME NEW r \in Requests, step[r] = "expire", SetExpiry(r) PROVE ExpiresLate'
  <2>1. at[r] \in Times /\ now \in Times /\ at[r] <= now
    BY DEF Control, Types, Timely
  <2>2. windowStart(r) \in Windows
    BY <1>1, HasCounter
  <2>3. at[r] \in Nat /\ now \in Nat /\ WindowEnd(windowStart(r)) <= at[r] + Window
    BY ONLY <2>1, WindowFacts DEF windowStart
  <2>4. WindowEnd(windowStart(r)) \in Nat
    BY <2>2, WindowEndType
  <2>5. now + TTL >= WindowEnd(windowStart(r)) + Lag
    BY <2>1, <2>3, <2>4, TimesAssumption DEF TTL
  <2>6. \A k \in ApiKeys, w \in Windows :
            \/ expires'[k][w] = expires[k][w]
            \/ w = windowStart(r) /\ expires'[k][w] = now + TTL
    <3>1. expires' = expires \/ expires' = [expires EXCEPT ![key[r]][windowStart(r)] = now + TTL]
      BY <1>1 DEF SetExpiry
    <3>2. expires \in [ApiKeys -> [Windows -> Nat \cup {None}]]
      BY DEF Control, Types
    <3> DEFINE e == now + TTL
    <3> HIDE DEF e
    <3> QED BY <3>1, <3>2 DEF e
  <2> QED BY <2>5, <2>6 DEF WindowEnd
<1>2. ASSUME UNCHANGED expires PROVE ExpiresLate'
  BY <1>2 DEF WindowEnd
<1>3. CASE \E r \in Requests : Expire(r) \/ RedisFails(r)
  BY <1>1, <1>2, <1>3 DEF Expire, RedisFails
<1>4. CASE Tick
  <2>1. \A k \in ApiKeys, w \in Windows : expires'[k][w] \in {None, expires[k][w]}
    BY <1>4 DEF Tick
  <2> QED BY <2>1 DEF WindowEnd
<1>5. ASSUME NEW j \in ApiKeys, NEW v \in Windows, Evict(j, v) PROVE ExpiresLate'
  <2>1. \A k \in ApiKeys, w \in Windows : expires'[k][w] \in {None, expires[k][w]}
    BY <1>5 DEF Evict, Control, Types
  <2> QED BY <2>1 DEF WindowEnd
<1>6. CASE UNCHANGED expires
  BY <1>2, <1>6
<1> QED BY <1>3, <1>4, <1>5, <1>6
        DEF Next, Arrive, Incr, Forward, Serve, Respond, ForwardFails, Crash, redis

\* A step that counts nothing and gives up no count.
Calm ==
    /\ value' = value /\ now' = now /\ evicted' = evicted
    /\ \A k \in ApiKeys, w \in Windows :
          /\ Counted(k, w)' \subseteq Counted(k, w)
          /\ Executed(k, w) \subseteq Executed(k, w)'

Counts == CountsEnough /\ CountsNoMore /\ WithinLimit

LEMMA CalmKeepsCounts == ASSUME Types, Counts, Calm PROVE Counts'
<1> SUFFICES ASSUME NEW k \in ApiKeys, NEW w \in Windows
             PROVE  /\ Evicted(k, w)' \/ Over(w)' \/ Cardinality(Counted(k, w)') <= value'[k][w]
                    /\ value'[k][w] <= Cardinality(Executed(k, w)')
                    /\ Evicted(k, w)' \/ Cardinality(Counted(k, w)') <= Limit
  BY DEF Counts, CountsEnough, CountsNoMore, WithinLimit
<1>1. Cardinality(Counted(k, w)') <= Cardinality(Counted(k, w))
  BY SetsOfRequests, Counting DEF Calm
<1>2. Cardinality(Executed(k, w)) <= Cardinality(Executed(k, w)')
  BY SetsOfRequests, Counting DEF Calm
<1>3. /\ Cardinality(Counted(k, w)) \in Nat /\ Cardinality(Counted(k, w)') \in Nat
      /\ Cardinality(Executed(k, w)) \in Nat /\ Cardinality(Executed(k, w)') \in Nat
  BY SetsOfRequests, Counting
<1>4. value[k][w] \in Nat /\ Limit \in Nat
  BY TimesAssumption DEF Types
<1>5. Over(w) => Over(w)'
  BY DEF Calm, Over, WindowEnd
<1>6. Evicted(k, w)' <=> Evicted(k, w)
  BY DEF Calm, Evicted
<1> QED BY <1>1, <1>2, <1>3, <1>4, <1>5, <1>6 DEF Counts, CountsEnough, CountsNoMore, WithinLimit, Calm

\* Most steps are calm.
LEMMA CalmSteps ==
    ASSUME Control, NEW r \in Requests,
           Arrive(r) \/ Expire(r) \/ Forward(r) \/ Serve(r) \/ Respond(r) \/ ForwardFails(r) \/ Crash
    PROVE  Calm
<1> USE DEF Calm, Counted, Executed, Arrived
<1>1. ASSUME NEW q \in Requests, step[q] = "new" PROVE key[q] = None /\ q \notin passed
  BY <1>1 DEF Control, StepsMatch
<1>2. CASE Arrive(r)
  <2>1. step[r] = "new" /\ key[r] = None /\ r \notin passed
    BY <1>1, <1>2 DEF Arrive
  <2>2. passed' = passed /\ value' = value /\ now' = now /\ evicted' = evicted
    BY <1>2 DEF Arrive, redis
  <2>3. step \in [Requests -> Steps] /\ key \in [Requests -> ApiKeys \cup {None}] /\ at \in [Requests -> Times]
    BY DEF Control, Types
  <2>4. /\ step'[r] = "incr" \/ (step'[r] = "done" /\ key'[r] = None)
        /\ \A q \in Requests \ {r} : key'[q] = key[q] /\ at'[q] = at[q] /\ step'[q] = step[q]
    BY <1>2, <2>1, <2>3 DEF Arrive, Goto, Answer
  <2> QED BY <2>1, <2>2, <2>4, NoneAssumption
<1>3. CASE Expire(r)
  BY <1>3, HasCounter DEF Expire, Decide, Goto, Answer, Control, Types
<1>4. CASE Forward(r) \/ Serve(r) \/ Respond(r) \/ ForwardFails(r)
  BY <1>4 DEF Forward, Serve, Respond, ForwardFails, Goto, Answer, redis, Control, Types
<1>5. CASE Crash
  BY <1>5 DEF Crash, Waiting, redis, Control, Types
<1> QED BY <1>2, <1>3, <1>4, <1>5

\* An INCR that is executed, whatever its caller makes of it.
LEMMA IncrementKeepsCounts ==
    ASSUME Control, Counts, NEW r \in Requests, step[r] = "incr",
           value' = value \/ Increment(r), UNCHANGED <<now, evicted, key, at>>,
           step' \in [Requests -> Steps], step'[r] \notin {"new", "incr"},
           \A q \in Requests \ {r} : step'[q] = step[q] /\ (q \in passed' <=> q \in passed),
           r \in passed' \/ step'[r] = "expire" =>
               Increment(r) /\ value[key[r]][windowStart(r)] + 1 <= Limit
    PROVE  Counts'
<1> DEFINE K == key[r]
           W == windowStart(r)
<1>1. /\ K \in ApiKeys /\ W \in Windows /\ r \in Arrived(K, W) /\ r \notin passed /\ ~Over(W)
      /\ \A k \in ApiKeys, w \in Windows : r \in Arrived(k, w) => k = K /\ w = W
  BY HasCounter, NotOver
<1> HIDE DEF K, W
<1> SUFFICES ASSUME NEW k \in ApiKeys, NEW w \in Windows
             PROVE  /\ Evicted(k, w)' \/ Over(w)' \/ Cardinality(Counted(k, w)') <= value'[k][w]
                    /\ value'[k][w] <= Cardinality(Executed(k, w)')
                    /\ Evicted(k, w)' \/ Cardinality(Counted(k, w)') <= Limit
  BY DEF Counts, CountsEnough, CountsNoMore, WithinLimit
<1> DEFINE here == k = K /\ w = W
           C == Cardinality(Counted(k, w))
           E == Cardinality(Executed(k, w))
<1>2. /\ C \in Nat /\ Cardinality(Counted(k, w)') \in Nat
      /\ E \in Nat /\ Cardinality(Executed(k, w)') \in Nat
      /\ value[k][w] \in Nat /\ Limit \in Nat
  BY SetsOfRequests, Counting, TimesAssumption DEF Control, Types
<1>3. (Over(w)' <=> Over(w)) /\ (Evicted(k, w)' <=> Evicted(k, w))
  BY DEF Over, WindowEnd, Evicted
<1>4. \/ value'[k][w] = value[k][w]
      \/ here /\ value'[k][w] = value[k][w] + 1 /\ Increment(r)
  BY <1>1 DEF Control, Types, Increment, K, W
<1>5. here /\ Increment(r) => value'[k][w] = value[k][w] + 1
  BY <1>1 DEF Control, Types, Increment, K, W
<1>6. /\ value[k][w] <= E
      /\ Evicted(k, w) \/ C <= Limit
      /\ Evicted(k, w) \/ Over(w) \/ C <= value[k][w]
  BY DEF Counts, CountsEnough, CountsNoMore, WithinLimit
<1>7. CASE ~here
  <2>1. Counted(k, w)' \subseteq Counted(k, w) /\ Executed(k, w) \subseteq Executed(k, w)'
    BY <1>1, <1>7 DEF Counted, Executed, Arrived
  <2>2. Cardinality(Counted(k, w)') <= C /\ E <= Cardinality(Executed(k, w)')
    BY <2>1, SetsOfRequests, Counting
  <2> QED BY <2>2, <1>2, <1>3, <1>4, <1>6, <1>7
<1>8. CASE here
  <2>1. Executed(k, w) \cup {r} \subseteq Executed(k, w)' /\ r \notin Executed(k, w)
    BY <1>1, <1>8 DEF Executed, Arrived
  <2>2. E + 1 = Cardinality(Executed(k, w) \cup {r})
    BY <2>1, SetsOfRequests, Counting
  <2>3. E + 1 <= Cardinality(Executed(k, w)')
    BY <2>1, <2>2, SetsOfRequests, Counting
  <2>4. CASE r \in passed' \/ step'[r] = "expire"
    <3>1. Counted(k, w)' \subseteq Counted(k, w) \cup {r} /\ Counted(k, w) \cup {r} \subseteq Requests
      BY SetsOfRequests DEF Counted, Arrived
    <3>2. Cardinality(Counted(k, w) \cup {r}) \in Nat /\ Cardinality(Counted(k, w) \cup {r}) <= C + 1
      BY <1>2, SetsOfRequests, Counting
    <3>3. Cardinality(Counted(k, w)') <= Cardinality(Counted(k, w) \cup {r})
      BY <3>1, Counting
    <3>4. Increment(r) /\ value[k][w] + 1 <= Limit
      BY <2>4, <1>8 DEF K, W
    <3> QED BY <1>1, <1>2, <1>3, <1>5, <1>6, <1>8, <2>3, <3>2, <3>3, <3>4
  <2>5. CASE ~(r \in passed' \/ step'[r] = "expire")
    <3>1. Counted(k, w)' \subseteq Counted(k, w)
      BY <2>5 DEF Counted, Arrived
    <3>2. Cardinality(Counted(k, w)') <= C
      BY <3>1, SetsOfRequests, Counting
    <3> QED BY <1>2, <1>3, <1>4, <1>6, <2>3, <3>2
  <2> QED BY <2>4, <2>5
<1> QED BY <1>7, <1>8

LEMMA StepCounts == ASSUME Control, ExpiresLate, Counts, Next PROVE Counts'
<1>1. ASSUME NEW r \in Requests,
             Arrive(r) \/ Expire(r) \/ Forward(r) \/ Serve(r) \/ Respond(r) \/ ForwardFails(r)
      PROVE  Counts'
  BY <1>1, CalmSteps, CalmKeepsCounts DEF Control
<1>2. CASE Crash
  BY <1>2, CalmSteps, CalmKeepsCounts DEF Control, Crash
<1>3. ASSUME NEW r \in Requests, Incr(r) PROVE Counts'
  <2>1. step[r] = "incr" /\ r \notin passed
    BY <1>3, HasCounter DEF Incr
  <2>2. step' \in [Requests -> Steps]
    BY <1>3, StepControl DEF Control, Types, Next
  <2>3. Increment(r) /\ UNCHANGED <<now, evicted, key, at>>
    BY <1>3 DEF Incr
  <2> DEFINE n == value[key[r]][windowStart(r)]
  <2>4. n \in Nat /\ Limit \in Nat \ {0}
    BY <2>1, HasCounter, TimesAssumption DEF Control, Types
  <2>5. /\ step'[r] \notin {"new", "incr"}
        /\ \A q \in Requests \ {r} : step'[q] = step[q] /\ (q \in passed' <=> q \in passed)
        /\ r \in passed' \/ step'[r] = "expire" => n + 1 <= Limit
    BY <1>3, <2>1, <2>4 DEF Incr, Decide, Goto, Answer, FirstOfWindow, OverLimit, Control, Types
  <2> QED BY <2>1, <2>2, <2>3, <2>5, IncrementKeepsCounts
<1>4. ASSUME NEW r \in Requests, RedisFails(r), step[r] = "incr" PROVE Counts'
  <2>1. r \notin passed
    BY <1>4, HasCounter
  <2>2. step' \in [Requests -> Steps]
    BY <1>4, StepControl DEF Control, Types, Next
  <2>3. /\ value' = value \/ Increment(r)
        /\ UNCHANGED <<now, evicted, key, at, passed>>
        /\ step'[r] = "forward"
        /\ \A q \in Requests \ {r} : step'[q] = step[q]
    BY <1>4 DEF RedisFails, Goto, Control, Types
  <2> QED BY <1>4, <2>1, <2>2, <2>3, IncrementKeepsCounts
<1>5. ASSUME NEW r \in Requests, RedisFails(r), step[r] = "expire" PROVE Counts'
  <2>1. Calm
    BY <1>5, HasCounter DEF Calm, Counted, Executed, Arrived, RedisFails, Goto, Control, Types
  <2> QED BY <2>1, CalmKeepsCounts DEF Control
<1>6. CASE Tick
  <2> SUFFICES ASSUME NEW k \in ApiKeys, NEW w \in Windows
               PROVE  /\ Evicted(k, w)' \/ Over(w)' \/ Cardinality(Counted(k, w)') <= value'[k][w]
                      /\ value'[k][w] <= Cardinality(Executed(k, w)')
                      /\ Evicted(k, w)' \/ Cardinality(Counted(k, w)') <= Limit
    BY DEF Counts, CountsEnough, CountsNoMore, WithinLimit
  <2>1. /\ Counted(k, w)' = Counted(k, w) /\ Executed(k, w)' = Executed(k, w)
        /\ Evicted(k, w)' <=> Evicted(k, w)
    BY <1>6 DEF Tick, Counted, Executed, Arrived, Evicted
  <2>2. Cardinality(Counted(k, w)) \in Nat /\ Cardinality(Executed(k, w)) \in Nat
    BY SetsOfRequests, Counting
  <2>3. now \in Nat /\ now' = now + 1 /\ value[k][w] \in Nat
    BY <1>6, WindowFacts DEF Tick, Control, Types
  <2>4. \/ value'[k][w] = value[k][w]
        \/ value'[k][w] = 0 /\ expires[k][w] # None /\ expires[k][w] <= now'
    BY <1>6 DEF Tick
  <2>5. expires[k][w] # None => expires[k][w] \in Nat /\ expires[k][w] >= WindowEnd(w) + Lag
    BY DEF ExpiresLate, Control, Types
  <2>6. WindowEnd(w) \in Nat /\ Lag \in Nat
    BY WindowEndType, TimesAssumption
  <2>7. Over(w) => Over(w)'
    BY <2>3, <2>6 DEF Over, WindowEnd
  <2>8. value'[k][w] = value[k][w] \/ (value'[k][w] = 0 /\ Over(w)')
    BY <2>3, <2>4, <2>5, <2>6 DEF Over, WindowEnd
  <2> QED BY <2>1, <2>2, <2>3, <2>7, <2>8 DEF Counts, CountsEnough, CountsNoMore, WithinLimit
<1>7. ASSUME NEW j \in ApiKeys, NEW v \in Windows, Evict(j, v) PROVE Counts'
  <2> SUFFICES ASSUME NEW k \in ApiKeys, NEW w \in Windows
               PROVE  /\ Evicted(k, w)' \/ Over(w)' \/ Cardinality(Counted(k, w)') <= value'[k][w]
                      /\ value'[k][w] <= Cardinality(Executed(k, w)')
                      /\ Evicted(k, w)' \/ Cardinality(Counted(k, w)') <= Limit
    BY DEF Counts, CountsEnough, CountsNoMore, WithinLimit
  <2>1. /\ Counted(k, w)' = Counted(k, w) /\ Executed(k, w)' = Executed(k, w)
        /\ Over(w)' <=> Over(w)
    BY <1>7 DEF Evict, Counted, Executed, Arrived, Over, WindowEnd
  <2>2. Cardinality(Executed(k, w)) \in Nat
    BY SetsOfRequests, Counting
  <2>3. CASE k = j /\ w = v
    BY <1>7, <2>1, <2>2, <2>3 DEF Evict, Evicted, Control, Types
  <2>4. CASE ~(k = j /\ w = v)
    <3>1. value'[k][w] = value[k][w] /\ (Evicted(k, w) => Evicted(k, w)')
      BY <1>7, <2>4 DEF Evict, Evicted, Control, Types
    <3> QED BY <2>1, <3>1 DEF Counts, CountsEnough, CountsNoMore, WithinLimit
  <2> QED BY <2>3, <2>4
<1> QED BY <1>1, <1>2, <1>3, <1>4, <1>5, <1>6, <1>7 DEF Next, RedisFails

-----------------------------------------------------------------------------
\* Refusals.

LEMMA ExecutedGrows ==
    ASSUME Control, Next, NEW k \in ApiKeys, NEW w \in Windows
    PROVE  Executed(k, w) \subseteq Executed(k, w)'
<1>1. ASSUME NEW r \in Requests, Incr(r) \/ RedisFails(r) PROVE Executed(k, w) \subseteq Executed(k, w)'
  BY <1>1 DEF Incr, RedisFails, Decide, Goto, Answer, Executed, Arrived, Control, Types
<1>2. ASSUME NEW r \in Requests,
             Arrive(r) \/ Expire(r) \/ Forward(r) \/ Serve(r) \/ Respond(r) \/ ForwardFails(r)
      PROVE  Executed(k, w) \subseteq Executed(k, w)'
  BY <1>2, CalmSteps DEF Calm
<1>3. CASE Crash
  BY <1>3, CalmSteps DEF Calm, Crash
<1>4. CASE Tick \/ \E j \in ApiKeys, v \in Windows : Evict(j, v)
  BY <1>4 DEF Tick, Evict, Executed, Arrived
<1> QED BY <1>1, <1>2, <1>3, <1>4 DEF Next

LEMMA NewRefusal ==
    ASSUME Control, Next, NEW r \in Requests,
           answer'[r] = "RATE_LIMIT_EXCEEDED", answer[r] # "RATE_LIMIT_EXCEEDED"
    PROVE  /\ step[r] = "incr" /\ value[key[r]][windowStart(r)] + 1 > Limit
           /\ key' = key /\ at' = at
<1> USE DEF Control, Types
<1>1. ASSUME NEW q \in Requests, Incr(q) PROVE r = q /\ OverLimit(value[key[r]][windowStart(r)] + 1)
  BY <1>1 DEF Incr, Decide, Goto, Answer
<1>2. ASSUME NEW q \in Requests, Expire(q) PROVE FALSE
  BY <1>2, TimesAssumption DEF Expire, Decide, Goto, Answer, OverLimit
<1>3. ASSUME NEW q \in Requests, Arrive(q) \/ RedisFails(q) \/ Serve(q) \/ Respond(q) PROVE FALSE
  BY <1>3 DEF Arrive, RedisFails, Serve, Respond, Goto, Answer
<1>4. ASSUME NEW q \in Requests, Forward(q) \/ ForwardFails(q) PROVE FALSE
  BY <1>4 DEF Forward, ForwardFails, Goto, Answer, ErrorAnswer
<1>5. ~Crash /\ ~Tick /\ \A k \in ApiKeys, w \in Windows : ~Evict(k, w)
  BY DEF Crash, Tick, Evict
<1> QED BY <1>1, <1>2, <1>3, <1>4, <1>5 DEF Next, Incr, OverLimit

LEMMA RefusedStays ==
    ASSUME Control, Next, NEW r \in Requests, answer[r] = "RATE_LIMIT_EXCEEDED"
    PROVE  key'[r] = key[r] /\ at'[r] = at[r]
<1>1. step[r] = "done"
  BY NoneAssumption DEF Control, StepsMatch, Answers
<1> QED BY <1>1 DEF Next, Arrive, Incr, Expire, RedisFails, Forward, Serve, Respond, ForwardFails,
        Crash, Tick, Evict, Control, Types

LEMMA StepRefused ==
    ASSUME Control, Counts, RefusedOnlyOverLimit, Next PROVE RefusedOnlyOverLimit'
<1> SUFFICES ASSUME NEW r \in Requests, answer'[r] = "RATE_LIMIT_EXCEEDED"
             PROVE  Cardinality((Executed(key[r], WindowOf(at[r])) \ {r})') >= Limit
  BY DEF RefusedOnlyOverLimit, Executed
<1>1. key'[r] = key[r] /\ at'[r] = at[r]
  BY NewRefusal, RefusedStays
<1>2. key[r] \in ApiKeys /\ WindowOf(at[r]) \in Windows
  <2>1. key[r] \in ApiKeys
    BY NewRefusal, HasCounter DEF Control, StepsMatch
  <2>2. at[r] \in Times
    BY DEF Control, Types
  <2> QED BY <2>1, <2>2, WindowFacts
<1>3. PICK k \in ApiKeys, w \in Windows : k = key[r] /\ w = WindowOf(at[r])
  BY <1>2
<1>4. Executed(k, w) \subseteq Executed(k, w)'
  BY ExecutedGrows
<1>5. Cardinality(Executed(k, w) \ {r}) >= Limit
  <2>1. CASE answer[r] = "RATE_LIMIT_EXCEEDED"
    BY <1>3, <2>1 DEF RefusedOnlyOverLimit, Executed
  <2>2. CASE answer[r] # "RATE_LIMIT_EXCEEDED"
    <3>1. step[r] = "incr" /\ value[k][w] + 1 > Limit
      BY <1>3, <2>2, NewRefusal DEF windowStart
    <3>2. Executed(k, w) \ {r} = Executed(k, w)
      BY <3>1 DEF Executed
    <3>3. value[k][w] <= Cardinality(Executed(k, w)) /\ value[k][w] \in Nat
      BY DEF Counts, CountsNoMore, Control, Types
    <3>4. Cardinality(Executed(k, w)) \in Nat
      BY SetsOfRequests, Counting
    <3> QED BY <3>1, <3>2, <3>3, <3>4, TimesAssumption
  <2> QED BY <2>1, <2>2
<1> DEFINE before == Executed(k, w) \ {r}
           after == Executed(k, w)' \ {r}
<1>6. before \subseteq after /\ after \in SUBSET Requests
  BY <1>4, SetsOfRequests
<1>7. Cardinality(before) <= Cardinality(after) /\ Cardinality(before) \in Nat /\ Cardinality(after) \in Nat
  <2> HIDE DEF before, after
  <2> QED BY <1>6, Counting
<1>8. (Executed(key[r], WindowOf(at[r])) \ {r})' = after
  BY <1>1, <1>3 DEF Executed, Arrived, WindowOf
<1> QED BY <1>5, <1>7, <1>8, TimesAssumption

-----------------------------------------------------------------------------
\* Counters that stay, and what 503 means.

\* A request that owes its counter a time to live, or lost it.
Owes(r) ==
    \/ step[r] = "expire"
    \/ step[r] # "incr" /\ r \notin passed /\ answer[r] # "RATE_LIMIT_EXCEEDED"

\* A debt is paid by its debtor only, or expires with the counter.
LEMMA DebtStays ==
    ASSUME Control, Next, NEW k \in ApiKeys, NEW w \in Windows,
           value'[k][w] > 0, expires'[k][w] = None,
           NEW r \in Arrived(k, w), Owes(r)
    PROVE  r \in Arrived(k, w)' /\ Owes(r)'
<1> USE DEF Control, Types, Owes, Arrived
<1>1. ASSUME NEW q \in Requests, Arrive(q) PROVE r \in Arrived(k, w)' /\ Owes(r)'
  BY <1>1 DEF Arrive, Goto, Answer
<1>2. ASSUME NEW q \in Requests, Incr(q) PROVE r \in Arrived(k, w)' /\ Owes(r)'
  BY <1>2 DEF Incr, Decide, Goto, Answer
<1>3. ASSUME NEW q \in Requests, Expire(q) PROVE r \in Arrived(k, w)' /\ Owes(r)'
  <2>1. CASE q = r
    <3>1. k = key[r] /\ w = windowStart(r) /\ now + TTL \in Nat
      BY <2>1, TimesAssumption DEF windowStart, TTL, Times
    <3>2. expires'[k][w] = now + TTL
      BY <1>3, <2>1, <3>1, NoneAssumption DEF Expire, SetExpiry
    <3> QED BY <3>1, <3>2, NoneAssumption
  <2>2. CASE q # r
    BY <1>3, <2>2 DEF Expire, Decide, Goto, Answer
  <2> QED BY <2>1, <2>2
<1>4. ASSUME NEW q \in Requests, RedisFails(q) PROVE r \in Arrived(k, w)' /\ Owes(r)'
  BY <1>4, HasCounter, NoneAssumption DEF RedisFails, Goto, StepsMatch, Answers
<1>5. ASSUME NEW q \in Requests, Forward(q) \/ Serve(q) \/ Respond(q) \/ ForwardFails(q)
      PROVE  r \in Arrived(k, w)' /\ Owes(r)'
  BY <1>5 DEF Forward, Serve, Respond, ForwardFails, Goto, Answer, ErrorAnswer
<1>6. CASE Crash
  BY <1>6, HasCounter DEF Crash, Waiting
<1>7. CASE Tick \/ \E j \in ApiKeys, v \in Windows : Evict(j, v)
  BY <1>7 DEF Tick, Evict
<1> QED BY <1>1, <1>2, <1>3, <1>4, <1>5, <1>6, <1>7 DEF Next

\* Who starts a counter owes it a time to live.
LEMMA DebtStarts ==
    ASSUME Control, Next, NEW k \in ApiKeys, NEW w \in Windows,
           value[k][w] = 0, value'[k][w] > 0
    PROVE  \E r \in Arrived(k, w)' : Owes(r)'
<1> USE DEF Control, Types
<1>1. PICK r \in Requests : step[r] = "incr" /\ Increment(r) /\ (Incr(r) \/ RedisFails(r))
  BY DEF Next, Arrive, Incr, Expire, RedisFails, Forward, Serve, Respond, ForwardFails, Crash, Tick, Evict,
     redis
<1>2. /\ key[r] \in ApiKeys /\ windowStart(r) \in Windows
      /\ r \in Arrived(key[r], windowStart(r)) /\ r \notin passed
  BY <1>1, HasCounter
<1>3. k = key[r] /\ w = windowStart(r)
  BY <1>1, <1>2 DEF Increment
<1>4. step'[r] \notin {"new", "incr"} /\ key'[r] = key[r] /\ at'[r] = at[r]
  BY <1>1 DEF Incr, RedisFails, Decide, Goto, Answer
<1>5. r \in Arrived(k, w)'
  BY <1>2, <1>3, <1>4 DEF Arrived, windowStart, WindowOf
<1>6. Owes(r)'
  <2>1. CASE Incr(r)
    BY <1>1, <1>3, <2>1 DEF Incr, FirstOfWindow, Goto, Owes
  <2>2. CASE RedisFails(r)
    BY <1>1, <1>2, <2>2, NoneAssumption DEF RedisFails, Goto, Owes, StepsMatch, Answers
  <2> QED BY <1>1, <2>1, <2>2
<1> QED BY <1>5, <1>6

LEMMA StepCountersExpire ==
    ASSUME Control, CountersExpire, Next PROVE CountersExpire'
<1> SUFFICES ASSUME NEW k \in ApiKeys, NEW w \in Windows,
                    value'[k][w] > 0, expires'[k][w] = None
             PROVE  \E r \in Arrived(k, w)' : Owes(r)'
  BY DEF CountersExpire, Owes
<1>1. value[k][w] \in Nat
  BY DEF Control, Types
<1>2. CASE value[k][w] = 0
  BY <1>2, DebtStarts
<1>3. CASE value[k][w] > 0
  <2>1. expires[k][w] = None
    <3>1. CASE Tick
      BY <3>1 DEF Tick
    <3>2. ASSUME NEW r \in Requests, SetExpiry(r), step[r] = "expire" PROVE expires[k][w] = None
      <4>1. now + TTL \in Nat
        BY TimesAssumption DEF TTL, Times, Control, Types
      <4> QED BY <3>2, <4>1, HasCounter, NoneAssumption DEF SetExpiry, Control, Types
    <3>3. CASE UNCHANGED expires
      BY <3>3
    <3>4. ASSUME NEW j \in ApiKeys, NEW v \in Windows, Evict(j, v) PROVE expires[k][w] = None
      BY <1>3, <3>4 DEF Evict, Control, Types
    <3> QED BY <3>1, <3>2, <3>3, <3>4 DEF Next, Arrive, Incr, Expire, RedisFails, Forward, Serve, Respond,
            ForwardFails, Crash, redis
  <2>2. PICK r \in Arrived(k, w) : Owes(r)
    BY <1>3, <2>1 DEF CountersExpire, Owes
  <2> QED BY <2>2, DebtStays
<1> QED BY <1>1, <1>2, <1>3

LEMMA StepUnavailable ==
    ASSUME Control, UnavailableIsNotExecuted, Next PROVE UnavailableIsNotExecuted'
<1> USE DEF UnavailableIsNotExecuted, Control, Types
<1>1. ASSUME NEW r \in Requests, Arrive(r) \/ RedisFails(r) PROVE UnavailableIsNotExecuted'
  BY <1>1 DEF Arrive, RedisFails, Goto, Answer
<1>2. ASSUME NEW r \in Requests, Incr(r) \/ Expire(r) PROVE UnavailableIsNotExecuted'
  BY <1>2 DEF Incr, Expire, Decide, Goto, Answer
<1>3. ASSUME NEW r \in Requests, Forward(r) PROVE UnavailableIsNotExecuted'
  BY <1>3, NoneAssumption DEF Forward, Goto, Answer, ErrorAnswer, StepsMatch, Answers
<1>4. ASSUME NEW r \in Requests, Serve(r) \/ Respond(r) \/ ForwardFails(r)
      PROVE  UnavailableIsNotExecuted'
  BY <1>4 DEF Serve, Respond, ForwardFails, Answer, ErrorAnswer
<1>5. CASE Crash \/ Tick \/ \E k \in ApiKeys, w \in Windows : Evict(k, w)
  BY <1>5 DEF Crash, Tick, Evict
<1> QED BY <1>1, <1>2, <1>3, <1>4, <1>5 DEF Next

-----------------------------------------------------------------------------
\* The invariant.

LEMMA InitIInv == Init => IInv
<1> SUFFICES ASSUME Init PROVE IInv
  OBVIOUS
<1>1. Control
  BY InitControl
<1>2. ExpiresLate /\ CountersExpire
  BY DEF Init, ExpiresLate, CountersExpire
<1>3. RefusedOnlyOverLimit /\ UnavailableIsNotExecuted
  BY NoneAssumption DEF Init, RefusedOnlyOverLimit, UnavailableIsNotExecuted, Answers
<1>4. \A k \in ApiKeys, w \in Windows : Counted(k, w) = {} /\ Executed(k, w) = {} /\ value[k][w] = 0
  BY NoneAssumption DEF Init, Counted, Executed, Arrived
<1>5. CountsEnough /\ CountsNoMore /\ WithinLimit
  <2>1. Cardinality({}) = 0 /\ Limit \in Nat
    BY FS_EmptySet, TimesAssumption
  <2>2. ASSUME NEW k \in ApiKeys, NEW w \in Windows
        PROVE  /\ Cardinality(Counted(k, w)) = 0 /\ Cardinality(Executed(k, w)) = 0
               /\ value[k][w] = 0
    BY <1>4, <2>1, Zenon
  <2> QED BY <2>1, <2>2 DEF CountsEnough, CountsNoMore, WithinLimit
<1> QED BY <1>1, <1>2, <1>3, <1>5 DEF IInv

LEMMA StepIInv == IInv /\ [Next]_vars => IInv'
<1> SUFFICES ASSUME IInv, [Next]_vars PROVE IInv'
  OBVIOUS
<1>1. CASE Next
  BY <1>1, StepControl, StepExpiresLate, StepCounts, StepRefused, StepCountersExpire, StepUnavailable
     DEF IInv, Counts
<1>2. CASE UNCHANGED vars
  <2> USE <1>2 DEF vars, redis
  <2>1. Control'
    BY DEF IInv, Control, Types, StepsMatch, Timely, Waiting
  <2>2. ExpiresLate' /\ CountersExpire' /\ UnavailableIsNotExecuted'
    BY DEF IInv, ExpiresLate, WindowEnd, CountersExpire, UnavailableIsNotExecuted, Arrived
  <2>3. RefusedOnlyOverLimit'
    BY DEF IInv, RefusedOnlyOverLimit, Arrived, WindowOf
  <2>4. Calm
    BY DEF Calm, Counted, Executed, Arrived
  <2>5. Counts'
    BY <2>4, CalmKeepsCounts DEF IInv, Counts, Control
  <2> QED BY <2>1, <2>2, <2>3, <2>5 DEF IInv, Counts
<1> QED BY <1>1, <1>2

LEMMA Invariance == Spec => []IInv
BY InitIInv, StepIInv, PTL DEF Spec

-----------------------------------------------------------------------------
\* Every variable keeps its domain; a counter never exceeds the number of
\* requests (rateLimiter, forwardRequest).
THEOREM GatewayTypes == Spec => []TypeOK
<1>1. IInv => TypeOK
  <2> SUFFICES ASSUME IInv PROVE TypeOK
    OBVIOUS
  <2>1. ASSUME NEW k \in ApiKeys, NEW w \in Windows
        PROVE  value[k][w] \in 0 .. Cardinality(Requests)
    <3>1. value[k][w] \in Nat /\ value[k][w] <= Cardinality(Executed(k, w))
      BY DEF IInv, Control, Types, CountsNoMore
    <3>2. /\ Cardinality(Executed(k, w)) \in Nat /\ Cardinality(Requests) \in Nat
          /\ Cardinality(Executed(k, w)) <= Cardinality(Requests)
      BY SetsOfRequests, Counting
    <3> QED BY <3>1, <3>2
  <2>2. value \in [ApiKeys -> [Windows -> 0 .. Cardinality(Requests)]]
    BY <2>1 DEF IInv, Control, Types
  <2> QED BY <2>2 DEF TypeOK, IInv, Control, Types
<1> QED BY <1>1, Invariance, PTL

\* The limit holds for every window whose counter Redis did not evict, however
\* late Redis executes commands and whatever else fails (rateLimiter).
THEOREM LimitHolds == Spec => []LimitPerWindow
<1>1. IInv => LimitPerWindow
  <2> SUFFICES ASSUME IInv, NEW k \in ApiKeys, NEW w \in Windows
               PROVE  <<k, w>> \in evicted \/ Cardinality(Arrived(k, w) \cap passed) <= Limit
    BY DEF LimitPerWindow
  <2>1. Arrived(k, w) \cap passed \subseteq Counted(k, w)
    BY DEF Counted
  <2>2. /\ Cardinality(Arrived(k, w) \cap passed) <= Cardinality(Counted(k, w))
        /\ Cardinality(Arrived(k, w) \cap passed) \in Nat /\ Cardinality(Counted(k, w)) \in Nat
    BY <2>1, SetsOfRequests, Counting
  <2> QED BY <2>2, TimesAssumption DEF IInv, WithinLimit, Evicted
<1> QED BY <1>1, Invariance, PTL

\* Nobody is refused before others used the limit up (rateLimiter).
THEOREM RefusalsAreDue == Spec => []RefusedOnlyOverLimit
<1>1. IInv => RefusedOnlyOverLimit
  BY DEF IInv
<1> QED BY <1>1, Invariance, PTL

\* A counter stays for ever only if its EXPIRE was lost (rateLimiter).
THEOREM CountersDoExpire == Spec => []CountersExpire
<1>1. IInv => CountersExpire
  BY DEF IInv
<1> QED BY <1>1, Invariance, PTL

\* 503 means that the service was not reached (forwardRequest, errorHandler).
THEOREM UnavailableMeansNotExecuted == Spec => []UnavailableIsNotExecuted
<1>1. IInv => UnavailableIsNotExecuted
  BY DEF IInv
<1> QED BY <1>1, Invariance, PTL
=============================================================================
