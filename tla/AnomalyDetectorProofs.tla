------------------------ MODULE AnomalyDetectorProofs ------------------------
(***************************************************************************)
(* Proofs about AnomalyDetector, for any number of payments and amounts    *)
(* and any limits and windows.                                             *)
(***************************************************************************)
EXTENDS AnomalyDetector, FiniteSetTheorems, TLAPS

Types ==
    /\ now \in Nat
    /\ list \in [Lists -> SUBSET Payments]
    /\ expires \in [Lists -> Nat \cup {None}]
    /\ amount \in [Payments -> Amounts \cup {None}]
    /\ step \in [Payments -> {"new", "lrange", "rpush", "expire", "done"}]
    /\ asOf \in [Payments -> Nat]
    /\ stamp \in [Payments -> Nat]
    /\ flags \in [Payments -> SUBSET (Lists \cup {"LARGE_AMOUNT"})]
    /\ unread \in [Payments -> SUBSET Lists]
    /\ kept \subseteq Payments \X Lists

\* A payment that has begun has its amount, and its clocks are not ahead.
Begun ==
    \A p \in Payments :
        /\ step[p] # "new" => amount[p] \in Amounts
        /\ step[p] \in {"new", "lrange"} => flags[p] = {}
        /\ stamp[p] <= now

\* Only payments past their RPUSH are in a list, and in their own lists.
Entered ==
    \A k \in Lists : \A q \in list[k] : step[q] \in {"expire", "done"} /\ k \in ListsOf(q)

\* A list with an entry in `kept` lives two windows from that entry.
KeptLives ==
    \A q \in Payments, k \in Lists : <<q, k>> \in kept =>
        /\ q \in list[k]
        /\ expires[k] \in Nat /\ expires[k] >= stamp[q] + TTL(k)

IInv == Types /\ Begun /\ Entered /\ KeptLives /\ FlaggedForCause

-----------------------------------------------------------------------------
LEMMA ListFacts ==
    /\ "velocity" \in Lists /\ "LARGE_AMOUNT" \notin Lists
    /\ \A k \in Lists : /\ Window(k) \in Nat \ {0} /\ Limit(k) \in Nat \ {0}
                        /\ TTL(k) \in Nat /\ TTL(k) >= Window(k) + Lag
    /\ Lag \in Nat
BY WindowsAssumption, NamesAssumption DEF Lists, TTL

LEMMA ListsOfType ==
    ASSUME NEW p \in Payments, Types, Begun, step[p] # "new"
    PROVE  ListsOf(p) \subseteq Lists
BY DEF ListsOf, Lists, Begun

LEMMA Counting ==
    ASSUME NEW S \in SUBSET Payments, NEW T \in SUBSET S
    PROVE  /\ Cardinality(S) \in Nat /\ Cardinality(T) \in Nat
           /\ Cardinality(T) <= Cardinality(S)
<1>1. IsFiniteSet(S)
  BY PaymentsAssumption, FS_Subset
<1> QED BY <1>1, FS_Subset, FS_CardinalityType

-----------------------------------------------------------------------------
\* The invariant, one part at a time.

LEMMA InitIInv == Init => IInv
<1> SUFFICES ASSUME Init PROVE IInv
  OBVIOUS
<1>1. Types /\ Entered /\ KeptLives
  BY DEF Init, Types, Entered, KeptLives
<1>2. Begun
  BY DEF Init, Begun
<1>3. FlaggedForCause
  BY DEF Init, FlaggedForCause
<1> QED BY <1>1, <1>2, <1>3 DEF IInv

LEMMA StepTypes == ASSUME Types, Begun, Next PROVE Types'
<1> USE DEF Types
<1>1. ASSUME NEW p \in Payments, Check(p) PROVE Types'
  BY <1>1 DEF Check, Goto
<1>2. ASSUME NEW p \in Payments, Record(p) PROVE Types'
  <2>1. ListsOf(p) \subseteq Lists
    BY <1>2, ListsOfType DEF Record
  <2>2. flags' \in [Payments -> SUBSET (Lists \cup {"LARGE_AMOUNT"})]
        /\ unread' \in [Payments -> SUBSET Lists]
    BY <1>2, <2>1 DEF Record, Large
  <2>3. stamp' \in [Payments -> Nat]
        /\ step' \in [Payments -> {"new", "lrange", "rpush", "expire", "done"}]
    BY <1>2 DEF Record, Goto
  <2> QED BY <1>2, <2>2, <2>3 DEF Record
<1>3. ASSUME NEW p \in Payments, Rpush(p) PROVE Types'
  <2>1. ListsOf(p) \subseteq Lists
    BY <1>3, ListsOfType DEF Rpush
  <2>2. list' \in [Lists -> SUBSET Payments]
    BY <1>3, <2>1 DEF Rpush
  <2> QED BY <1>3, <2>2 DEF Rpush, Goto, Forget
<1>4. ASSUME NEW p \in Payments, Expire(p) PROVE Types'
  <2>0. ListsOf(p) \subseteq Lists
    BY <1>4, ListsOfType DEF Expire
  <2>1. PICK done \in SUBSET {k \in ListsOf(p) : list[k] # {}} :
          /\ expires' = [k \in Lists |-> IF k \in done THEN now + TTL(k) ELSE expires[k]]
          /\ kept' = kept \cup {<<p, k>> : k \in {l \in done : p \in list[l]}}
    BY <1>4 DEF Expire
  <2>2. expires' \in [Lists -> Nat \cup {None}]
    BY <2>1, ListFacts
  <2>3. kept' \subseteq Payments \X Lists
    BY <2>0, <2>1
  <2> QED BY <1>4, <2>2, <2>3 DEF Expire, Goto
<1>5. CASE Crash
  BY <1>5 DEF Crash, Forget
<1>6. CASE Tick
  BY <1>6 DEF Tick
<1>7. ASSUME NEW k \in Lists, Evict(k) PROVE Types'
  BY <1>7 DEF Evict
<1> QED BY <1>1, <1>2, <1>3, <1>4, <1>5, <1>6, <1>7 DEF Next

LEMMA StepBegun == ASSUME Types, Begun, Next PROVE Begun'
<1> USE DEF Begun, Types, ListsOf
<1>1. ASSUME NEW p \in Payments, Check(p) PROVE Begun'
  BY <1>1 DEF Check, Goto
<1>2. ASSUME NEW p \in Payments, Record(p) PROVE Begun'
  BY <1>2 DEF Record, Goto
<1>3. ASSUME NEW p \in Payments, Rpush(p) PROVE Begun'
  BY <1>3 DEF Rpush, Goto, Forget
<1>4. ASSUME NEW p \in Payments, Expire(p) PROVE Begun'
  BY <1>4 DEF Expire, Goto
<1>5. CASE Crash
  BY <1>5 DEF Crash, Forget
<1>6. CASE Tick
  BY <1>6 DEF Tick
<1>7. ASSUME NEW k \in Lists, Evict(k) PROVE Begun'
  BY <1>7 DEF Evict
<1> QED BY <1>1, <1>2, <1>3, <1>4, <1>5, <1>6, <1>7 DEF Next

LEMMA StepEntered == ASSUME Types, Begun, Entered, Next PROVE Entered'
<1> USE DEF Entered, Types, ListsOf
<1>1. ASSUME NEW p \in Payments, Check(p) PROVE Entered'
  BY <1>1 DEF Check, Goto
<1>2. ASSUME NEW p \in Payments, Record(p) PROVE Entered'
  BY <1>2 DEF Record, Goto
<1>3. ASSUME NEW p \in Payments, Rpush(p) PROVE Entered'
  <2>1. /\ step'[p] \in {"expire", "done"}
        /\ \A q \in Payments \ {p} : step'[q] = step[q]
    BY <1>3 DEF Rpush, Goto
  <2>2. \A k \in Lists :
            \/ list'[k] = list[k]
            \/ k \in ListsOf(p) /\ list'[k] = list[k] \cup {p}
    <3>1. PICK done \in SUBSET ListsOf(p) :
            list' = [l \in Lists |-> IF l \in done THEN list[l] \cup {p} ELSE list[l]]
      BY <1>3 DEF Rpush
    <3> QED BY <3>1
  <2>3. ASSUME NEW k \in Lists, NEW q \in list'[k]
        PROVE  step'[q] \in {"expire", "done"} /\ k \in ListsOf(q)
    BY <2>1, <2>2, <2>3
  <2>4. amount' = amount
    BY <1>3 DEF Rpush
  <2> QED BY <2>3, <2>4
<1>4. ASSUME NEW p \in Payments, Expire(p) PROVE Entered'
  BY <1>4 DEF Expire, Goto
<1>5. CASE Crash
  BY <1>5 DEF Crash
<1>6. CASE Tick
  BY <1>6 DEF Tick
<1>7. ASSUME NEW k \in Lists, Evict(k) PROVE Entered'
  BY <1>7 DEF Evict
<1> QED BY <1>1, <1>2, <1>3, <1>4, <1>5, <1>6, <1>7 DEF Next

LEMMA StepKeptLives == ASSUME Types, Begun, Entered, KeptLives, Next PROVE KeptLives'
<1> USE DEF KeptLives, Types
<1>1. ASSUME NEW p \in Payments, Check(p) PROVE KeptLives'
  BY <1>1 DEF Check, TTL, Window
<1>2. ASSUME NEW p \in Payments, Record(p) PROVE KeptLives'
  <2>1. \A k \in Lists : p \notin list[k]
    BY <1>2 DEF Record, Entered
  <2> QED BY <1>2, <2>1 DEF Record, TTL, Window
<1>3. ASSUME NEW p \in Payments, Rpush(p) PROVE KeptLives'
  BY <1>3 DEF Rpush, TTL, Window
<1>4. ASSUME NEW p \in Payments, Expire(p) PROVE KeptLives'
  <2>1. PICK done \in SUBSET {k \in ListsOf(p) : list[k] # {}} :
          /\ expires' = [k \in Lists |-> IF k \in done THEN now + TTL(k) ELSE expires[k]]
          /\ kept' = kept \cup {<<p, k>> : k \in {l \in done : p \in list[l]}}
    BY <1>4 DEF Expire
  <2>2. UNCHANGED <<list, stamp>>
    BY <1>4 DEF Expire
  <2>3. ASSUME NEW q \in Payments, NEW k \in Lists, <<q, k>> \in kept'
        PROVE  q \in list[k] /\ expires'[k] \in Nat /\ expires'[k] >= stamp[q] + TTL(k)
    <3>1. now \in Nat /\ stamp[q] \in Nat /\ stamp[q] <= now /\ TTL(k) \in Nat
      BY ListFacts DEF Begun
    <3>2. CASE k \in done
      <4>1. expires'[k] = now + TTL(k)
        BY <2>1, <3>2
      <4>2. q \in list[k]
        BY <2>1, <2>3
      <4> QED BY <3>1, <4>1, <4>2
    <3>3. CASE k \notin done
      <4>1. <<q, k>> \in kept /\ expires'[k] = expires[k]
        BY <2>1, <2>3, <3>3
      <4> QED BY <4>1
    <3> QED BY <3>2, <3>3
  <2> QED BY <2>2, <2>3 DEF TTL, Window
<1>5. CASE Crash
  BY <1>5 DEF Crash, TTL, Window
<1>6. CASE Tick
  <2> DEFINE Due(k) == expires[k] # None /\ expires[k] <= now'
  <2>1. /\ list' = [k \in Lists |-> IF Due(k) THEN {} ELSE list[k]]
        /\ expires' = [k \in Lists |-> IF Due(k) THEN None ELSE expires[k]]
        /\ kept' = {e \in kept : now' - stamp[e[1]] < Window(e[2]) + Lag}
        /\ now' = now + 1 /\ stamp' = stamp
    BY <1>6 DEF Tick
  <2>2. ASSUME NEW q \in Payments, NEW k \in Lists, <<q, k>> \in kept'
        PROVE  /\ q \in list'[k]
               /\ expires'[k] \in Nat /\ expires'[k] >= stamp[q] + TTL(k)
    <3>1. <<q, k>> \in kept /\ now' - stamp[q] < Window(k) + Lag
      BY <2>1, <2>2
    <3>2. q \in list[k] /\ expires[k] \in Nat /\ expires[k] >= stamp[q] + TTL(k)
      BY <3>1
    <3>3. /\ now' \in Nat /\ stamp[q] \in Nat /\ Window(k) \in Nat /\ Lag \in Nat
          /\ TTL(k) \in Nat /\ TTL(k) >= Window(k) + Lag
      BY <2>1, ListFacts
    <3>4. ~Due(k)
      BY <3>1, <3>2, <3>3
    <3> QED BY <2>1, <3>2, <3>4
  <2> QED BY <2>1, <2>2 DEF TTL, Window
<1>7. ASSUME NEW k \in Lists, Evict(k) PROVE KeptLives'
  BY <1>7 DEF Evict, TTL, Window
<1> QED BY <1>1, <1>2, <1>3, <1>4, <1>5, <1>6, <1>7 DEF Next

\* The payments that justify a flag k of p.
Cause(p, k) ==
    {q \in Payments \ {p} :
        step[q] # "new" /\ k \in ListsOf(q) /\ asOf[p] - stamp[q] < Window(k)}

\* What justifies a flag is not lost while the flag stands.
Justified(p, k) == Cardinality(Cause(p, k)) >= Limit(k)

LEMMA CauseGrows ==
    ASSUME Types, Types', NEW p \in Payments, NEW k \in Lists, Justified(p, k),
           asOf'[p] = asOf[p],
           \A q \in Payments : /\ stamp'[q] >= stamp[q]
                               /\ step[q] # "new" => step'[q] # "new" /\ amount'[q] = amount[q]
    PROVE  Justified(p, k)'
<1>1. Cause(p, k) \in SUBSET Cause(p, k)' /\ Cause(p, k)' \in SUBSET Payments
  BY ListFacts DEF Cause, ListsOf, Types, Window
<1>2. Limit(k) \in Nat /\ Limit(k)' = Limit(k)
  BY ListFacts DEF Limit
<1> DEFINE A == Cause(p, k)
           B == Cause(p, k)'
<1>3. Cardinality(A) \in Nat /\ Cardinality(B) \in Nat /\ Cardinality(A) <= Cardinality(B)
  <2> HIDE DEF A, B
  <2> QED BY <1>1, Counting DEF A, B
<1> QED BY <1>2, <1>3 DEF Justified

\* Every flag justifies itself when it is raised: what the check read are
\* other payments.
LEMMA RaisedForCause ==
    ASSUME Types, Begun, Entered, NEW p \in Payments, Record(p),
           NEW k \in Lists, k \in flags'[p]
    PROVE  Justified(p, k)
<1>1. k \in ListsOf(p) /\ LimitReached(p, k)
  BY ListFacts DEF Record, Large, Types
<1>2. Recent(p, k) \in SUBSET Cause(p, k) /\ Cause(p, k) \in SUBSET Payments
  BY DEF Recent, Cause, Entered, Types, Record
<1>3. Limit(k) \in Nat
  BY ListFacts
<1> QED BY <1>1, <1>2, <1>3, Counting DEF LimitReached, Justified

LEMMA StepCause ==
    ASSUME Types, Types', Begun, Entered, FlaggedForCause, Next PROVE FlaggedForCause'
<1>1. \A p \in Payments, k \in Lists : k \in flags[p] => Justified(p, k)
  BY DEF FlaggedForCause, Justified, Cause
<1>2. ASSUME NEW p \in Payments, NEW k \in Lists, k \in flags'[p] PROVE Justified(p, k)'
  <2>1. \A q \in Payments : /\ stamp'[q] >= stamp[q]
                            /\ step[q] # "new" => step'[q] # "new" /\ amount'[q] = amount[q]
    <3>1. ASSUME NEW q \in Payments PROVE stamp'[q] >= stamp[q]
      <4>1. stamp' = stamp \/ \E r \in Payments : stamp' = [stamp EXCEPT ![r] = now]
        BY DEF Next, Check, Record, Rpush, Expire, Evict, Crash, Tick
      <4> QED BY <4>1 DEF Begun, Types
    <3>2. ASSUME NEW q \in Payments, step[q] # "new"
          PROVE  step'[q] # "new" /\ amount'[q] = amount[q]
      <4>1. \/ amount' = amount
            \/ \E r \in Payments, a \in Amounts : step[r] = "new" /\ amount' = [amount EXCEPT ![r] = a]
        BY DEF Next, Check, Record, Rpush, Expire, Evict, Crash, Tick
      <4>2. amount'[q] = amount[q]
        BY <3>2, <4>1 DEF Types
      <4>3. \/ step' = step \/ Crash
            \/ \E r \in Payments, n \in {"lrange", "rpush", "expire", "done"} : Goto(r, n)
        BY DEF Next, Check, Record, Rpush, Expire, Evict, Tick
      <4>4. step'[q] # "new"
        BY <3>2, <4>3 DEF Crash, Goto, Types
      <4> QED BY <4>2, <4>4
    <3> QED BY <3>1, <3>2
  <2>2. asOf'[p] = asOf[p] /\ (k \in flags[p] \/ Record(p))
    <3>1. ASSUME NEW q \in Payments, Check(q) PROVE <2>2!1 /\ <2>2!2
      BY <1>2, <3>1 DEF Check, Begun, Types
    <3>2. ASSUME NEW q \in Payments, Record(q) PROVE <2>2!1 /\ <2>2!2
      <4>1. asOf' = asOf /\ (q # p => flags'[p] = flags[p])
        BY <3>2 DEF Record, Types
      <4> QED BY <1>2, <3>2, <4>1
    <3>3. ASSUME NEW q \in Payments, Rpush(q) PROVE <2>2!1 /\ <2>2!2
      BY <1>2, <3>3 DEF Rpush, Forget, Types
    <3>4. ASSUME NEW q \in Payments, Expire(q) PROVE <2>2!1 /\ <2>2!2
      BY <1>2, <3>4 DEF Expire
    <3>5. CASE Crash
      BY <1>2, <3>5 DEF Crash, Forget
    <3>6. CASE Tick
      BY <1>2, <3>6 DEF Tick
    <3>7. ASSUME NEW l \in Lists, Evict(l) PROVE <2>2!1 /\ <2>2!2
      BY <1>2, <3>7 DEF Evict
    <3> QED BY <3>1, <3>2, <3>3, <3>4, <3>5, <3>6, <3>7 DEF Next
  <2>3. Justified(p, k)
    BY <1>1, <1>2, <2>2, RaisedForCause
  <2> QED BY <2>1, <2>2, <2>3, CauseGrows
<1> QED BY <1>2 DEF FlaggedForCause, Justified, Cause

LEMMA StepIInv == IInv /\ [Next]_vars => IInv'
<1> SUFFICES ASSUME IInv, [Next]_vars PROVE IInv'
  OBVIOUS
<1>1. CASE Next
  BY <1>1, StepTypes, StepBegun, StepEntered, StepKeptLives, StepCause DEF IInv
<1>2. CASE UNCHANGED vars
  <2>1. UNCHANGED <<now, list, expires, amount, step, asOf, stamp, flags, unread, kept>>
    BY <1>2 DEF vars
  <2>2. Types' /\ Begun' /\ Entered' /\ KeptLives'
    BY <2>1 DEF IInv, Types, Begun, Entered, KeptLives, ListsOf, TTL, Window
  <2>3. FlaggedForCause'
    BY <2>1 DEF IInv, FlaggedForCause, ListsOf, Window, Limit
  <2> QED BY <2>2, <2>3 DEF IInv
<1> QED BY <1>1, <1>2

LEMMA Invariance == Spec => []IInv
BY InitIInv, StepIInv, PTL DEF Spec

-----------------------------------------------------------------------------
\* No payment is flagged without a cause (_checkVelocity,
\* _checkDuplicateAmount).
THEOREM FlagsHaveCauses == Spec => []FlaggedForCause
<1>1. IInv => FlaggedForCause
  BY DEF IInv
<1> QED BY <1>1, Invariance, PTL

\* A check that can read a list counts every payment of the window that was
\* recorded completely, unless Redis has evicted the list since: it has not
\* expired (_redisRpush).
THEOREM RecordedAreCounted == Spec => RecordedAreSeen
<1>1. ASSUME IInv, [Next]_vars
      PROVE  [\A p \in Payments, k \in Lists :
                 /\ step[p] = "lrange" /\ step'[p] = "rpush"
                 /\ k \in ListsOf(p) \ unread'[p]
                 /\ Cardinality({q \in Payments :
                        <<q, k>> \in kept /\ asOf[p] - stamp[q] < Window(k)}) >= Limit(k)
                 => k \in flags'[p]]_vars
  <2> SUFFICES ASSUME Next, NEW p \in Payments, NEW k \in Lists,
                      step[p] = "lrange", step'[p] = "rpush", k \in ListsOf(p) \ unread'[p],
                      Cardinality({q \in Payments :
                          <<q, k>> \in kept /\ asOf[p] - stamp[q] < Window(k)}) >= Limit(k)
               PROVE  k \in flags'[p]
    BY <1>1
  <2>1. Types
    BY <1>1 DEF IInv
  <2>2. Record(p)
    <3>1. ASSUME NEW q \in Payments, Check(q) \/ Rpush(q) \/ Expire(q) PROVE FALSE
      BY <2>1, <3>1 DEF Check, Rpush, Expire, Goto, Types
    <3>2. ASSUME NEW q \in Payments, Record(q) PROVE q = p
      BY <2>1, <3>2 DEF Record, Goto, Types
    <3>3. ~Crash /\ ~Tick /\ \A l \in Lists : ~Evict(l)
      BY DEF Crash, Tick, Evict
    <3> QED BY <3>1, <3>2, <3>3 DEF Next
  <2> DEFINE S == {q \in Payments : <<q, k>> \in kept /\ asOf[p] - stamp[q] < Window(k)}
  <2>3. S \in SUBSET Recent(p, k) /\ Recent(p, k) \in SUBSET Payments
    BY <1>1, <2>1 DEF IInv, KeptLives, Recent, Types
  <2>4. LimitReached(p, k)
    <3>1. Cardinality(S) >= Limit(k)
      OBVIOUS
    <3>2. Limit(k) \in Nat
      BY ListFacts
    <3> HIDE DEF S
    <3> QED BY <2>3, <3>1, <3>2, Counting DEF LimitReached
  <2> QED BY <2>1, <2>2, <2>4 DEF Record, Types
<1> QED BY <1>1, Invariance, PTL DEF Spec, RecordedAreSeen
=============================================================================
