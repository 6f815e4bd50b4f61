-------------------------- MODULE RateLimitProofs --------------------------
(***************************************************************************)
(* Theorems about RateLimit, for any clients, any finite number of         *)
(* goroutines, any limit and any number of repetitions of a command.       *)
(***************************************************************************)
EXTENDS RateLimit, FiniteSetTheorems, TLAPS

LEMMA TypeInit == Init => TypeOK
<1> SUFFICES ASSUME Init PROVE TypeOK
    OBVIOUS
<1>1. counter \in [Keys -> Nat] /\ req \in [Workers -> Request \cup {Idle}]
    BY DEF Init
<1>2. ttl \in [Keys -> BOOLEAN] /\ faulted \in BOOLEAN
    BY Zenon DEF Init
<1> QED
    BY <1>1, <1>2 DEF TypeOK

LEMMA TypeStep == TypeOK /\ [Next]_vars => TypeOK'
<1> SUFFICES ASSUME TypeOK, [Next]_vars PROVE TypeOK'
    OBVIOUS
<1> USE ConstantsAssumption DEF TypeOK, At, Goto, Done, Note, Request, Idle
<1>1. ASSUME NEW w \in Workers, Check(w) PROVE TypeOK'
    BY <1>1 DEF Check
<1>2. ASSUME NEW w \in Workers, Increment(w) PROVE TypeOK'
    <2> DEFINE k == req[w].key
    <2>1. k \in Keys
        BY <1>2 DEF Increment
    <2>2. counter' \in [Keys -> Nat]
        <3>1. PICK m \in Nat : counter' = [counter EXCEPT ![k] = m]
            BY <1>2, <2>1 DEF Increment
        <3> QED
            BY <2>1, <3>1
    <2>3. Goto(w, "expire") \/ Done(w)
        BY <1>2 DEF Increment
    <2>4. req' \in [Workers -> Request \cup {Idle}]
        BY <1>2, <2>3 DEF Increment
    <2>5. ttl' = ttl /\ faulted' \in BOOLEAN
        BY <1>2 DEF Increment
    <2> QED
        BY <2>2, <2>4, <2>5
<1>3. ASSUME NEW w \in Workers, Expire(w) PROVE TypeOK'
    BY <1>3 DEF Expire
<1>4. ASSUME NEW k \in Keys, WindowEnds(k) PROVE TypeOK'
    BY <1>4 DEF WindowEnds
<1>5. CASE Crash
    BY <1>5 DEF Crash
<1>6. CASE UNCHANGED vars
    BY <1>6 DEF vars
<1> QED
    BY <1>1, <1>2, <1>3, <1>4, <1>5, <1>6 DEF Next, Continue, Reject

\* Counters are natural numbers whatever commands fail or repeat: none is ever
\* taken back below zero.
THEOREM TypeCorrect == Spec => []TypeOK
BY TypeInit, TypeStep, PTL DEF Spec

-----------------------------------------------------------------------------
(* The bound on the counter.  It is not inductive: a request that has read a *)
(* counter below the limit has its increment ahead whatever the counter is   *)
(* by then.  The invariant charges every such request beforehand.            *)

\* The requests on k that were let through and have not counted themselves.
Pending(k) == {w \in Workers : At(w, "incr") /\ req[w].key = k}

\* The most one request can add: its INCR and every repetition of it.
Cost == Retries + 1

Charged ==
    \A k \in Keys :
        counter[k] + Cost * Cardinality(Pending(k)) + 1 <= Limit + Cost * Cardinality(Workers)

\* Sets of pending requests are finite, and no larger than Workers.
LEMMA PendingFinite ==
    ASSUME NEW S \in SUBSET Workers
    PROVE  /\ IsFiniteSet(S)
           /\ Cardinality(S) \in Nat /\ Cardinality(Workers) \in Nat
           /\ Cardinality(S) <= Cardinality(Workers)
           /\ Cost * Cardinality(S) \in Nat
           /\ Cost * Cardinality(S) <= Cost * Cardinality(Workers)
<1>1. IsFiniteSet(S) /\ Cardinality(S) <= Cardinality(Workers)
    BY ConstantsAssumption, FS_Subset
<1>2. Cardinality(S) \in Nat /\ Cardinality(Workers) \in Nat
    BY <1>1, ConstantsAssumption, FS_CardinalityType
<1>3. \A m, n, c \in Nat : m <= n => c * m \in Nat /\ c * m <= c * n
    OBVIOUS
<1>4. Cost \in Nat
    BY ConstantsAssumption DEF Cost
<1> QED
    BY <1>1, <1>2, <1>3, <1>4

\* Taking a member out of a set of requests releases the cost of one.
LEMMA PendingLess ==
    ASSUME NEW S \in SUBSET Workers, NEW w \in S
    PROVE  Cost * Cardinality(S \ {w}) + Cost = Cost * Cardinality(S)
<1>1. IsFiniteSet(S) /\ Cardinality(S) \in Nat
    BY PendingFinite
<1>2. Cardinality(S \ {w}) = Cardinality(S) - 1 /\ Cardinality(S) - 1 \in Nat
    BY <1>1, FS_RemoveElement, PendingFinite
<1>3. \A c, n \in Nat : c * n + c = c * (n + 1)
    OBVIOUS
<1>4. Cost \in Nat
    BY ConstantsAssumption DEF Cost
<1> QED
    BY <1>1, <1>2, <1>3, <1>4

\* A set of requests that lacks a goroutine leaves room for the cost of one.
LEMMA PendingRoom ==
    ASSUME NEW S \in SUBSET Workers, NEW w \in Workers, w \notin S
    PROVE  Cost * Cardinality(S \cup {w}) <= Cost * Cardinality(Workers)
BY PendingFinite, S \cup {w} \in SUBSET Workers

LEMMA ChargedInit == Init => Charged
<1> SUFFICES ASSUME Init, NEW k \in Keys
             PROVE  counter[k] + Cost * Cardinality(Pending(k)) + 1
                        <= Limit + Cost * Cardinality(Workers)
    BY DEF Charged
<1>1. Pending(k) \in SUBSET Workers
    BY DEF Pending
<1>2. counter[k] = 0 /\ Limit \in Nat /\ Limit >= 1
    BY ConstantsAssumption DEF Init
<1>3. /\ Cost * Cardinality(Pending(k)) \in Nat
      /\ Cost * Cardinality(Pending(k)) <= Cost * Cardinality(Workers)
      /\ Cost * Cardinality(Workers) \in Nat
    BY <1>1, PendingFinite
<1> QED
    BY <1>2, <1>3

LEMMA ChargedStep == TypeOK /\ Charged /\ [Next]_vars => Charged'
<1> SUFFICES ASSUME TypeOK, Charged, [Next]_vars, NEW k \in Keys
             PROVE  counter'[k] + Cost * Cardinality(Pending(k)') + 1
                        <= Limit + Cost * Cardinality(Workers)
    BY DEF Charged
<1> DEFINE Before == Cost * Cardinality(Pending(k))
           After  == Cost * Cardinality(Pending(k)')
           All    == Cost * Cardinality(Workers)
<1>1. Pending(k) \in SUBSET Workers /\ Pending(k)' \in SUBSET Workers
    BY DEF Pending
<1>2. /\ Before \in Nat /\ After \in Nat /\ All \in Nat
      /\ After <= All
      /\ counter[k] \in Nat /\ counter'[k] \in Nat
      /\ Limit \in Nat /\ Limit >= 1 /\ Cost \in Nat
    BY <1>1, PendingFinite, TypeStep, ConstantsAssumption DEF TypeOK, Cost
<1>3. counter[k] + Before + 1 <= Limit + All
    BY DEF Charged
<1>4. ASSUME Pending(k)' \subseteq Pending(k) PROVE After <= Before
    <2>1. IsFiniteSet(Pending(k))
        BY <1>1, PendingFinite
    <2>2. Cardinality(Pending(k)') <= Cardinality(Pending(k))
        BY <1>4, <2>1, FS_Subset
    <2>3. Cardinality(Pending(k)') \in Nat /\ Cardinality(Pending(k)) \in Nat
        BY <1>1, PendingFinite
    <2>4. \A m, n, c \in Nat : m <= n => c * m <= c * n
        OBVIOUS
    <2> QED
        BY <1>2, <2>2, <2>3, <2>4
<1>5. CASE counter'[k] <= counter[k] /\ Pending(k)' \subseteq Pending(k)
    BY <1>2, <1>3, <1>4, <1>5
<1>6. ASSUME NEW w \in Workers, Check(w)
      PROVE  counter'[k] + After + 1 <= Limit + All
    <2>1. PICK j \in Keys : Allowed(j) /\ req' = [req EXCEPT ![w] = [step |-> "incr", key |-> j]]
        BY <1>6 DEF Check
    <2>2. counter' = counter
        BY <1>6 DEF Check
    <2>3. CASE j = k
        BY <1>2, <2>1, <2>2, <2>3 DEF Allowed
    <2>4. CASE j # k
        BY <1>5, <1>2, <2>1, <2>2, <2>4 DEF Pending, At, TypeOK
    <2> QED
        BY <2>3, <2>4
<1>7. ASSUME NEW w \in Workers, Increment(w)
      PROVE  counter'[k] + After + 1 <= Limit + All
    <2>1. CASE req[w].key # k
        BY <1>5, <1>2, <1>7, <2>1 DEF Increment, Pending, At, Goto, Done, TypeOK, Request, Idle
    <2>2. CASE req[w].key = k
        <3>1. counter'[k] <= counter[k] + Cost
            BY <1>7, <2>2, ConstantsAssumption DEF Increment, TypeOK, Cost
        <3>2. w \in Pending(k) /\ Pending(k)' = Pending(k) \ {w}
            BY <1>7, <2>2 DEF Increment, Pending, At, Goto, Done, TypeOK, Request, Idle
        <3>3. After + Cost = Before
            BY <1>1, <3>2, PendingLess
        <3> QED
            BY <1>2, <1>3, <3>1, <3>3
    <2> QED
        BY <2>1, <2>2
<1>8. ASSUME NEW w \in Workers, Expire(w)
      PROVE  counter'[k] + After + 1 <= Limit + All
    BY <1>5, <1>2, <1>8 DEF Expire, Pending, At, Done, TypeOK, Idle
<1>9. ASSUME NEW j \in Keys, WindowEnds(j)
      PROVE  counter'[k] + After + 1 <= Limit + All
    BY <1>5, <1>2, <1>9 DEF WindowEnds, Pending, At, TypeOK
<1>10. CASE Crash
    BY <1>5, <1>2, <1>10 DEF Crash, Pending, At, TypeOK, Idle
<1>11. CASE UNCHANGED vars
    BY <1>5, <1>2, <1>11 DEF vars, Pending, At
<1> QED
    BY <1>6, <1>7, <1>8, <1>9, <1>10, <1>11 DEF Next, Continue, Reject

\* A client never gets further over the limit than the requests of one moment
\* allow: Limit - 1 counted, and everything in flight with all its repetitions.
THEOREM OvershootIsBounded == Spec => []OvershootBounded
<1>1. TypeOK /\ Charged => OvershootBounded
    <2> SUFFICES ASSUME TypeOK, Charged, NEW k \in Keys
                 PROVE  counter[k] + 1 <= Limit + Cost * Cardinality(Workers)
        BY DEF OvershootBounded, Cost
    <2>1. Pending(k) \in SUBSET Workers
        BY DEF Pending
    <2>2. /\ Cost * Cardinality(Pending(k)) \in Nat
          /\ Cost * Cardinality(Workers) \in Nat
          /\ counter[k] \in Nat /\ Limit \in Nat
        BY <2>1, PendingFinite, ConstantsAssumption DEF TypeOK
    <2> QED
        BY <2>2 DEF Charged
<1> QED
    BY <1>1, ChargedInit, ChargedStep, TypeCorrect, PTL DEF Spec

-----------------------------------------------------------------------------
(* The window. *)

\* A counter comes to 1 only from 0, so the request that is about to set the
\* time to live is the one that created the key, and the key cannot go before.
LEMMA WindowStep == TypeOK /\ WindowOwned /\ [Next]_vars => WindowOwned'
<1> SUFFICES ASSUME TypeOK, WindowOwned, [Next]_vars, ~faulted', NEW k \in Keys,
                    counter'[k] > 0, ~ttl'[k]
             PROVE  \E w \in Workers : At(w, "expire")' /\ req'[w].key = k
    BY DEF WindowOwned
<1> USE ConstantsAssumption DEF TypeOK, WindowOwned, At, Goto, Done, Note, Request, Idle
<1>1. ASSUME NEW w \in Workers, Check(w)
      PROVE  \E v \in Workers : At(v, "expire")' /\ req'[v].key = k
    BY <1>1 DEF Check
<1>2. ASSUME NEW w \in Workers, Increment(w)
      PROVE  \E v \in Workers : At(v, "expire")' /\ req'[v].key = k
    <2>1. /\ counter' = [counter EXCEPT ![req[w].key] = @ + 1]
          /\ IF FirstOfWindow(counter[req[w].key] + 1) THEN Goto(w, "expire") ELSE Done(w)
          /\ ttl' = ttl
        <3>1. ~Note("failed") /\ ~Note("lost")
            BY Zenon
        <3>2. PICK repeats \in 0 .. Retries :
                LET n == counter[req[w].key] + 1 + repeats IN
                /\ counter' = [counter EXCEPT ![req[w].key] = n]
                /\ IF FirstOfWindow(n) THEN Goto(w, "expire") ELSE Done(w)
                /\ Note(IF repeats = 0 THEN "ok" ELSE "lost")
            BY <1>2, <3>1, Zenon DEF Increment
        <3>3. repeats = 0
            BY <3>1, <3>2, Zenon
        <3>4. counter[req[w].key] + 1 + repeats = counter[req[w].key] + 1
            BY <1>2, <3>3 DEF Increment
        <3> QED
            BY <1>2, <3>2, <3>4, Zenon DEF Increment
    <2>1a. ~faulted
        BY <1>2 DEF Increment
    <2>2. CASE req[w].key = k /\ counter[k] = 0
        BY <1>2, <2>1, <2>2 DEF Increment, FirstOfWindow
    <2>3. CASE req[w].key # k \/ counter[k] > 0
        <3>1. counter[k] > 0 /\ ~ttl[k]
            BY <1>2, <2>1, <2>3 DEF Increment
        <3>2. PICK v \in Workers : At(v, "expire") /\ req[v].key = k
            BY <2>1a, <3>1
        <3>3. v # w
            BY <1>2, <3>2 DEF Increment
        <3> QED
            BY <2>1, <3>2, <3>3
    <2> QED
        BY <2>2, <2>3
<1>3. ASSUME NEW w \in Workers, Expire(w)
      PROVE  \E v \in Workers : At(v, "expire")' /\ req'[v].key = k
    <2>1. /\ ttl' = [ttl EXCEPT ![req[w].key] = @ \/ counter[req[w].key] > 0]
          /\ counter' = counter /\ ~faulted
        BY <1>3 DEF Expire
    <2>2. req[w].key # k /\ ~ttl[k]
        BY <1>3, <2>1 DEF Expire
    <2>3. PICK v \in Workers : At(v, "expire") /\ req[v].key = k
        BY <2>1, <2>2
    <2> QED
        BY <1>3, <2>2, <2>3 DEF Expire
<1>4. ASSUME NEW j \in Keys, WindowEnds(j)
      PROVE  \E v \in Workers : At(v, "expire")' /\ req'[v].key = k
    BY <1>4 DEF WindowEnds
<1>5. CASE Crash
    BY <1>5 DEF Crash
<1>6. CASE UNCHANGED vars
    BY <1>6 DEF vars
<1> QED
    BY <1>1, <1>2, <1>3, <1>4, <1>5, <1>6 DEF Next, Continue, Reject

\* As long as no command has failed and the process has stayed up, every
\* counter has a time to live or a request about to set it.
THEOREM WindowIsOwned == Spec => []WindowOwned
<1>1. Init => WindowOwned
    BY DEF Init, WindowOwned
<1> QED
    BY <1>1, WindowStep, TypeCorrect, PTL DEF Spec

-----------------------------------------------------------------------------
(* The counter without a window. *)

\* The counter of k has come to the limit, and neither its key has a time to live
\* nor is anybody about to set it: the request that had to failed, died, or never
\* saw the counter at 1, because its INCR was executed twice.
LockedOut(k) ==
    /\ counter[k] >= Limit
    /\ ~ttl[k]
    /\ \A w \in Workers : ~(At(w, "expire") /\ req[w].key = k)

\* The client is locked out for good: only the counter at 1 gets a time to live.
LockedOutForGood == [][\A k \in Keys : LockedOut(k) => LockedOut(k)']_vars

LEMMA LockedOutStep ==
    ASSUME TypeOK, [Next]_vars, NEW k \in Keys, LockedOut(k)
    PROVE  LockedOut(k)'
<1> USE ConstantsAssumption DEF TypeOK, LockedOut, At, Goto, Done, Request, Idle
<1>1. ASSUME NEW w \in Workers, Check(w) PROVE LockedOut(k)'
    BY <1>1 DEF Check
<1>2. ASSUME NEW w \in Workers, Increment(w) PROVE LockedOut(k)'
    <2>1. req[w].key \in Keys /\ ttl' = ttl
        BY <1>2 DEF Increment
    <2>2. PICK n \in Nat :
            /\ counter' = [counter EXCEPT ![req[w].key] = n]
            /\ n >= counter[req[w].key]
            /\ \/ Done(w)
               \/ Goto(w, "expire") /\ n = 1 /\ n > counter[req[w].key]
        BY <1>2, <2>1 DEF Increment, FirstOfWindow
    <2>3. counter'[k] >= Limit
        BY <2>1, <2>2
    <2>4. CASE Done(w)
        BY <2>1, <2>3, <2>4
    <2>5. CASE Goto(w, "expire") /\ n = 1 /\ n > counter[req[w].key]
        <3>1. req[w].key # k
            BY <2>5
        <3>2. req[w] \in Request
            BY <1>2 DEF Increment
        <3>3. \A v \in Workers : req'[v].step = "expire" /\ req'[v].key = k
                => req[v].step = "expire" /\ req[v].key = k
            BY <2>5, <3>1, <3>2
        <3> QED
            BY <2>1, <2>3, <3>3
    <2> QED
        BY <2>2, <2>4, <2>5
<1>3. ASSUME NEW w \in Workers, Expire(w) PROVE LockedOut(k)'
    BY <1>3 DEF Expire
<1>4. ASSUME NEW j \in Keys, WindowEnds(j) PROVE LockedOut(k)'
    BY <1>4 DEF WindowEnds
<1>5. CASE Crash
    BY <1>5 DEF Crash
<1>6. CASE UNCHANGED vars
    BY <1>6 DEF vars
<1> QED
    BY <1>1, <1>2, <1>3, <1>4, <1>5, <1>6 DEF Next, Continue, Reject

\* Why RejectionEnds is about behaviours without a fault: after one, a client may
\* never be let in again.
THEOREM LockedOutForGoodHolds == Spec => LockedOutForGood
<1>1. TypeOK /\ [Next]_vars => [\A k \in Keys : LockedOut(k) => LockedOut(k)']_vars
    BY LockedOutStep
<1> QED
    BY <1>1, TypeCorrect, PTL DEF Spec, LockedOutForGood

-----------------------------------------------------------------------------
(* Liveness.  Fairness says WF_vars(Continue(w)) of every goroutine and         *)
(* WF_vars(WindowEnds(k)) of every key: what is enabled from some moment on is  *)
(* taken.  A request can always go on, since each of its commands has an        *)
(* outcome whatever it finds, and a window can end as long as it has a time to  *)
(* live.  So the two say the same as these, without ENABLED.                    *)
Scheduled == [](\A w \in Workers : <>(req[w] = Idle) \/ <><<Continue(w)>>_vars)

TimePasses == [](\A k \in Keys : <>(ttl[k] = FALSE) \/ <><<WindowEnds(k)>>_vars)

LetInAgain(k) == counter[k] = 0 \/ faulted

\* The request that is about to give the counter its time to live.
Setting(w, k) == At(w, "expire") /\ req[w].key = k /\ counter[k] > 0

\* It stays until it has done so, unless the window of another request ends.
LEMMA SettingStep ==
    ASSUME TypeOK, [Next]_vars, NEW w \in Workers, NEW k \in Keys, Setting(w, k),
           ~LetInAgain(k)'
    PROVE  /\ Setting(w, k)' \/ ttl'[k]
           /\ Continue(w) => ttl'[k]
<1> USE DEF TypeOK, Setting, LetInAgain, At, Goto, Done, Note
<1>1. counter'[k] > 0
    BY TypeStep
<1>2. ASSUME NEW v \in Workers, Check(v) PROVE v # w /\ Setting(w, k)'
    BY <1>1, <1>2 DEF Check, Idle
<1>3. ASSUME NEW v \in Workers, Increment(v) PROVE v # w /\ Setting(w, k)'
    BY <1>1, <1>3 DEF Increment
<1>4. ASSUME Expire(w) PROVE ttl'[k]
    <2>1. PICK o \in Outcomes :
            /\ ttl' = [ttl EXCEPT ![k] = @ \/ (o # "failed" /\ counter[k] > 0)]
            /\ faulted' = (faulted \/ o # "ok")
        BY <1>4 DEF Expire
    <2>2. o = "ok"
        BY <2>1
    <2> QED
        BY <2>1, <2>2
<1>5. ASSUME NEW v \in Workers, v # w, Expire(v) PROVE Setting(w, k)'
    BY <1>1, <1>5 DEF Expire
<1>6. ASSUME NEW j \in Keys, WindowEnds(j) PROVE Setting(w, k)'
    BY <1>1, <1>6 DEF WindowEnds
<1>7. ~Crash
    BY DEF Crash
<1>8. ASSUME UNCHANGED vars PROVE Setting(w, k)'
    BY <1>1, <1>8 DEF vars
<1>9. Continue(w) => Expire(w)
    BY DEF Continue, Increment
<1> QED
    BY <1>2, <1>3, <1>4, <1>5, <1>6, <1>7, <1>8, <1>9 DEF Next, Continue, Reject, vars

\* A window that will end does, and the counter with it.
LEMMA WindowLasts ==
    ASSUME TypeOK, [Next]_vars, NEW k \in Keys, ttl[k], ~LetInAgain(k)'
    PROVE  ttl'[k]
<1> USE DEF TypeOK, LetInAgain
<1>1. ASSUME NEW w \in Workers, Expire(w) PROVE ttl'[k]
    BY <1>1 DEF Expire
<1>2. ASSUME NEW j \in Keys, WindowEnds(j) PROVE ttl'[k]
    BY <1>2 DEF WindowEnds
<1>3. CASE UNCHANGED ttl
    BY <1>3
<1> QED
    BY <1>1, <1>2, <1>3 DEF Next, Continue, Reject, vars, Check, Increment, Crash

LEMMA WindowsEnd ==
    []TypeOK /\ []WindowOwned /\ [][Next]_vars /\ Scheduled /\ TimePasses => RejectionEnds
<1> SUFFICES ASSUME []TypeOK, []WindowOwned, [][Next]_vars,
                    [](\A w \in Workers : <>(req[w] = Idle) \/ <><<Continue(w)>>_vars),
                    [](\A k \in Keys : <>(ttl[k] = FALSE) \/ <><<WindowEnds(k)>>_vars)
             PROVE  RejectionEnds
    BY DEF Scheduled, TimePasses
<1>1. \A w \in Workers : <>(req[w] = Idle) \/ <><<Continue(w)>>_vars
    BY PTL
<1>2. \A k \in Keys : <>(ttl[k] = FALSE) \/ <><<WindowEnds(k)>>_vars
    BY PTL
<1>3. ASSUME NEW k \in Keys
      PROVE  counter[k] >= Limit ~> (counter[k] = 0 \/ faulted)
    <2>1. <>(ttl[k] = FALSE) \/ <><<WindowEnds(k)>>_vars
        BY <1>2
    <2> DEFINE Ends == LetInAgain(k)
               HasEnd == ttl[k] = TRUE
               Sets(w) == Setting(w, k)
    <2>2. ASSUME NEW w \in Workers PROVE Sets(w) => <>(HasEnd \/ Ends)
        <3>1. <>(req[w] = Idle) \/ <><<Continue(w)>>_vars
            BY <1>1, Zenon
        <3>2. TypeOK /\ TypeOK' /\ [Next]_vars => (Sets(w) => Sets(w)' \/ HasEnd' \/ Ends')
            BY SettingStep DEF TypeOK
        <3>3. TypeOK /\ TypeOK' /\ [Next]_vars /\ <<Continue(w)>>_vars
                => (Sets(w) => HasEnd' \/ Ends')
            BY SettingStep DEF TypeOK
        <3>4. req[w] = Idle => ~Sets(w)
            BY DEF Setting, At, Idle
        <3> HIDE DEF Sets, HasEnd, Ends
        <3> QED
            BY <3>1, <3>2, <3>3, <3>4, PTL
    <2>3. (\E w \in Workers : Sets(w)) => <>(HasEnd \/ Ends)
        <3> HIDE DEF Sets, HasEnd, Ends
        <3> QED
            BY <2>2, Zenon
    <2>4. TypeOK /\ WindowOwned
            => (counter[k] >= Limit => Ends \/ HasEnd \/ \E w \in Workers : Sets(w))
        BY ConstantsAssumption DEF TypeOK, WindowOwned, LetInAgain, Setting
    <2>5. TypeOK /\ TypeOK' /\ [Next]_vars => (HasEnd => HasEnd' \/ Ends')
        BY WindowLasts DEF TypeOK
    <2>6. TypeOK /\ <<WindowEnds(k)>>_vars => Ends'
        BY DEF WindowEnds, LetInAgain, TypeOK
    <2>7. ttl[k] = FALSE => ~HasEnd
        OBVIOUS
    <2>8. Ends => counter[k] = 0 \/ faulted
        BY DEF LetInAgain
    <2> HIDE DEF Sets, HasEnd, Ends
    <2>9. HasEnd => <>Ends
        BY <2>1, <2>5, <2>6, <2>7, PTL
    <2> QED
        BY <2>3, <2>4, <2>8, <2>9, PTL
<1> QED
    BY <1>3 DEF RejectionEnds

\* A client over the limit is let in again in a later window, as long as nothing
\* fails: the request that created the counter gives it its time to live, and no
\* other request, nor the end of an earlier window, comes between.
THEOREM RejectionEndsHolds == Spec /\ Scheduled /\ TimePasses => RejectionEnds
BY WindowsEnd, TypeCorrect, WindowIsOwned, PTL DEF Spec
=============================================================================
