----------------------------- MODULE RateLimit -----------------------------
(***************************************************************************)
(* The rate limiter in front of register and login: a counter per client   *)
(* address in Redis, read by one command, advanced by a second and given   *)
(* its time to live by a third, so that the requests of one client         *)
(* interleave between them.                                                *)
(***************************************************************************)
EXTENDS Naturals, FiniteSets

CONSTANTS
    Keys,     \* client addresses
    Workers,  \* request goroutines that may run at the same time
    Limit,    \* requests a client may send in one window
    Retries   \* how often the Redis client repeats a command it got no answer to

ASSUME ConstantsAssumption ==
    /\ IsFiniteSet(Workers)
    /\ Limit \in Nat \ {0}
    /\ Retries \in Nat

VARIABLES
    counter,  \* the value under a key, 0 when the key does not exist
    ttl,      \* TRUE: the key expires at the end of its window
    req,      \* the request each goroutine is passing through the limiter
    faulted   \* auxiliary: some command has failed, or the process crashed

vars == <<counter, ttl, req, faulted>>

Request == [step : {"incr", "expire"}, key : Keys]
Idle == [step |-> "idle"]

TypeOK ==
    /\ counter \in [Keys -> Nat]
    /\ ttl \in [Keys -> BOOLEAN]
    /\ req \in [Workers -> Request \cup {Idle}]
    /\ faulted \in BOOLEAN

At(w, s) == req[w].step = s
Goto(w, s) == req' = [req EXCEPT ![w].step = s]

\* The limiter is through with the request: handled, or answered 429 or 500.
Done(w) == req' = [req EXCEPT ![w] = Idle]

Outcomes == {"ok", "failed", "lost"}
Note(o) == faulted' = (faulted \/ o # "ok")

-----------------------------------------------------------------------------
Init ==
    /\ counter = [k \in Keys |-> 0]
    /\ ttl = [k \in Keys |-> FALSE]
    /\ req = [w \in Workers |-> Idle]
    /\ faulted = FALSE

\* Mutant: the comparison lets the limit itself through.
AllowedUpToLimit(k) == counter[k] <= Limit

\* GET: a missing key counts as 0.
Allowed(k) == counter[k] < Limit

(* Check: below the limit the request goes on to count itself (an error of  *)
(* GET answers 500 and changes nothing).                                    *)
Check(w) ==
    /\ req[w] = Idle
    /\ \E k \in Keys :
        /\ Allowed(k)
        /\ req' = [req EXCEPT ![w] = [step |-> "incr", key |-> k]]
    /\ UNCHANGED <<counter, ttl, faulted>>

(* Over the limit: 429, and nothing is counted. *)
Reject(w) ==
    /\ req[w] = Idle
    /\ \E k \in Keys : ~Allowed(k)
    /\ UNCHANGED vars

\* Mutant: INCR is taken to return the value before it.
FirstOfWindowBefore(n) == n = 0

FirstOfWindow(n) == n = 1

\* Mutant: a failed INCR is made up for by a DECR.
IncrementCompensated(w) ==
    /\ At(w, "incr")
    /\ LET k == req[w].key IN
       \/ /\ counter' = [counter EXCEPT ![k] = @ + 1]
          /\ IF FirstOfWindow(counter[k] + 1) THEN Goto(w, "expire") ELSE Done(w)
          /\ Note("ok")
       \/ /\ counter' = [counter EXCEPT ![k] = @ - 1]
          /\ Done(w)
          /\ Note("failed")
    /\ UNCHANGED ttl

(* INCR, executed once more for every answer that got lost.  The request    *)
(* goes on even when the command fails in the end.  (All its executions are *)
(* one step: a command or an expiry between two of them could as well have  *)
(* come before the first or after the last.)                                *)
Increment(w) ==
    /\ At(w, "incr")
    /\ LET k == req[w].key IN
       \/ /\ \E repeats \in 0 .. Retries :
              LET n == counter[k] + 1 + repeats IN
              /\ counter' = [counter EXCEPT ![k] = n]
              /\ IF FirstOfWindow(n) THEN Goto(w, "expire") ELSE Done(w)
              /\ Note(IF repeats = 0 THEN "ok" ELSE "lost")
       \/ /\ \E executed \in 0 .. Retries + 1 :
              counter' = [counter EXCEPT ![k] = @ + executed]
          /\ Done(w)
          /\ Note("failed")
    /\ UNCHANGED ttl

(* EXPIRE: its error is not looked at. *)
Expire(w) ==
    /\ At(w, "expire")
    /\ \E o \in Outcomes :
        /\ ttl' = [ttl EXCEPT ![req[w].key] = @ \/ (o # "failed" /\ counter[req[w].key] > 0)]
        /\ Note(o)
    /\ Done(w)
    /\ UNCHANGED counter

(* Redis drops the key at the end of its window. *)
WindowEnds(k) ==
    /\ ttl[k]
    /\ counter' = [counter EXCEPT ![k] = 0]
    /\ ttl' = [ttl EXCEPT ![k] = FALSE]
    /\ UNCHANGED <<req, faulted>>

(* The process dies with the requests under way; Redis keeps the counters. *)
Crash ==
    /\ \E w \in Workers : req[w] # Idle
    /\ req' = [w \in Workers |-> Idle]
    /\ faulted' = TRUE
    /\ UNCHANGED <<counter, ttl>>

Continue(w) == Increment(w) \/ Expire(w)

Next ==
    \/ \E w \in Workers : Check(w) \/ Reject(w) \/ Continue(w)
    \/ \E k \in Keys : WindowEnds(k)
    \/ Crash

\* Goroutines are scheduled until they are done, and time passes.
Fairness ==
    /\ \A w \in Workers : WF_vars(Continue(w))
    /\ \A k \in Keys : WF_vars(WindowEnds(k))

Spec == Init /\ [][Next]_vars
FairSpec == Spec /\ Fairness

-----------------------------------------------------------------------------
\* The limit is exceeded by no more than the requests of one moment: each
\* goroutine that read a counter below the limit adds to it once, and once more
\* for every repetition of its INCR.
OvershootBounded ==
    \A k \in Keys : counter[k] + 1 <= Limit + (Retries + 1) * Cardinality(Workers)

\* Without a fault every counter has a window that will end: its key has a time
\* to live, or the one request that saw it at 1 is about to set it, however
\* requests interleave and windows end in between.
WindowOwned ==
    ~faulted => \A k \in Keys : counter[k] > 0 /\ ~ttl[k] =>
        \E w \in Workers : At(w, "expire") /\ req[w].key = k

\* A client over the limit is let in again in a later window, as long as
\* nothing fails.
RejectionEnds == \A k \in Keys : counter[k] >= Limit ~> (counter[k] = 0 \/ faulted)
=============================================================================
