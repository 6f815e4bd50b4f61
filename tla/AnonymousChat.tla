--------------------------- MODULE AnonymousChat ---------------------------
(***************************************************************************)
(* The chat of one anonymous room: a sorted set in Redis under one key,    *)
(* which expires six hours after the last message.  Saving a message and   *)
(* deleting one are sequences of commands, any of which may fail, or be    *)
(* executed and repeated because its answer got lost.                      *)
(***************************************************************************)
EXTENDS Naturals, FiniteSets

CONSTANTS
    Messages,      \* bound: places in the sorted set a behaviour may use
    Participants,  \* participant ids clients present themselves with
    Page,          \* how many of the newest messages DELETE looks through
    Workers        \* request goroutines that may run at the same time

\* A message is its place in the order of the set: the milliseconds of the
\* server's wall clock, then the bytes of its JSON.  Neither has to grow from
\* one message to the next.
ASSUME ConstantsAssumption == Messages \subseteq Nat /\ Page \in Nat \ {0}

VARIABLES
    history,  \* the messages in the sorted set; {} when there is no such key
    expires,  \* TRUE: the key has a time to live
    author,   \* who wrote each message that was ever begun
    req,      \* the request each goroutine is serving
    deleted,  \* auxiliary: messages whose DELETE was answered 200
    doubtful, \* auxiliary: messages whose ZADD was not answered at first
    faulted   \* auxiliary: some command has failed, or the process crashed

vars == <<history, expires, author, req, deleted, doubtful, faulted>>

Request ==
    [step : {"send.add", "send.expire"}, msg : Messages]
        \cup [step : {"delete.find", "delete.remove"}, msg : Messages, by : Participants]

Idle == [step |-> "idle"]

TypeOK ==
    /\ DOMAIN author \subseteq Messages /\ author \in [DOMAIN author -> Participants]
    /\ history \subseteq DOMAIN author
    /\ expires \in BOOLEAN
    /\ expires => history # {}
    /\ req \in [Workers -> Request \cup {Idle}]
    /\ deleted \cup doubtful \subseteq DOMAIN author
    /\ faulted \in BOOLEAN

-----------------------------------------------------------------------------
At(w, s) == req[w].step = s
Go(w, next) == req' = [req EXCEPT ![w] = next]
Goto(w, s) == req' = [req EXCEPT ![w].step = s]
Done(w) == Go(w, Idle)

\* A command is executed and answered, fails, or is executed with its answer lost.
Outcomes == {"ok", "failed", "lost"}
Takes(o) == o # "failed"
Note(o) == faulted' = (faulted \/ o # "ok")

\* The Redis client repeats a command that failed, and gives up in the end.
RepeatOrGiveUp(w) == UNCHANGED req \/ Done(w)

\* GetMessages: the last n of the set.
Newest(n) == {m \in history : Cardinality({l \in history : l > m}) < n}

Init ==
    /\ history = {}
    /\ expires = FALSE
    /\ author = [m \in {} |-> {}]
    /\ req = [w \in Workers |-> Idle]
    /\ deleted = {}
    /\ doubtful = {}
    /\ faulted = FALSE

-----------------------------------------------------------------------------
\* Mutant: the message is stored under the participant id of the client as it
\* comes, an empty one included.
SendBeginUnchecked(w) ==
    /\ req[w] = Idle
    /\ \E m \in Messages \ DOMAIN author, p \in Participants \cup {"none"} :
        /\ author' = [l \in DOMAIN author \cup {m} |-> IF l = m THEN p ELSE author[l]]
        /\ Go(w, [step |-> "send.add", msg |-> m])
    /\ UNCHANGED <<history, expires, deleted, doubtful, faulted>>

(* SendMessage: the room is there (its row is never deleted), the message   *)
(* gets its id, author and time.                                            *)
SendBegin(w) ==
    /\ req[w] = Idle
    /\ \E m \in Messages \ DOMAIN author, p \in Participants :
        /\ author' = [l \in DOMAIN author \cup {m} |-> IF l = m THEN p ELSE author[l]]
        /\ Go(w, [step |-> "send.add", msg |-> m])
    /\ UNCHANGED <<history, expires, deleted, doubtful, faulted>>

\* Mutant: the time to live is given to a key that has one already only.
SendAddToExisting(w) ==
    /\ At(w, "send.add")
    /\ history' = history \cup {req[w].msg}
    /\ IF expires THEN Goto(w, "send.expire") ELSE Done(w)
    /\ UNCHANGED <<expires, author, deleted, doubtful, faulted>>

(* ZADD.  A key that it creates has no time to live. *)
SendAdd(w) ==
    /\ At(w, "send.add")
    /\ \E o \in Outcomes :
        /\ history' = IF Takes(o) THEN history \cup {req[w].msg} ELSE history
        /\ IF o = "ok" THEN Goto(w, "send.expire") ELSE RepeatOrGiveUp(w)
        /\ doubtful' = IF o = "ok" THEN doubtful ELSE doubtful \cup {req[w].msg}
        /\ Note(o)
    /\ UNCHANGED <<expires, author, deleted>>

\* Mutant: the time to live is set when the set has one message only.
SendExpireFirst(w) ==
    /\ At(w, "send.expire")
    /\ expires' = (expires \/ Cardinality(history) = 1)
    /\ Done(w)
    /\ UNCHANGED <<history, author, deleted, doubtful, faulted>>

(* EXPIRE, without effect on a key that is not there.  An error is logged   *)
(* and the message answered 201 all the same.                               *)
SendExpire(w) ==
    /\ At(w, "send.expire")
    /\ \E o \in Outcomes :
        /\ expires' = (expires \/ (Takes(o) /\ history # {}))
        /\ IF o = "ok" THEN Done(w) ELSE RepeatOrGiveUp(w)
        /\ Note(o)
    /\ UNCHANGED <<history, author, deleted, doubtful>>

(* DeleteMessage, the handler: it looks for the message among the newest,   *)
(* and for its author there.  (Not there: 404.  Somebody else's: 403.)      *)
DeleteCheck(w) ==
    /\ req[w] = Idle
    /\ \E m \in Newest(Page), p \in Participants :
        /\ author[m] = p
        /\ Go(w, [step |-> "delete.find", msg |-> m, by |-> p])
    /\ UNCHANGED <<history, expires, author, deleted, doubtful, faulted>>

(* DeleteMessage, the repository: ZRANGE and a search for the id.  Gone, or *)
(* an error: 500.                                                           *)
DeleteFind(w) ==
    /\ At(w, "delete.find")
    /\ \E o \in Outcomes :
        /\ IF o = "ok" /\ req[w].msg \in history THEN Goto(w, "delete.remove") ELSE Done(w)
        /\ Note(o)
    /\ UNCHANGED <<history, expires, author, deleted, doubtful>>

\* Redis drops a key whose set has become empty, its time to live with it.
Remove(m) ==
    /\ history' = history \ {m}
    /\ expires' = (expires /\ history' # {})

\* Mutant: the error of ZREM is not looked at.
DeleteRemoveUnchecked(w) ==
    /\ At(w, "delete.remove")
    /\ \E o \in Outcomes :
        /\ IF Takes(o) THEN Remove(req[w].msg) ELSE UNCHANGED <<history, expires>>
        /\ Note(o)
    /\ deleted' = deleted \cup {req[w].msg}
    /\ Done(w)
    /\ UNCHANGED <<author, doubtful>>

(* ZREM of the member just found; that it may be gone by now is no error.   *)
DeleteRemove(w) ==
    /\ At(w, "delete.remove")
    /\ \E o \in Outcomes :
        /\ IF Takes(o) THEN Remove(req[w].msg) ELSE UNCHANGED <<history, expires>>
        /\ IF o = "ok" THEN Done(w) /\ deleted' = deleted \cup {req[w].msg}
                       ELSE RepeatOrGiveUp(w) /\ UNCHANGED deleted
        /\ Note(o)
    /\ UNCHANGED <<author, doubtful>>

(* Redis drops the key when its time has come. *)
KeyExpires ==
    /\ expires
    /\ history' = {}
    /\ expires' = FALSE
    /\ UNCHANGED <<author, req, deleted, doubtful, faulted>>

(* The process dies with the requests under way; Redis keeps the set. *)
Crash ==
    /\ \E w \in Workers : req[w] # Idle
    /\ req' = [w \in Workers |-> Idle]
    /\ faulted' = TRUE
    /\ UNCHANGED <<history, expires, author, deleted, doubtful>>

-----------------------------------------------------------------------------
Continue(w) == SendAdd(w) \/ SendExpire(w) \/ DeleteFind(w) \/ DeleteRemove(w)

Next ==
    \/ \E w \in Workers : SendBegin(w) \/ DeleteCheck(w) \/ Continue(w)
    \/ KeyExpires
    \/ Crash

\* Goroutines are scheduled until they are done, and time passes.
Fairness == (\A w \in Workers : WF_vars(Continue(w))) /\ WF_vars(KeyExpires)

Spec == Init /\ [][Next]_vars
FairSpec == Spec /\ Fairness

-----------------------------------------------------------------------------
\* Without a fault a chat that is there has its six hours, or a send about to
\* give them to it, although deletes empty the set and expiry drops it between
\* the ZADD and the EXPIRE of several sends.
HistoryHasWindow ==
    ~faulted /\ history # {} /\ ~expires => \E w \in Workers : At(w, "send.expire")

\* A message whose DELETE was answered 200 is gone for good, whoever deletes it
\* at the same time and whatever else fails, unless its ZADD was left without an
\* answer: then the Redis client may have repeated it after the ZREM.
DeletedIsGone == deleted \cap history \subseteq doubtful

\* A message leaves the history by the hand of its author, or when the whole
\* key expires; nothing else that happens between the check of the author and
\* the ZREM makes it anybody else's.
OnlyAuthorsDelete ==
    [][\A m \in history \ history' :
        \/ expires /\ history' = {} /\ UNCHANGED req
        \/ \E w \in Workers : At(w, "delete.remove") /\ req[w].msg = m /\ req[w].by = author[m]]_vars

\* "The data evaporates when the room is over" (ARCHITECTURE): once the messages
\* stop, and as long as nothing failed, nothing is left in the end.
Evaporates == []~faulted => <>[](history = {})
=============================================================================
