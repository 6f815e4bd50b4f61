------------------------- MODULE AnonymousChatProofs -------------------------
(* Theorems about AnonymousChat, for any messages, participants, page and   *)
(* goroutines.                                                              *)
EXTENDS AnonymousChat, TLAPS

\* What requests refer to: a message that was begun, and for a delete one of
\* the participant it acts for.
RequestsRefer ==
    \A w \in Workers :
        /\ req[w] # Idle => req[w].msg \in DOMAIN author
        /\ req[w].step \in {"delete.find", "delete.remove"} => req[w].by = author[req[w].msg]

Deleting(w) == req[w].step \in {"delete.find", "delete.remove"}

\* A message whose ZADD has not been tried yet is nowhere to be found, and one
\* request has it.
FirstTry ==
    \A w \in Workers : At(w, "send.add") /\ req[w].msg \notin doubtful =>
        /\ req[w].msg \notin history \cup deleted
        /\ \A v \in Workers \ {w} : req[v] # Idle => req[v].msg # req[w].msg

IInv == TypeOK /\ RequestsRefer /\ FirstTry /\ HistoryHasWindow /\ DeletedIsGone

\* The requests by the step they are at.
LEMMA RequestAt ==
    ASSUME TypeOK, NEW w \in Workers
    PROVE  /\ req[w] \in Request \cup {Idle}
           /\ req[w].step \in {"idle", "send.add", "send.expire", "delete.find", "delete.remove"}
           /\ req[w] = Idle <=> At(w, "idle")
           /\ req[w] # Idle => req[w].msg \in Messages
           /\ req[w].step \in {"send.add", "send.expire"} =>
                \A s \in {"send.add", "send.expire"} : [req[w] EXCEPT !.step = s] \in Request
           /\ Deleting(w) =>
                /\ req[w].by \in Participants
                /\ [req[w] EXCEPT !.step = "delete.remove"] \in Request
<1>1. req[w] \in Request \cup {Idle}
    BY DEF TypeOK
<1>2. CASE req[w] = Idle
    BY <1>2 DEF Idle, At, Deleting
<1>3. CASE req[w] \in [step : {"send.add", "send.expire"}, msg : Messages]
    BY <1>3 DEF Idle, At, Deleting, Request
<1>4. CASE req[w] \in [step : {"delete.find", "delete.remove"}, msg : Messages, by : Participants]
    BY <1>4 DEF Idle, At, Deleting, Request
<1> QED
    BY <1>1, <1>2, <1>3, <1>4 DEF Request

LEMMA InitIInv == Init => IInv
<1> SUFFICES ASSUME Init PROVE IInv
    OBVIOUS
<1>1. TypeOK
    BY DEF Init, TypeOK
<1>2. \A w \in Workers : req[w] = Idle
    BY DEF Init
<1>3. RequestsRefer /\ FirstTry
    BY <1>2 DEF RequestsRefer, FirstTry, At, Idle
<1> QED
    BY <1>1, <1>3 DEF Init, IInv, HistoryHasWindow, DeletedIsGone

-----------------------------------------------------------------------------
(* The tables other than the requests. *)

LEMMA NoteType == ASSUME NEW o \in Outcomes, faulted \in BOOLEAN, Note(o)
                  PROVE  faulted' \in BOOLEAN /\ (~faulted' => ~faulted /\ o = "ok")
BY Zenon DEF Note

\* The request of w goes on with its message, or ends: nothing new is referred to.
LEMMA SameMessage ==
    ASSUME IInv, NEW w \in Workers, NEW r \in Request \cup {Idle}, Go(w, r),
           r # Idle => r.msg = req[w].msg /\ req[w] # Idle,
           r.step \in {"delete.find", "delete.remove"} => Deleting(w) /\ r.by = req[w].by,
           UNCHANGED author
    PROVE  /\ req' \in [Workers -> Request \cup {Idle}]
           /\ RequestsRefer'
           /\ req'[w] = r
           /\ \A v \in Workers \ {w} : req'[v] = req[v]
<1>1. req' \in [Workers -> Request \cup {Idle}] /\ req'[w] = r
        /\ \A v \in Workers \ {w} : req'[v] = req[v]
    BY DEF IInv, TypeOK, Go
<1>2. RequestsRefer'
    <2> SUFFICES ASSUME NEW v \in Workers
                 PROVE  /\ req'[v] # Idle => req'[v].msg \in DOMAIN author
                        /\ req'[v].step \in {"delete.find", "delete.remove"} =>
                             req'[v].by = author[req'[v].msg]
        BY DEF RequestsRefer
    <2>1. CASE v = w
        <3>1. r.step \in {"delete.find", "delete.remove"} => r # Idle
            BY DEF Idle
        <3> QED
            BY <1>1, <2>1, <3>1 DEF IInv, RequestsRefer, Deleting
    <2>2. CASE v # w
        BY <1>1, <2>2 DEF IInv, RequestsRefer
    <2> QED
        BY <2>1, <2>2
<1> QED
    BY <1>1, <1>2

LEMMA BeginStep ==
    ASSUME IInv, NEW w \in Workers, SendBegin(w)
    PROVE  IInv'
<1>1. PICK m \in Messages \ DOMAIN author, p \in Participants :
        /\ author' = [l \in DOMAIN author \cup {m} |-> IF l = m THEN p ELSE author[l]]
        /\ Go(w, [step |-> "send.add", msg |-> m])
    BY DEF SendBegin
<1>2. UNCHANGED <<history, expires, deleted, doubtful, faulted>> /\ req[w] = Idle
    BY DEF SendBegin
<1>3. /\ DOMAIN author' = DOMAIN author \cup {m}
      /\ \A l \in DOMAIN author : author'[l] = author[l]
      /\ author' \in [DOMAIN author' -> Participants]
    BY <1>1 DEF IInv, TypeOK
<1>4. [step |-> "send.add", msg |-> m] \in Request
    BY DEF Request
<1>5. /\ req' \in [Workers -> Request \cup {Idle}]
      /\ req'[w] = [step |-> "send.add", msg |-> m]
      /\ \A v \in Workers \ {w} : req'[v] = req[v]
    BY <1>1, <1>4 DEF Go, IInv, TypeOK
<1>6. TypeOK'
    BY <1>2, <1>3, <1>5 DEF IInv, TypeOK
<1>7. RequestsRefer'
    <2> SUFFICES ASSUME NEW v \in Workers
                 PROVE  /\ req'[v] # Idle => req'[v].msg \in DOMAIN author'
                        /\ req'[v].step \in {"delete.find", "delete.remove"} =>
                             req'[v].by = author'[req'[v].msg]
        BY DEF RequestsRefer
    <2>1. CASE v = w
        BY <1>3, <1>5, <2>1
    <2>2. CASE v # w
        <3>1. req'[v] = req[v]
            BY <1>5, <2>2
        <3>2. req[v].step \in {"delete.find", "delete.remove"} => req[v] # Idle
            BY DEF Idle
        <3> QED
            BY <1>3, <3>1, <3>2 DEF IInv, RequestsRefer
    <2> QED
        BY <2>1, <2>2
<1>8. m \notin history \cup deleted /\ \A v \in Workers : req[v] # Idle => req[v].msg # m
    BY DEF IInv, TypeOK, RequestsRefer
<1>9. FirstTry'
    <2> SUFFICES ASSUME NEW u \in Workers, At(u, "send.add")', req'[u].msg \notin doubtful'
                 PROVE  /\ req'[u].msg \notin history' \cup deleted'
                        /\ \A v \in Workers \ {u} : req'[v] # Idle => req'[v].msg # req'[u].msg
        BY DEF FirstTry
    <2>1. CASE u = w
        BY <1>2, <1>5, <1>8, <2>1
    <2>2. CASE u # w
        <3>1. req'[u] = req[u] /\ At(u, "send.add") /\ req[u].msg # m
            BY <1>5, <1>8, <2>2 DEF At, Idle
        <3> QED
            BY <1>2, <1>5, <2>2, <3>1 DEF IInv, FirstTry
    <2> QED
        BY <2>1, <2>2
<1>10. HistoryHasWindow'
    BY <1>2, <1>5 DEF IInv, HistoryHasWindow, At, Idle
<1>11. DeletedIsGone'
    BY <1>2 DEF IInv, DeletedIsGone
<1> QED
    BY <1>6, <1>7, <1>9, <1>10, <1>11 DEF IInv

LEMMA AddStep ==
    ASSUME IInv, NEW w \in Workers, SendAdd(w)
    PROVE  IInv'
<1> DEFINE m == req[w].msg
<1>1. PICK o \in Outcomes :
        /\ history' = IF Takes(o) THEN history \cup {m} ELSE history
        /\ IF o = "ok" THEN Goto(w, "send.expire") ELSE RepeatOrGiveUp(w)
        /\ doubtful' = IF o = "ok" THEN doubtful ELSE doubtful \cup {m}
        /\ Note(o)
    BY DEF SendAdd
<1>2. UNCHANGED <<expires, author, deleted>> /\ At(w, "send.add")
    BY DEF SendAdd
<1>3. req[w] # Idle /\ m \in DOMAIN author
    BY <1>2, RequestAt DEF IInv, RequestsRefer, At, Idle
<1>4. PICK r \in Request \cup {Idle} :
        /\ Go(w, r)
        /\ r = Idle \/ r = req[w] \/ r = [req[w] EXCEPT !.step = "send.expire"]
        /\ o = "ok" => r = [req[w] EXCEPT !.step = "send.expire"]
    <2>1. /\ [req[w] EXCEPT !.step = "send.expire"] \in Request
          /\ req[w] \in Request \cup {Idle}
        BY <1>2, RequestAt DEF IInv, At
    <2>2. CASE o = "ok"
        BY <1>1, <2>1, <2>2 DEF Goto, Go
    <2>3. CASE o # "ok" /\ Done(w)
        BY <2>3 DEF Done
    <2>4. CASE o # "ok" /\ UNCHANGED req
        BY <2>1, <2>4 DEF Go, IInv, TypeOK
    <2> QED
        BY <1>1, <2>2, <2>3, <2>4 DEF RepeatOrGiveUp
<1>5. r # Idle => r.msg = m /\ r.step \in {"send.add", "send.expire"}
    <2>1. req[w] \in [step : {"send.add", "send.expire"}, msg : Messages]
        BY <1>2, RequestAt DEF IInv, At, Request, Idle
    <2> QED
        BY <1>2, <1>4, <2>1 DEF At
<1>6. /\ req' \in [Workers -> Request \cup {Idle}]
      /\ RequestsRefer'
      /\ req'[w] = r
      /\ \A v \in Workers \ {w} : req'[v] = req[v]
    <2>1. r.step \notin {"delete.find", "delete.remove"}
        BY <1>5 DEF Idle
    <2> QED
        BY <1>2, <1>3, <1>4, <1>5, <2>1, SameMessage
<1>7. TypeOK'
    <2>1. faulted' \in BOOLEAN
        BY <1>1, NoteType DEF IInv, TypeOK
    <2>2. history' \subseteq DOMAIN author /\ (history # {} => history' # {}) /\ doubtful' \subseteq DOMAIN author
        BY <1>1, <1>3 DEF IInv, TypeOK
    <2> QED
        BY <1>2, <1>6, <2>1, <2>2 DEF IInv, TypeOK
<1>8. FirstTry'
    <2> SUFFICES ASSUME NEW u \in Workers, At(u, "send.add")', req'[u].msg \notin doubtful'
                 PROVE  /\ req'[u].msg \notin history' \cup deleted'
                        /\ \A v \in Workers \ {u} : req'[v] # Idle => req'[v].msg # req'[u].msg
        BY DEF FirstTry
    <2>1. u # w
        <3>1. CASE o = "ok"
            <4>1. r.step = "send.expire"
                BY <1>2, <1>4, <3>1, RequestAt DEF IInv, At, Request, Idle
            <4> QED
                BY <1>6, <4>1 DEF At
        <3>2. CASE o # "ok"
            BY <1>1, <1>5, <1>6, <3>2 DEF At, Idle
        <3> QED
            BY <3>1, <3>2
    <2>2. req'[u] = req[u] /\ At(u, "send.add") /\ req[u].msg \notin doubtful
        BY <1>1, <1>6, <2>1 DEF At
    <2>3. req[u].msg # m
        BY <1>3, <2>1, <2>2 DEF IInv, FirstTry
    <2> QED
        BY <1>1, <1>2, <1>5, <1>6, <2>1, <2>2, <2>3 DEF IInv, FirstTry
<1>9. HistoryHasWindow'
    <2> SUFFICES ASSUME ~faulted' PROVE \E v \in Workers : At(v, "send.expire")'
        BY DEF HistoryHasWindow
    <2>1. o = "ok"
        BY <1>1, NoteType DEF IInv, TypeOK
    <2>2. r.step = "send.expire"
        BY <1>2, <1>4, <2>1, RequestAt DEF IInv, At, Request, Idle
    <2> QED
        BY <1>6, <2>2 DEF At
<1>10. DeletedIsGone'
    <2>1. m \notin doubtful => m \notin deleted
        BY <1>2 DEF IInv, FirstTry
    <2> QED
        BY <1>1, <1>2, <2>1 DEF IInv, DeletedIsGone
<1> QED
    BY <1>6, <1>7, <1>8, <1>9, <1>10 DEF IInv

\* Steps of requests other than those that try a ZADD.
LEMMA OtherFirstTry ==
    ASSUME IInv, NEW w \in Workers, NEW r,
           req'[w] = r, \A v \in Workers \ {w} : req'[v] = req[v],
           r.step # "send.add",
           r # Idle => r.msg \in history \/ (req[w] # Idle /\ r.msg = req[w].msg),
           history' \subseteq history, UNCHANGED doubtful,
           \A l \in deleted' \ deleted : req[w] # Idle /\ l = req[w].msg
    PROVE  FirstTry'
<1> SUFFICES ASSUME NEW u \in Workers, At(u, "send.add")', req'[u].msg \notin doubtful'
             PROVE  /\ req'[u].msg \notin history' \cup deleted'
                    /\ \A v \in Workers \ {u} : req'[v] # Idle => req'[v].msg # req'[u].msg
    BY DEF FirstTry
<1>1. u # w
    BY DEF At
<1>2. req'[u] = req[u] /\ At(u, "send.add") /\ req[u].msg \notin doubtful
    BY <1>1 DEF At
<1>3. /\ req[u].msg \notin history \cup deleted
      /\ \A v \in Workers \ {u} : req[v] # Idle => req[v].msg # req[u].msg
    BY <1>2 DEF IInv, FirstTry
<1> QED
    BY <1>1, <1>2, <1>3

LEMMA ExpireStep ==
    ASSUME IInv, NEW w \in Workers, SendExpire(w)
    PROVE  IInv'
<1>1. PICK o \in Outcomes :
        /\ expires' = (expires \/ (Takes(o) /\ history # {}))
        /\ IF o = "ok" THEN Done(w) ELSE RepeatOrGiveUp(w)
        /\ Note(o)
    BY DEF SendExpire
<1>2. UNCHANGED <<history, author, deleted, doubtful>> /\ At(w, "send.expire")
    BY DEF SendExpire
<1>3. req[w] \in Request \cup {Idle} /\ req[w] # Idle
    BY <1>2, RequestAt DEF IInv, At, Idle
<1>4. PICK r \in {Idle, req[w]} : Go(w, r)
    BY <1>1, <1>3 DEF Go, Done, RepeatOrGiveUp, IInv, TypeOK
<1>5. /\ r # Idle => r.msg = req[w].msg
      /\ r.step \notin {"delete.find", "delete.remove", "send.add"}
    BY <1>2, <1>4 DEF At, Idle
<1>6. /\ req' \in [Workers -> Request \cup {Idle}]
      /\ RequestsRefer'
      /\ req'[w] = r
      /\ \A v \in Workers \ {w} : req'[v] = req[v]
    BY <1>2, <1>3, <1>4, <1>5, SameMessage
<1>7. TypeOK'
    <2>1. faulted' \in BOOLEAN
        BY <1>1, NoteType DEF IInv, TypeOK
    <2>2. expires' \in BOOLEAN /\ (expires' => history # {})
        BY <1>1 DEF IInv, TypeOK
    <2> QED
        BY <1>2, <1>6, <2>1, <2>2 DEF IInv, TypeOK
<1>8. FirstTry'
    BY <1>2, <1>3, <1>5, <1>6, OtherFirstTry
<1>9. HistoryHasWindow'
    <2> SUFFICES ASSUME ~faulted', history' # {} PROVE expires'
        BY DEF HistoryHasWindow
    <2>1. o = "ok"
        BY <1>1, NoteType DEF IInv, TypeOK
    <2> QED
        BY <1>1, <1>2, <2>1 DEF Takes
<1>10. DeletedIsGone'
    BY <1>2 DEF IInv, DeletedIsGone
<1> QED
    BY <1>6, <1>7, <1>8, <1>9, <1>10 DEF IInv

\* The handler has found the author of a message on the page.
LEMMA CheckStep ==
    ASSUME IInv, NEW w \in Workers, DeleteCheck(w)
    PROVE  IInv'
<1>1. PICK m \in history, p \in Participants :
        author[m] = p /\ Go(w, [step |-> "delete.find", msg |-> m, by |-> p])
    BY DEF DeleteCheck, Newest
<1>2. UNCHANGED <<history, expires, author, deleted, doubtful, faulted>> /\ req[w] = Idle
    BY DEF DeleteCheck
<1> DEFINE r == [step |-> "delete.find", msg |-> m, by |-> p]
<1>3. m \in DOMAIN author /\ m \in Messages
    BY DEF IInv, TypeOK
<1>4. r \in Request
    BY <1>3 DEF Request
<1>5. /\ req' \in [Workers -> Request \cup {Idle}]
      /\ req'[w] = r
      /\ \A v \in Workers \ {w} : req'[v] = req[v]
    BY <1>1, <1>4 DEF Go, IInv, TypeOK
<1>6. TypeOK'
    BY <1>2, <1>5 DEF IInv, TypeOK
<1>7. RequestsRefer'
    BY <1>1, <1>2, <1>3, <1>5 DEF IInv, RequestsRefer
<1>8. FirstTry'
    BY <1>2, <1>5, OtherFirstTry
<1>9. HistoryHasWindow'
    BY <1>2, <1>5 DEF IInv, HistoryHasWindow, At, Idle
<1>10. DeletedIsGone'
    BY <1>2 DEF IInv, DeletedIsGone
<1> QED
    BY <1>6, <1>7, <1>8, <1>9, <1>10 DEF IInv

LEMMA FindStep ==
    ASSUME IInv, NEW w \in Workers, DeleteFind(w)
    PROVE  IInv'
<1>1. PICK o \in Outcomes :
        /\ IF o = "ok" /\ req[w].msg \in history THEN Goto(w, "delete.remove") ELSE Done(w)
        /\ Note(o)
    BY DEF DeleteFind
<1>2. UNCHANGED <<history, expires, author, deleted, doubtful>> /\ At(w, "delete.find")
    BY DEF DeleteFind
<1>3. Deleting(w) /\ req[w] # Idle
    BY <1>2 DEF Deleting, At, Idle
<1>4. req[w] \in [step : {"delete.find", "delete.remove"}, msg : Messages, by : Participants]
    BY <1>2, RequestAt DEF IInv, At, Request, Idle
<1>5. PICK r \in {Idle, [req[w] EXCEPT !.step = "delete.remove"]} : Go(w, r)
    BY <1>1 DEF Go, Goto, Done
<1>6. /\ r \in Request \cup {Idle}
      /\ r # Idle => r.msg = req[w].msg /\ r.by = req[w].by
      /\ r.step \in {"idle", "delete.remove"}
      /\ r.step = "delete.remove" => r # Idle
    BY <1>4, <1>5 DEF Request, Idle
<1>7. /\ req' \in [Workers -> Request \cup {Idle}]
      /\ RequestsRefer'
      /\ req'[w] = r
      /\ \A v \in Workers \ {w} : req'[v] = req[v]
    BY <1>2, <1>3, <1>5, <1>6, SameMessage
<1>8. TypeOK' /\ (~faulted' => ~faulted)
    BY <1>1, <1>2, <1>7, NoteType DEF IInv, TypeOK
<1>9. FirstTry'
    BY <1>2, <1>3, <1>6, <1>7, OtherFirstTry
<1>10. HistoryHasWindow'
    BY <1>2, <1>7, <1>8 DEF IInv, HistoryHasWindow, At
<1>11. DeletedIsGone'
    BY <1>2 DEF IInv, DeletedIsGone
<1> QED
    BY <1>7, <1>8, <1>9, <1>10, <1>11 DEF IInv

LEMMA RemoveStep ==
    ASSUME IInv, NEW w \in Workers, DeleteRemove(w)
    PROVE  IInv'
<1> DEFINE m == req[w].msg
<1>1. PICK o \in Outcomes :
        /\ IF Takes(o) THEN Remove(m) ELSE UNCHANGED <<history, expires>>
        /\ IF o = "ok" THEN Done(w) /\ deleted' = deleted \cup {m}
                       ELSE RepeatOrGiveUp(w) /\ UNCHANGED deleted
        /\ Note(o)
    BY DEF DeleteRemove
<1>2. UNCHANGED <<author, doubtful>> /\ At(w, "delete.remove")
    BY DEF DeleteRemove
<1>3. Deleting(w) /\ req[w] # Idle /\ req[w] \in Request \cup {Idle} /\ m \in DOMAIN author
    BY <1>2, RequestAt DEF Deleting, At, Idle, IInv, RequestsRefer
<1>4. PICK r \in {Idle, req[w]} : Go(w, r)
    BY <1>1 DEF Go, Done, RepeatOrGiveUp, IInv, TypeOK
<1>5. /\ r # Idle => r.msg = m /\ r.by = req[w].by
      /\ r.step # "send.add"
    BY <1>2, <1>4 DEF At, Idle
<1>6. /\ req' \in [Workers -> Request \cup {Idle}]
      /\ RequestsRefer'
      /\ req'[w] = r
      /\ \A v \in Workers \ {w} : req'[v] = req[v]
    <2>1. r.step \in {"delete.find", "delete.remove"} => r # Idle
        BY DEF Idle
    <2> QED
        BY <1>2, <1>3, <1>4, <1>5, <2>1, SameMessage
<1>7. /\ history' \subseteq history
      /\ expires' \in BOOLEAN
      /\ expires' => history' # {}
      /\ expires /\ history' # {} => expires'
    BY <1>1 DEF Remove, IInv, TypeOK
<1>8. deleted' \subseteq deleted \cup {m}
    BY <1>1
<1>9. TypeOK' /\ (~faulted' => ~faulted)
    <2>1. faulted' \in BOOLEAN /\ (~faulted' => ~faulted)
        BY <1>1, NoteType DEF IInv, TypeOK
    <2> QED
        BY <1>2, <1>3, <1>6, <1>7, <1>8, <2>1 DEF IInv, TypeOK
<1>10. FirstTry'
    BY <1>2, <1>3, <1>5, <1>6, <1>7, <1>8, OtherFirstTry
<1>11. HistoryHasWindow'
    BY <1>2, <1>6, <1>7, <1>9 DEF IInv, HistoryHasWindow, At
<1>12. DeletedIsGone'
    <2>1. m \in deleted' \ deleted => m \notin history'
        BY <1>1 DEF Takes, Remove
    <2> QED
        BY <1>2, <1>7, <1>8, <2>1 DEF IInv, DeletedIsGone
<1> QED
    BY <1>6, <1>9, <1>10, <1>11, <1>12 DEF IInv

LEMMA KeyStep ==
    ASSUME IInv, KeyExpires
    PROVE  IInv'
<1>1. UNCHANGED <<author, req, deleted, doubtful, faulted>> /\ history' = {} /\ expires' = FALSE
    BY DEF KeyExpires
<1> QED
    BY <1>1 DEF IInv, TypeOK, RequestsRefer, FirstTry, HistoryHasWindow, DeletedIsGone, At

LEMMA CrashStep ==
    ASSUME IInv, Crash
    PROVE  IInv'
<1>1. /\ UNCHANGED <<history, expires, author, deleted, doubtful>>
      /\ faulted' = TRUE
      /\ req' = [w \in Workers |-> Idle]
    BY DEF Crash
<1>2. TypeOK'
    BY <1>1 DEF IInv, TypeOK
<1>3. RequestsRefer' /\ FirstTry'
    BY <1>1 DEF RequestsRefer, FirstTry, At, Idle
<1> QED
    BY <1>1, <1>2, <1>3 DEF IInv, HistoryHasWindow, DeletedIsGone

LEMMA StepIInv == IInv /\ [Next]_vars => IInv'
<1>1. CASE UNCHANGED vars
    BY <1>1 DEF vars, IInv, TypeOK, RequestsRefer, FirstTry, HistoryHasWindow, DeletedIsGone, At
<1> QED
    BY <1>1, BeginStep, AddStep, ExpireStep, CheckStep, FindStep, RemoveStep, KeyStep, CrashStep
       DEF Next, Continue

LEMMA Invariance == Spec => []IInv
BY InitIInv, StepIInv, PTL DEF Spec

\* The set, its time to live and the requests keep their types: a key that
\* expires holds messages, and every message has an author.
THEOREM TypeCorrect == Spec => []TypeOK
<1>1. IInv => TypeOK
    BY DEF IInv
<1> QED
    BY <1>1, Invariance, PTL

\* Without a fault a chat never stays without its six hours.
THEOREM HistoryHasWindowHolds == Spec => []HistoryHasWindow
<1>1. IInv => HistoryHasWindow
    BY DEF IInv
<1> QED
    BY <1>1, Invariance, PTL

\* A deleted message only comes back when its own ZADD was repeated.
THEOREM DeletedIsGoneHolds == Spec => []DeletedIsGone
<1>1. IInv => DeletedIsGone
    BY DEF IInv
<1> QED
    BY <1>1, Invariance, PTL

\* Only a message's author, or the expiry of the whole chat, takes it away.
THEOREM OnlyAuthorsDeleteHolds == Spec => OnlyAuthorsDelete
<1> DEFINE Stays(m) ==
    m \in history \ history' =>
        \/ expires /\ history' = {} /\ UNCHANGED req
        \/ \E w \in Workers : At(w, "delete.remove") /\ req[w].msg = m /\ req[w].by = author[m]
<1>1. ASSUME IInv, [Next]_vars, NEW m \in history \ history'
      PROVE  Stays(m)
    <2>1. KeyExpires \/ \E w \in Workers : DeleteRemove(w)
        BY <1>1 DEF Next, Continue, vars, SendBegin, SendAdd, SendExpire, DeleteCheck, DeleteFind, Crash
    <2>2. CASE KeyExpires
        BY <2>2 DEF KeyExpires
    <2>3. CASE \E w \in Workers : DeleteRemove(w)
        <3>1. PICK w \in Workers : DeleteRemove(w)
            BY <2>3
        <3>2. At(w, "delete.remove") /\ req[w].msg = m
            BY <1>1, <3>1 DEF DeleteRemove, Remove
        <3>3. req[w].by = author[m]
            BY <1>1, <3>2 DEF IInv, RequestsRefer, At
        <3> QED
            BY <3>2, <3>3
    <2> QED
        BY <2>1, <2>2, <2>3
<1>2. IInv /\ [Next]_vars => [\A m \in history \ history' :
            \/ expires /\ history' = {} /\ UNCHANGED req
            \/ \E w \in Workers :
                 At(w, "delete.remove") /\ req[w].msg = m /\ req[w].by = author[m]]_vars
    BY <1>1
<1> QED
    BY <1>2, Invariance, PTL DEF Spec, OnlyAuthorsDelete

-----------------------------------------------------------------------------
(* Liveness.  Fairness says WF_vars(Continue(w)) of every goroutine and         *)
(* WF_vars(KeyExpires): what is enabled from some moment on is taken.  A        *)
(* request can always go on, since each of its commands has an outcome that     *)
(* moves it on, whatever it finds, and a key can expire as long as it has a     *)
(* time to live.  So the two say the same as these, without ENABLED.            *)
Scheduled == [](\A w \in Workers : <>(req[w] = Idle) \/ <><<Continue(w)>>_vars)

TimePasses == [](<>~expires \/ <><<KeyExpires>>_vars)

\* From some moment on no message is added.
MessagesStop == <>[][history' \subseteq history]_vars

\* The request that is about to give the chat its six hours.
Setting(w) == At(w, "send.expire")

LEMMA SettingStep ==
    ASSUME IInv, [Next]_vars, NEW w \in Workers, Setting(w), ~faulted'
    PROVE  /\ Setting(w)' \/ expires' \/ history' = {}
           /\ Continue(w) => expires' \/ history' = {}
<1>1. ASSUME SendExpire(w) PROVE expires' \/ history' = {}
    <2>1. PICK o \in Outcomes :
            /\ expires' = (expires \/ (Takes(o) /\ history # {}))
            /\ Note(o)
        BY <1>1 DEF SendExpire
    <2>2. o = "ok" /\ history' = history
        BY <1>1, <2>1, NoteType DEF SendExpire, IInv, TypeOK
    <2> QED
        BY <2>1, <2>2 DEF Takes
<1>2. Continue(w) => SendExpire(w)
    BY DEF Continue, Setting, SendAdd, DeleteFind, DeleteRemove, At
<1>3. ASSUME NEW v \in Workers, SendBegin(v) \/ DeleteCheck(v) PROVE Setting(w)'
    <2>1. v # w
        BY <1>3 DEF SendBegin, DeleteCheck, Setting, At, Idle
    <2>2. PICK r : Go(v, r)
        BY <1>3 DEF SendBegin, DeleteCheck
    <2> QED
        BY <2>1, <2>2 DEF Go, Setting, At, IInv, TypeOK
<1>4. ASSUME NEW v \in Workers, v # w, Continue(v) PROVE Setting(w)'
    BY <1>4 DEF Continue, SendAdd, SendExpire, DeleteFind, DeleteRemove, Setting, At, Go,
                Goto, Done, RepeatOrGiveUp, IInv, TypeOK
<1>5. CASE KeyExpires
    BY <1>2, <1>5 DEF KeyExpires
<1>6. ~Crash
    BY DEF Crash
<1>7. ASSUME UNCHANGED vars PROVE Setting(w)'
    BY <1>7 DEF vars, Setting, At
<1> QED
    BY <1>1, <1>2, <1>3, <1>4, <1>5, <1>6, <1>7 DEF Next

\* A chat that will expire does.
LEMMA ExpiryLasts ==
    ASSUME IInv, [Next]_vars, expires
    PROVE  expires' \/ history' = {}
<1>1. ASSUME NEW w \in Workers, DeleteRemove(w) PROVE expires' \/ history' = {}
    BY <1>1 DEF DeleteRemove, Remove
<1> QED
    BY <1>1 DEF Next, Continue, vars, SendBegin, SendAdd, SendExpire, DeleteCheck, DeleteFind,
                KeyExpires, Crash, IInv, TypeOK

\* Nothing left, again and again.
LEMMA KeepsEmptying ==
    []IInv /\ [][Next]_vars /\ []~faulted /\ Scheduled /\ TimePasses => []<>(history = {})
<1> SUFFICES ASSUME []IInv, [][Next]_vars, []~faulted,
                    [](\A w \in Workers : <>(req[w] = Idle) \/ <><<Continue(w)>>_vars),
                    [](<>~expires \/ <><<KeyExpires>>_vars)
             PROVE  []<>(history = {})
    BY DEF Scheduled, TimePasses
<1> DEFINE Empty == history = {}
           HasEnd == expires
<1>1. \A w \in Workers : <>(req[w] = Idle) \/ <><<Continue(w)>>_vars
    BY PTL
<1>2. ASSUME NEW w \in Workers PROVE Setting(w) => <>(HasEnd \/ Empty)
    <2>1. <>(req[w] = Idle) \/ <><<Continue(w)>>_vars
        BY <1>1, Zenon
    <2>2. IInv /\ [Next]_vars /\ ~faulted' => (Setting(w) => Setting(w)' \/ HasEnd' \/ Empty')
        BY SettingStep
    <2>3. IInv /\ [Next]_vars /\ ~faulted' /\ <<Continue(w)>>_vars
            => (Setting(w) => HasEnd' \/ Empty')
        BY SettingStep
    <2>4. req[w] = Idle => ~Setting(w)
        BY DEF Setting, At, Idle
    <2> HIDE DEF Empty, HasEnd
    <2> QED
        BY <2>1, <2>2, <2>3, <2>4, PTL
<1>3. (\E w \in Workers : Setting(w)) => <>(HasEnd \/ Empty)
    <2> HIDE DEF Empty, HasEnd
    <2> QED
        BY <1>2, Zenon
<1>4. IInv /\ ~faulted => Empty \/ HasEnd \/ \E w \in Workers : Setting(w)
    BY DEF IInv, HistoryHasWindow, Setting
<1>5. IInv /\ [Next]_vars => (HasEnd => HasEnd' \/ Empty')
    BY ExpiryLasts
<1>6. <<KeyExpires>>_vars => Empty'
    BY DEF KeyExpires
<1>7. HasEnd => <>Empty
    BY <1>5, <1>6, PTL
<1>8. Empty => history = {}
    OBVIOUS
<1> HIDE DEF Empty, HasEnd
<1> QED
    BY <1>3, <1>4, <1>7, <1>8, PTL

\* The data evaporates: once the messages stop, and as long as nothing failed,
\* nothing is left in the end, because every key that a ZADD creates gets its
\* time to live, whatever deletes and expiry do in between.
THEOREM EvaporatesHolds == Spec /\ Scheduled /\ TimePasses /\ MessagesStop => Evaporates
<1>1. history = {} /\ [history' \subseteq history]_vars => (history = {})'
    BY DEF vars
<1> QED
    BY <1>1, KeepsEmptying, Invariance, PTL DEF Spec, Evaporates, MessagesStop
=============================================================================
