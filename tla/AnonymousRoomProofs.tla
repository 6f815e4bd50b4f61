------------------------ MODULE AnonymousRoomProofs ------------------------
(***************************************************************************)
(* Theorems about AnonymousRoom, for any sets of rooms, participants and   *)
(* goroutines, with or without faults; and, as long as requests are served *)
(* one at a time and nothing fails, that it implements RoomContract.       *)
(***************************************************************************)
EXTENDS AnonymousRoomRefinement, TLAPS

-----------------------------------------------------------------------------
(* What the statements do to the table of participants. *)

\* An INSERT adds one row at the end and leaves the others alone.
LEMMA InsertRow ==
    ASSUME rows \in Seq(Row), NEW r \in Rooms, NEW p \in Participants,
           NEW role \in {"host", "participant"},
           rows' = Append(rows, NewRow(r, p, role))
    PROVE  /\ rows' \in Seq(Row)
           /\ Len(rows') = Len(rows) + 1
           /\ DOMAIN rows = 1 .. Len(rows)
           /\ DOMAIN rows' = 1 .. Len(rows')
           /\ \A i \in DOMAIN rows : rows'[i] = rows[i]
           /\ rows'[Len(rows) + 1] = NewRow(r, p, role)
<1>1. NewRow(r, p, role) \in Row
    BY DEF NewRow, Row
<1> QED
    BY <1>1

\* MarkParticipantLeft keeps every row, and every column of it but left_at.
LEMMA MarkedRows ==
    ASSUME rows \in Seq(Row), NEW r, NEW p, rows' = MarkLeft(r, p)
    PROVE  /\ rows' \in Seq(Row)
           /\ Len(rows') = Len(rows)
           /\ DOMAIN rows' = DOMAIN rows
           /\ \A i \in DOMAIN rows :
                /\ rows'[i].room = rows[i].room
                /\ rows'[i].pid = rows[i].pid
                /\ rows'[i].role = rows[i].role
                /\ rows[i].left => rows'[i].left
<1>1. DOMAIN rows = 1 .. Len(rows) /\ Len(rows) \in Nat
    OBVIOUS
<1>2. \A i \in DOMAIN rows : rows[i] \in Row
    OBVIOUS
<1>3. rows' = [i \in 1 .. Len(rows) |->
                 IF i \in ActiveOf(r, p) THEN [rows[i] EXCEPT !.left = TRUE] ELSE rows[i]]
    BY <1>1 DEF MarkLeft
<1>4. \A i \in DOMAIN rows :
        /\ rows'[i] \in Row
        /\ rows'[i].room = rows[i].room
        /\ rows'[i].pid = rows[i].pid
        /\ rows'[i].role = rows[i].role
        /\ rows[i].left => rows'[i].left
    <2> TAKE i \in DOMAIN rows
    <2>1. rows[i] \in Row /\ [rows[i] EXCEPT !.left = TRUE] \in Row
        BY <1>2 DEF Row
    <2>2. rows'[i] = rows[i] \/ rows'[i] = [rows[i] EXCEPT !.left = TRUE]
        BY <1>1, <1>3
    <2> QED
        BY <2>1, <2>2 DEF Row
<1>5. rows' \in Seq(Row) /\ Len(rows') = Len(rows)
    BY <1>1, <1>3, <1>4
<1> QED
    BY <1>1, <1>3, <1>4, <1>5

-----------------------------------------------------------------------------
(* Types. *)

LEMMA TypeInit == Init => TypeOK
BY DEF Init, TypeOK, Row, Request, Idle

LEMMA TypeStep == TypeOK /\ [Next]_vars => TypeOK'
<1> SUFFICES ASSUME TypeOK, [Next]_vars PROVE TypeOK'
    OBVIOUS
<1> USE DEF TypeOK, At, Goto, Done, Start, Request, Idle, Steps
<1>1. ASSUME NEW w \in Workers, CreateRoom(w) PROVE TypeOK'
    BY <1>1 DEF CreateRoom
<1>2. ASSUME NEW w \in Workers, CreateHost(w) PROVE TypeOK'
    <2>1. rows' \in Seq(Row)
        BY <1>2, InsertRow DEF CreateHost
    <2> QED
        BY <1>2, <2>1 DEF CreateHost
<1>3. ASSUME NEW w \in Workers, JoinStatus(w) PROVE TypeOK'
    BY <1>3 DEF JoinStatus
<1>4. ASSUME NEW w \in Workers, JoinLookup(w) PROVE TypeOK'
    BY <1>4 DEF JoinLookup
<1>5. ASSUME NEW w \in Workers, JoinInsert(w) PROVE TypeOK'
    <2>1. rows' \in Seq(Row)
        BY <1>5, InsertRow DEF JoinInsert
    <2> QED
        BY <1>5, <2>1 DEF JoinInsert
<1>6. ASSUME NEW w \in Workers, LeaveMark(w) PROVE TypeOK'
    <2>1. rows' \in Seq(Row)
        BY <1>6, MarkedRows DEF LeaveMark
    <2> QED
        BY <1>6, <2>1 DEF LeaveMark
<1>7. ASSUME NEW w \in Workers, LeaveCount(w) PROVE TypeOK'
    <2>1. Len(rows) \in Nat
        OBVIOUS
    <2> QED
        BY <1>7, <2>1 DEF LeaveCount
<1>8. ASSUME NEW w \in Workers, LeaveEnd(w) PROVE TypeOK'
    BY <1>8 DEF LeaveEnd, SetRoomStatus
<1>9. ASSUME NEW w \in Workers, TokenRead(w) PROVE TypeOK'
    BY <1>9 DEF TokenRead
<1>10. ASSUME NEW w \in Workers, TokenInsert(w) PROVE TypeOK'
    BY <1>10 DEF TokenInsert
<1>11. ASSUME NEW w \in Workers, TokenSign(w) PROVE TypeOK'
    BY <1>11 DEF TokenSign
<1>12. CASE Crash
    BY <1>12 DEF Crash
<1>13. CASE UNCHANGED vars
    BY <1>13 DEF vars
<1> QED
    BY <1>1, <1>2, <1>3, <1>4, <1>5, <1>6, <1>7, <1>8, <1>9, <1>10, <1>11, <1>12, <1>13
       DEF Next, Arrive, Continue

\* The tables and the requests under way keep their types in every behaviour,
\* whatever fails: the rows remain a table of well-formed participants.
THEOREM TypeCorrect == Spec => []TypeOK
BY TypeInit, TypeStep, PTL DEF Spec

-----------------------------------------------------------------------------
(* The invariant.  OneHost is not inductive: a second host row could come    *)
(* from a Create under way, so the invariant says what such a Create has to  *)
(* itself.  EmptyWhenCounted needs that the rows only grow.                  *)

\* The foreign key room_id: a participant has a room, and so has a request
\* that is about to insert one.
RowsHaveRooms ==
    /\ \A i \in DOMAIN rows : status[rows[i].room] # "none"
    /\ \A w \in Workers :
        req[w].step \in {"create.host", "join.lookup", "join.insert"}
            => status[req[w].room] # "none"

\* A room under creation has no host yet and one creator.
CreatorAlone ==
    \A w \in Workers : At(w, "create.host") =>
        /\ \A i \in DOMAIN rows :
            rows[i].role = "host" => rows[i].room # req[w].room
        /\ \A v \in Workers :
            At(v, "create.host") /\ req[v].room = req[w].room => v = w

SeenIsPast == \A w \in Workers : At(w, "leave.end") => req[w].seen <= Len(rows)

IInv == TypeOK /\ RowsHaveRooms /\ CreatorAlone /\ OneHost /\ SeenIsPast /\ EmptyWhenCounted

LEMMA InvInit == Init => IInv
<1> SUFFICES ASSUME Init PROVE IInv
    OBVIOUS
<1>1. TypeOK
    BY TypeInit
<1> QED
    BY <1>1 DEF Init, IInv, RowsHaveRooms, CreatorAlone, OneHost, SeenIsPast,
                EmptyWhenCounted, At, Idle

\* A step that leaves the table of participants alone and in which no request
\* gets to "create.host" or "leave.end" preserves the invariant.
LEMMA QuietStep ==
    ASSUME IInv, TypeOK', UNCHANGED rows,
           \A r \in Rooms : status[r] # "none" => status'[r] # "none",
           \A v \in Workers :
              \/ req'[v] = req[v]
              \/ req'[v].step \notin {"create.host", "join.lookup", "join.insert", "leave.end"}
              \/ /\ req'[v].step \in {"join.lookup", "join.insert"}
                 /\ status'[req'[v].room] # "none"
    PROVE  IInv'
<1> USE DEF IInv, TypeOK, At
<1>1. \A i \in DOMAIN rows : rows[i] \in Row
    OBVIOUS
<1>2. \A v \in Workers :
        /\ req'[v].step \in {"create.host", "leave.end"} => req'[v] = req[v]
        /\ req[v].step \in Steps => req[v].room \in Rooms
    BY DEF Request, Idle, Steps
<1>3. RowsHaveRooms'
    BY <1>1, <1>2 DEF RowsHaveRooms, Row, Steps
<1>4. CreatorAlone'
    BY <1>2 DEF CreatorAlone
<1>5. OneHost'
    BY DEF OneHost
<1>6. SeenIsPast' /\ EmptyWhenCounted'
    BY <1>2 DEF SeenIsPast, EmptyWhenCounted, Active
<1> QED
    BY <1>3, <1>4, <1>5, <1>6

\* An INSERT into the participants by the request of w, which ends with it,
\* preserves the invariant; a host is inserted by the creator only.
LEMMA InsertStep ==
    ASSUME IInv, NEW w \in Workers, NEW role \in {"host", "participant"},
           req[w].step \in {"create.host", "join.insert"},
           role = "host" => At(w, "create.host"),
           rows' = Append(rows, NewRow(req[w].room, req[w].pid, role)),
           Done(w), UNCHANGED status, UNCHANGED tokens
    PROVE  IInv'
<1> USE DEF IInv, TypeOK, At
<1>1. req[w] \in Request
    BY DEF Idle
<1>2. /\ rows' \in Seq(Row)
      /\ Len(rows') = Len(rows) + 1
      /\ DOMAIN rows = 1 .. Len(rows)
      /\ DOMAIN rows' = 1 .. Len(rows')
      /\ \A i \in DOMAIN rows : rows'[i] = rows[i]
      /\ rows'[Len(rows) + 1] = NewRow(req[w].room, req[w].pid, role)
    BY <1>1, InsertRow DEF Request
<1>3. /\ Len(rows) \in Nat
      /\ DOMAIN rows' = DOMAIN rows \cup {Len(rows) + 1}
    BY <1>2
<1>4. /\ req'[w] = Idle
      /\ \A v \in Workers : v # w => req'[v] = req[v]
      /\ \A v \in Workers : req'[v].step # "idle" => v # w /\ req'[v] = req[v]
    BY DEF Done, Idle
<1>5. LET n == rows'[Len(rows) + 1]
      IN  n.room = req[w].room /\ n.role = role
    BY <1>2 DEF NewRow
<1>6. TypeOK'
    BY <1>2 DEF Done
<1>7. RowsHaveRooms'
    BY <1>1, <1>2, <1>3, <1>4, <1>5 DEF RowsHaveRooms, Idle
<1>8. CreatorAlone'
    <2>1. \A v \in Workers : v # w /\ At(v, "create.host") /\ role = "host"
            => req[v].room # req[w].room
        BY DEF CreatorAlone
    <2> QED
        BY <1>2, <1>3, <1>4, <1>5, <2>1 DEF CreatorAlone, Idle
<1>9. OneHost'
    <2>1. role = "host" => \A i \in DOMAIN rows :
            rows[i].role = "host" => rows[i].room # req[w].room
        BY DEF CreatorAlone
    <2> QED
        BY <1>2, <1>3, <1>5, <2>1 DEF OneHost
<1>10. SeenIsPast'
    BY <1>2, <1>3, <1>4 DEF SeenIsPast, Request, Idle
<1>11. EmptyWhenCounted'
    <2> SUFFICES ASSUME NEW v \in Workers, At(v, "leave.end")',
                        NEW i \in Active(req[v].room)'
                 PROVE  i > req'[v].seen
        BY DEF EmptyWhenCounted
    <2>1. v # w /\ req'[v] = req[v] /\ req[v] \in Request
        BY <1>4 DEF Idle
    <2>2. CASE i = Len(rows) + 1
        BY <1>3, <2>1, <2>2 DEF SeenIsPast, Request
    <2>3. CASE i \in DOMAIN rows
        BY <1>2, <2>1, <2>3 DEF EmptyWhenCounted, Active
    <2> QED
        BY <1>3, <2>2, <2>3 DEF Active
<1> QED
    BY <1>6, <1>7, <1>8, <1>9, <1>10, <1>11

LEMMA InvStep == IInv /\ [Next]_vars => IInv'
<1> SUFFICES ASSUME IInv, [Next]_vars PROVE IInv'
    OBVIOUS
<1>1. TypeOK'
    BY TypeStep DEF IInv
<1>2. TypeOK
    BY DEF IInv
<1> USE <1>2 DEF TypeOK, At, Goto, Done, Start, Idle
<1>3. ASSUME NEW w \in Workers, CreateRoom(w) PROVE IInv'
    <2>1. PICK r \in Rooms, p \in Participants, o \in Outcomes :
            /\ Fresh(r)
            /\ status' = IF Takes(o) THEN [status EXCEPT ![r] = "active"] ELSE status
            /\ IF o = "ok" THEN Start(w, "create.host", r, p) ELSE UNCHANGED req
        BY <1>3 DEF CreateRoom
    <2>2. CASE o # "ok"
        BY <1>1, <1>2, <1>3, <2>1, <2>2, QuietStep DEF CreateRoom
    <2>3. CASE o = "ok"
        <3>1. /\ status' = [status EXCEPT ![r] = "active"]
              /\ req' = [req EXCEPT ![w] =
                    [step |-> "create.host", room |-> r, pid |-> p, seen |-> 0]]
              /\ rows' = rows
            BY <1>3, <2>1, <2>3 DEF CreateRoom, Takes
        <3>2. \A i \in DOMAIN rows : rows[i] \in Row /\ rows[i].room # r
            BY <2>1 DEF IInv, RowsHaveRooms, Fresh
        <3>3. \A v \in Workers : req[v].step \in Steps => req[v].room \in Rooms /\ req[v].room # r
            BY <2>1 DEF Fresh, Request, Steps
        <3>4. RowsHaveRooms'
            BY <3>1, <3>2, <3>3 DEF IInv, RowsHaveRooms, Row, Steps
        <3>5. CreatorAlone'
            BY <3>1, <3>2, <3>3 DEF IInv, CreatorAlone, Steps
        <3>6. OneHost' /\ SeenIsPast' /\ EmptyWhenCounted'
            BY <3>1 DEF IInv, OneHost, SeenIsPast, EmptyWhenCounted, Active
        <3> QED
            BY <1>1, <3>4, <3>5, <3>6 DEF IInv
    <2> QED
        BY <2>2, <2>3
<1>4. ASSUME NEW w \in Workers, CreateHost(w) PROVE IInv'
    <2>1. CASE UNCHANGED rows
        BY <1>1, <1>4, <2>1, QuietStep DEF CreateHost
    <2>2. CASE rows' = Append(rows, NewRow(req[w].room, req[w].pid, "host"))
        BY <1>4, <2>2, InsertStep DEF CreateHost
    <2> QED
        BY <1>4, <2>1, <2>2 DEF CreateHost
<1>5. ASSUME NEW w \in Workers, JoinStatus(w) PROVE IInv'
    BY <1>1, <1>5, QuietStep DEF JoinStatus, GetByID
<1>6. ASSUME NEW w \in Workers, JoinLookup(w) PROVE IInv'
    <2>1. status[req[w].room] # "none"
        BY <1>6 DEF IInv, RowsHaveRooms, JoinLookup
    <2>2. CASE Done(w)
        BY <1>1, <1>6, <2>2, QuietStep DEF JoinLookup
    <2>3. CASE Goto(w, "join.insert")
        BY <1>1, <1>6, <2>1, <2>3, QuietStep DEF JoinLookup, Request
    <2> QED
        BY <1>6, <2>2, <2>3 DEF JoinLookup
<1>7. ASSUME NEW w \in Workers, JoinInsert(w) PROVE IInv'
    <2>1. CASE UNCHANGED rows
        BY <1>1, <1>7, <2>1, QuietStep DEF JoinInsert
    <2>2. CASE rows' = Append(rows, NewRow(req[w].room, req[w].pid, "participant"))
        BY <1>7, <2>2, InsertStep DEF JoinInsert
    <2> QED
        BY <1>7, <2>1, <2>2 DEF JoinInsert
<1>8. ASSUME NEW w \in Workers, LeaveMark(w) PROVE IInv'
    <2>1. PICK r \in Rooms, p \in Participants, o \in Outcomes :
            /\ rows' = IF Takes(o) THEN MarkLeft(r, p) ELSE rows
            /\ IF o = "ok" THEN Start(w, "leave.count", r, p) ELSE UNCHANGED req
        BY <1>8 DEF LeaveMark
    <2>2. CASE rows' = rows
        BY <1>1, <1>8, <2>1, <2>2, QuietStep DEF LeaveMark
    <2>3. CASE rows' = MarkLeft(r, p)
        <3>1. /\ Len(rows') = Len(rows)
              /\ DOMAIN rows' = DOMAIN rows
              /\ \A i \in DOMAIN rows :
                    /\ rows'[i].room = rows[i].room
                    /\ rows'[i].role = rows[i].role
                    /\ rows[i].left => rows'[i].left
            BY <2>3, MarkedRows
        <3>2. status' = status
            BY <1>8 DEF LeaveMark
        <3>3. \A v \in Workers : req'[v].step \notin {"idle", "leave.count"} => req'[v] = req[v]
            BY <2>1
        <3>4. RowsHaveRooms' /\ CreatorAlone'
            BY <3>1, <3>2, <3>3 DEF IInv, RowsHaveRooms, CreatorAlone
        <3>5. OneHost' /\ SeenIsPast'
            BY <3>1, <3>3 DEF IInv, OneHost, SeenIsPast
        <3>6. EmptyWhenCounted'
            BY <3>1, <3>3 DEF IInv, EmptyWhenCounted, Active
        <3> QED
            BY <1>1, <3>4, <3>5, <3>6 DEF IInv
    <2> QED
        BY <2>1, <2>2, <2>3
<1>9. ASSUME NEW w \in Workers, LeaveCount(w) PROVE IInv'
    <2>1. CASE Done(w)
        BY <1>1, <1>9, <2>1, QuietStep DEF LeaveCount
    <2>2. CASE /\ Active(req[w].room) = {}
               /\ req' = [req EXCEPT ![w].step = "leave.end", ![w].seen = Len(rows)]
        <3>1. /\ \A v \in Workers : v # w => req'[v] = req[v]
              /\ req'[w].step = "leave.end"
              /\ req'[w].seen = Len(rows)
              /\ req'[w].room = req[w].room
            BY <1>9, <2>2 DEF LeaveCount, Request
        <3>2. rows' = rows /\ status' = status /\ Len(rows) \in Nat
            BY <1>9 DEF LeaveCount
        <3>3. RowsHaveRooms' /\ CreatorAlone' /\ OneHost' /\ SeenIsPast'
            BY <3>1, <3>2 DEF IInv, RowsHaveRooms, CreatorAlone, OneHost, SeenIsPast
        <3>4. EmptyWhenCounted'
            BY <2>2, <3>1, <3>2 DEF IInv, EmptyWhenCounted, Active
        <3> QED
            BY <1>1, <3>3, <3>4 DEF IInv
    <2> QED
        BY <1>9, <2>1, <2>2 DEF LeaveCount
<1>10. ASSUME NEW w \in Workers, LeaveEnd(w) PROVE IInv'
    BY <1>1, <1>10, QuietStep DEF LeaveEnd, SetRoomStatus, GetByID
<1>11. ASSUME NEW w \in Workers, TokenRead(w) PROVE IInv'
    BY <1>1, <1>11, QuietStep DEF TokenRead
<1>12. ASSUME NEW w \in Workers, TokenInsert(w) PROVE IInv'
    BY <1>1, <1>12, QuietStep DEF TokenInsert, Request
<1>13. ASSUME NEW w \in Workers, TokenSign(w) PROVE IInv'
    BY <1>1, <1>13, QuietStep DEF TokenSign
<1>14. CASE Crash
    BY <1>1, <1>14, QuietStep DEF Crash
<1>15. CASE UNCHANGED vars
    BY <1>1, <1>15, QuietStep DEF vars
<1> QED
    BY <1>3, <1>4, <1>5, <1>6, <1>7, <1>8, <1>9, <1>10, <1>11, <1>12, <1>13, <1>14, <1>15
       DEF Next, Arrive, Continue

\* The inductive invariant holds in every behaviour: rows belong to rooms that
\* exist, a creator is alone in its room until its host row is written, and what
\* a Leave has counted is the past.
THEOREM InvariantHolds == Spec => []IInv
BY InvInit, InvStep, PTL DEF Spec

\* A room has at most one host row, ever (Create and Join of the service).
THEOREM OneHostHolds == Spec => []OneHost
BY InvariantHolds, PTL DEF IInv

\* A Leave that goes on to end the room has counted it empty: all who are in
\* it came after that count.
THEOREM EmptyWhenCountedHolds == Spec => []EmptyWhenCounted
BY InvariantHolds, PTL DEF IInv

-----------------------------------------------------------------------------
(* What a step may never do. *)

\* Status columns only move forward: only LeaveEnd writes an existing room.
LEMMA StatusStep ==
    ASSUME TypeOK, [Next]_vars, NEW r \in Rooms, status[r] = "ended"
    PROVE  status'[r] = "ended"
<1> USE DEF TypeOK
<1>1. ASSUME NEW w \in Workers, CreateRoom(w) PROVE status'[r] = "ended"
    BY <1>1 DEF CreateRoom, Fresh
<1>2. ASSUME NEW w \in Workers, LeaveEnd(w) PROVE status'[r] = "ended"
    BY <1>2 DEF LeaveEnd, SetRoomStatus
<1>3. ASSUME NEW w \in Workers, TokenInsert(w) PROVE status'[r] = "ended"
    BY <1>3 DEF TokenInsert
<1>4. CASE UNCHANGED status
    BY <1>4
<1> QED
    BY <1>1, <1>2, <1>3, <1>4
       DEF Next, Arrive, Continue, vars, Crash, CreateHost, JoinStatus, JoinLookup,
           JoinInsert, LeaveMark, LeaveCount, TokenRead, TokenSign

\* An ended room is never opened again, not even by the room creation hidden in
\* GetToken or by a late Leave.
THEOREM EndedIsFinalHolds == Spec => EndedIsFinal
<1>1. TypeOK /\ [Next]_vars
        => [\A r \in Rooms : status[r] = "ended" => status'[r] = "ended"]_vars
    BY StatusStep
<1> QED
    BY <1>1, TypeCorrect, PTL DEF Spec, EndedIsFinal

\* A step leaves a row alone, or it is the Leave of its owner, who is in the room
\* only once (two equal left_at would be refused), and sets its left_at.
LEMMA RowOrLeave ==
    ASSUME TypeOK, [Next]_vars, NEW i \in DOMAIN rows
    PROVE  /\ i \in DOMAIN rows'
           /\ \/ rows'[i] = rows[i]
              \/ /\ rows'[i] = [rows[i] EXCEPT !.left = TRUE]
                 /\ ~LeftAtCollides(rows[i].room, rows[i].pid)
<1> USE DEF TypeOK
<1>1. CASE UNCHANGED rows
    BY <1>1
<1>2. ASSUME NEW w \in Workers, NEW role \in {"host", "participant"}, req[w] \in Request,
             rows' = Append(rows, NewRow(req[w].room, req[w].pid, role))
      PROVE  i \in DOMAIN rows' /\ rows'[i] = rows[i]
    <2>1. /\ DOMAIN rows = 1 .. Len(rows)
          /\ DOMAIN rows' = 1 .. Len(rows')
          /\ Len(rows') = Len(rows) + 1
          /\ rows'[i] = rows[i]
        BY <1>2, InsertRow DEF Request
    <2> QED
        BY <2>1
<1>3. ASSUME NEW w \in Workers, CreateHost(w) PROVE i \in DOMAIN rows' /\ rows'[i] = rows[i]
    BY <1>2, <1>3 DEF CreateHost, At, Idle
<1>4. ASSUME NEW w \in Workers, JoinInsert(w) PROVE i \in DOMAIN rows' /\ rows'[i] = rows[i]
    BY <1>2, <1>4 DEF JoinInsert, At, Idle
<1>5. ASSUME NEW w \in Workers, LeaveMark(w), ~UNCHANGED rows
      PROVE  /\ i \in DOMAIN rows'
             /\ \/ rows'[i] = rows[i]
                \/ /\ rows'[i] = [rows[i] EXCEPT !.left = TRUE]
                   /\ ~LeftAtCollides(rows[i].room, rows[i].pid)
    <2>1. PICK r \in Rooms, p \in Participants :
            ~LeftAtCollides(r, p) /\ rows' = MarkLeft(r, p)
        BY <1>5 DEF LeaveMark
    <2>2. i \in ActiveOf(r, p) => rows[i].room = r /\ rows[i].pid = p
        BY DEF ActiveOf, Active
    <2> QED
        BY <2>1, <2>2 DEF MarkLeft
<1> QED
    BY <1>1, <1>3, <1>4, <1>5
       DEF Next, Arrive, Continue, vars, Crash, CreateRoom, JoinStatus, JoinLookup,
           LeaveCount, LeaveEnd, TokenRead, TokenInsert, TokenSign

\* The rows of the participants in a step: they are as they were but for
\* left_at, and new ones are active.
LEMMA RowStep ==
    ASSUME TypeOK, [Next]_vars, NEW i \in DOMAIN rows
    PROVE  /\ i \in DOMAIN rows'
           /\ [rows'[i] EXCEPT !.left = rows[i].left] = rows[i]
           /\ rows[i].left => rows'[i].left
<1>1. rows[i] \in Row
    BY DEF TypeOK
<1> QED
    BY <1>1, RowOrLeave DEF Row

\* Joining and leaving are recorded for good: a row keeps its owner and role,
\* and a participant who left is only back through a new row.
THEOREM LeftIsFinalHolds == Spec => LeftIsFinal
<1>1. TypeOK /\ [Next]_vars
        => [\A i \in DOMAIN rows :
              /\ i \in DOMAIN rows'
              /\ [rows'[i] EXCEPT !.left = rows[i].left] = rows[i]
              /\ rows[i].left => rows'[i].left]_vars
    BY RowStep
<1> QED
    BY <1>1, TypeCorrect, PTL DEF Spec, LeftIsFinal

\* No request gets past the status check of an ended room.
LEMMA NotAdmittedStep ==
    ASSUME TypeOK, [Next]_vars, NEW r \in Rooms, Closed(r)
    PROVE  ~Admitted(r)'
<1> USE DEF TypeOK, Closed, Admitted, At, Goto, Done, Start, Idle
<1>1. CASE UNCHANGED req
    BY <1>1
<1>2. ASSUME NEW w \in Workers, CreateRoom(w) PROVE ~Admitted(r)'
    BY <1>2 DEF CreateRoom, Fresh
<1>3. ASSUME NEW w \in Workers, JoinStatus(w) PROVE ~Admitted(r)'
    BY <1>3 DEF JoinStatus, GetByID
<1>4. ASSUME NEW w \in Workers, TokenRead(w) PROVE ~Admitted(r)'
    BY <1>4 DEF TokenRead, GetByID
<1>5. ASSUME NEW w \in Workers, LeaveMark(w) PROVE ~Admitted(r)'
    BY <1>5 DEF LeaveMark
<1>6. ASSUME NEW w \in Workers, JoinLookup(w) PROVE ~Admitted(r)'
    BY <1>6 DEF JoinLookup, Request
<1>7. ASSUME NEW w \in Workers, LeaveCount(w) PROVE ~Admitted(r)'
    BY <1>7 DEF LeaveCount, Request
<1>8. ASSUME NEW w \in Workers, TokenInsert(w) PROVE ~Admitted(r)'
    BY <1>8 DEF TokenInsert, Request
<1>9. ASSUME NEW w \in Workers, Done(w) PROVE ~Admitted(r)'
    BY <1>9
<1>10. CASE Crash
    BY <1>10 DEF Crash
<1> QED
    BY <1>1, <1>2, <1>3, <1>4, <1>5, <1>6, <1>7, <1>8, <1>9, <1>10
       DEF Next, Arrive, Continue, vars, CreateHost, JoinInsert, LeaveEnd, TokenSign

\* Nobody comes into a room to which no request is admitted.
LEMMA NoNewcomerStep ==
    ASSUME TypeOK, [Next]_vars, NEW r \in Rooms, ~Admitted(r)
    PROVE  Active(r)' \subseteq Active(r)
<1> USE DEF TypeOK, At
<1>1. CASE UNCHANGED rows
    BY <1>1 DEF Active
<1>2. ASSUME NEW w \in Workers, NEW role \in {"host", "participant"},
             req[w].step \in {"create.host", "join.insert"},
             rows' = Append(rows, NewRow(req[w].room, req[w].pid, role))
      PROVE  Active(r)' \subseteq Active(r)
    <2>1. req[w] \in Request /\ req[w].room # r
        BY <1>2 DEF Admitted, Idle
    <2>2. /\ DOMAIN rows = 1 .. Len(rows)
          /\ DOMAIN rows' = 1 .. Len(rows')
          /\ Len(rows) \in Nat /\ Len(rows') = Len(rows) + 1
          /\ \A i \in DOMAIN rows : rows'[i] = rows[i]
          /\ rows'[Len(rows) + 1].room # r
        BY <1>2, <2>1, InsertRow DEF Request, NewRow
    <2>3. DOMAIN rows' = DOMAIN rows \cup {Len(rows) + 1}
        BY <2>2
    <2> QED
        BY <2>2, <2>3 DEF Active
<1>3. ASSUME NEW w \in Workers, CreateHost(w) PROVE Active(r)' \subseteq Active(r)
    BY <1>1, <1>2, <1>3 DEF CreateHost
<1>4. ASSUME NEW w \in Workers, JoinInsert(w) PROVE Active(r)' \subseteq Active(r)
    BY <1>1, <1>2, <1>4 DEF JoinInsert
<1>5. ASSUME NEW q, NEW p, rows' = MarkLeft(q, p) PROVE Active(r)' \subseteq Active(r)
    BY <1>5, MarkedRows DEF Active
<1>6. ASSUME NEW w \in Workers, LeaveMark(w) PROVE Active(r)' \subseteq Active(r)
    BY <1>1, <1>5, <1>6 DEF LeaveMark
<1> QED
    BY <1>1, <1>3, <1>4, <1>6
       DEF Next, Arrive, Continue, vars, Crash, CreateRoom, JoinStatus, JoinLookup,
           LeaveCount, LeaveEnd, TokenRead, TokenInsert, TokenSign

LEMMA NoNewTokenStep ==
    ASSUME TypeOK, [Next]_vars, NEW r \in Rooms, ~Admitted(r), NEW p \in Participants,
           <<r, p>> \in tokens'
    PROVE  <<r, p>> \in tokens
<1>1. ASSUME NEW w \in Workers, TokenSign(w) PROVE <<r, p>> \in tokens
    BY <1>1 DEF TokenSign, Admitted, At, Idle, TypeOK
<1> QED
    BY <1>1
       DEF Next, Arrive, Continue, vars, Crash, CreateRoom, CreateHost, JoinStatus,
           JoinLookup, JoinInsert, LeaveMark, LeaveCount, LeaveEnd, TokenRead, TokenInsert

\* Once a room has ended and the requests that saw it active are through, it
\* only empties: no Join, no Create and no GetToken lets anybody in.
THEOREM NoEntryAfterEndHolds == Spec => NoEntryAfterEnd
<1>1. TypeOK /\ [Next]_vars
        => [\A r \in Rooms : Closed(r) =>
              /\ Closed(r)'
              /\ Active(r)' \subseteq Active(r)
              /\ \A p \in Participants : <<r, p>> \in tokens' => <<r, p>> \in tokens]_vars
    BY StatusStep, NotAdmittedStep, NoNewcomerStep, NoNewTokenStep DEF Closed
<1> QED
    BY <1>1, TypeCorrect, PTL DEF Spec, NoEntryAfterEnd

-----------------------------------------------------------------------------
(* The participant who is in a room twice. *)

\* A participant with two active rows in a room stays one for good: every Leave
\* of theirs is refused, and no other request marks their rows.
StuckForGood ==
    [][\A r \in Rooms, p \in Participants :
        LeftAtCollides(r, p) => LeftAtCollides(r, p)']_vars

LEMMA StuckStep ==
    ASSUME TypeOK, [Next]_vars, NEW r \in Rooms, NEW p \in Participants,
           LeftAtCollides(r, p)
    PROVE  LeftAtCollides(r, p)'
<1>1. PICK i \in ActiveOf(r, p), j \in ActiveOf(r, p) : i # j
    BY DEF LeftAtCollides
<1>2. ASSUME NEW k \in ActiveOf(r, p) PROVE k \in ActiveOf(r, p)'
    <2>1. k \in DOMAIN rows /\ rows[k].room = r /\ rows[k].pid = p /\ ~rows[k].left
        BY DEF ActiveOf, Active
    <2>2. k \in DOMAIN rows' /\ rows'[k] = rows[k]
        BY <2>1, RowOrLeave
    <2> QED
        BY <2>1, <2>2 DEF ActiveOf, Active
<1> QED
    BY <1>1, <1>2 DEF LeftAtCollides

\* Whatever the rooms, the clients and the faults: nothing the service does gets
\* such a participant out of the room again.
THEOREM StuckForGoodHolds == Spec => StuckForGood
<1>1. TypeOK /\ [Next]_vars
        => [\A r \in Rooms, p \in Participants :
              LeftAtCollides(r, p) => LeftAtCollides(r, p)']_vars
    BY StuckStep
<1> QED
    BY <1>1, TypeCorrect, PTL DEF Spec, StuckForGood

\* An active room with such a participant in it, which no Leave has counted
\* empty before they came in.
Held(r) ==
    /\ status[r] = "active"
    /\ \E p \in Participants : LeftAtCollides(r, p)
    /\ \A w \in Workers : ~(At(w, "leave.end") /\ req[w].room = r)

\* Such a room is never ended: whoever else leaves it counts that participant.
HeldForGood == [][\A r \in Rooms : Held(r) => Held(r)']_vars

LEMMA HeldStep ==
    ASSUME TypeOK, [Next]_vars, NEW r \in Rooms, Held(r)
    PROVE  Held(r)'
<1> USE DEF TypeOK, At, Goto, Done, Start
<1>1. \E p \in Participants : LeftAtCollides(r, p)'
    BY StuckStep DEF Held
<1>2. Active(r) # {}
    BY DEF Held, LeftAtCollides, ActiveOf
<1>3. status'[r] = "active"
    BY DEF Held, Next, Arrive, Continue, vars, Crash, CreateRoom, CreateHost, JoinStatus,
           JoinLookup, JoinInsert, LeaveMark, LeaveCount, LeaveEnd, TokenRead, TokenInsert,
           TokenSign, Fresh, SetRoomStatus
<1>4. ASSUME NEW w \in Workers, req'[w].step = "leave.end", req'[w].room = r PROVE FALSE
    <2>1. CASE req'[w] = req[w]
        BY <1>4, <2>1 DEF Held
    <2>2. CASE req'[w] = Idle
        BY <1>4, <2>2 DEF Idle
    <2>3. ASSUME NEW v \in Workers, CreateRoom(v) \/ JoinStatus(v) \/ LeaveMark(v) \/ TokenRead(v)
          PROVE  FALSE
        BY <1>4, <2>1, <2>3 DEF CreateRoom, JoinStatus, LeaveMark, TokenRead
    <2>4. ASSUME NEW v \in Workers, JoinLookup(v) \/ TokenInsert(v) PROVE FALSE
        <3>1. req[v] \in Request
            BY <2>4 DEF JoinLookup, TokenInsert, Idle
        <3>2. Done(v) \/ Goto(v, "join.insert") \/ Goto(v, "token.sign")
            BY <2>4 DEF JoinLookup, TokenInsert
        <3> QED
            BY <1>4, <2>1, <2>2, <3>1, <3>2 DEF Request
    <2>5. ASSUME NEW v \in Workers, LeaveCount(v) PROVE FALSE
        <3>1. req[v] \in Request
            BY <2>5 DEF LeaveCount, Idle
        <3>2. CASE Done(v)
            BY <2>1, <2>2, <3>2
        <3>3. CASE /\ Active(req[v].room) = {}
                   /\ req' = [req EXCEPT ![v].step = "leave.end", ![v].seen = Len(rows)]
            <4>1. v = w
                BY <2>1, <3>3
            <4>2. req'[w].room = req[w].room
                BY <3>1, <3>3, <4>1 DEF Request
            <4> QED
                BY <1>2, <1>4, <3>3, <4>1, <4>2
        <3> QED
            BY <2>5, <3>2, <3>3 DEF LeaveCount
    <2>6. ASSUME NEW v \in Workers, CreateHost(v) \/ JoinInsert(v) \/ LeaveEnd(v) \/ TokenSign(v)
          PROVE  FALSE
        BY <2>1, <2>2, <2>6 DEF CreateHost, JoinInsert, LeaveEnd, TokenSign
    <2>7. CASE Crash \/ UNCHANGED vars
        BY <2>1, <2>2, <2>7 DEF Crash, vars
    <2> QED
        BY <2>3, <2>4, <2>5, <2>6, <2>7 DEF Next, Arrive, Continue
<1> QED
    BY <1>1, <1>3, <1>4 DEF Held

\* "If no participants remain, deactivate the room" never happens to it.
THEOREM HeldForGoodHolds == Spec => HeldForGood
<1>1. TypeOK /\ [Next]_vars => [\A r \in Rooms : Held(r) => Held(r)']_vars
    BY HeldStep
<1> QED
    BY <1>1, TypeCorrect, PTL DEF Spec, HeldForGood

-----------------------------------------------------------------------------
(* The refinement. *)

\* Nobody but w serves a request.
Only(w) == \A v \in Workers : v # w => req[v] = Idle

\* What a request served alone may rely on between its statements.
Settled ==
    /\ Alone
    /\ LeaveIsPossible
    /\ \A w \in Workers :
        /\ req[w].step \in {"create.host", "join.lookup", "join.insert", "token.sign"}
            => status[req[w].room] = "active"
        /\ req[w].step \in {"create.host", "leave.end"} => Active(req[w].room) = {}
        /\ At(w, "join.insert") => ActiveOf(req[w].room, req[w].pid) = {}

RInv == IInv /\ (Undisturbed => Settled)

-----------------------------------------------------------------------------
(* The steps of the handlers when every statement is executed and answered. *)

\* A statement of the request of w after which w has another to execute.
CleanArrival(w) ==
    /\ req[w] = Idle
    /\ \E r \in Rooms, p \in Participants :
        \/ /\ Fresh(r)
           /\ status' = [status EXCEPT ![r] = "active"]
           /\ Start(w, "create.host", r, p)
           /\ UNCHANGED <<rows, tokens>>
        \/ /\ status[r] = "active"
           /\ \E s \in {"join.lookup", "token.sign"} : Start(w, s, r, p)
           /\ UNCHANGED <<status, rows, tokens>>
        \/ /\ Start(w, "token.insert", r, p)
           /\ UNCHANGED <<status, rows, tokens>>
        \/ /\ rows' = MarkLeft(r, p)
           /\ Start(w, "leave.count", r, p)
           /\ UNCHANGED <<status, tokens>>

CleanLookup(w) ==
    /\ At(w, "join.lookup")
    /\ \/ Done(w)
       \/ ActiveOf(req[w].room, req[w].pid) = {} /\ Goto(w, "join.insert")
    /\ UNCHANGED <<status, rows, tokens>>

CleanCount(w) ==
    /\ At(w, "leave.count")
    /\ IF Active(req[w].room) = {}
       THEN req' = [req EXCEPT ![w].step = "leave.end", ![w].seen = Len(rows)]
       ELSE Done(w)
    /\ UNCHANGED <<status, rows, tokens>>

CleanEnd(w) ==
    /\ At(w, "leave.end")
    /\ status' = SetRoomStatus(req[w].room, "ended")
    /\ Done(w)
    /\ UNCHANGED <<rows, tokens>>

CleanTokenInsert(w) ==
    /\ At(w, "token.insert")
    /\ IF status[req[w].room] # "none"
       THEN Done(w) /\ UNCHANGED status
       ELSE Goto(w, "token.sign") /\ status' = [status EXCEPT ![req[w].room] = "active"]
    /\ UNCHANGED <<rows, tokens>>

CleanContinue(w) ==
    \/ CreateHost(w) \/ JoinInsert(w) \/ TokenSign(w)
    \/ CleanLookup(w) \/ CleanCount(w) \/ CleanEnd(w) \/ CleanTokenInsert(w)

\* The two INSERTs of participants may be refused without a fault.
LEMMA CleanSteps ==
    ASSUME WithoutFaults!Next
    PROVE  \E w \in Workers : CleanArrival(w) \/ CleanContinue(w)
<1> USE DEF WithoutFaults!Outcomes, WithoutFaults!InsertOutcomes, WithoutFaults!Takes,
            WithoutFaults!At, WithoutFaults!Goto, WithoutFaults!Done, WithoutFaults!Start,
            WithoutFaults!Idle, At, Goto, Done, Start, Idle
<1>1. ~WithoutFaults!Crash
    BY DEF WithoutFaults!Crash
<1>2. PICK w \in Workers : WithoutFaults!Arrive(w) \/ WithoutFaults!Continue(w)
    BY <1>1 DEF WithoutFaults!Next
<1>3. CASE WithoutFaults!CreateRoom(w)
    BY <1>3 DEF WithoutFaults!CreateRoom, WithoutFaults!Fresh, CleanArrival, Fresh
<1>4. CASE WithoutFaults!JoinStatus(w)
    <2>1. PICK r \in Rooms, p \in Participants :
            /\ {status[r]} \ {"none"} = {"active"}
            /\ Start(w, "join.lookup", r, p)
        BY <1>4 DEF WithoutFaults!JoinStatus, WithoutFaults!GetByID
    <2>2. status[r] = "active"
        BY <2>1
    <2> QED
        BY <1>4, <2>1, <2>2 DEF WithoutFaults!JoinStatus, CleanArrival
<1>5. CASE WithoutFaults!LeaveMark(w)
    BY <1>5 DEF WithoutFaults!LeaveMark, WithoutFaults!MarkLeft, WithoutFaults!ActiveOf,
                WithoutFaults!Active, CleanArrival, MarkLeft, ActiveOf, Active
<1>6. CASE WithoutFaults!TokenRead(w)
    <2>1. PICK r \in Rooms, p \in Participants :
            \/ {status[r]} \ {"none"} = {"active"} /\ Start(w, "token.sign", r, p)
            \/ Start(w, "token.insert", r, p)
        BY <1>6 DEF WithoutFaults!TokenRead, WithoutFaults!GetByID
    <2>2. \/ status[r] = "active" /\ Start(w, "token.sign", r, p)
          \/ Start(w, "token.insert", r, p)
        BY <2>1
    <2> QED
        BY <1>6, <2>2 DEF WithoutFaults!TokenRead, CleanArrival
<1>7. CASE WithoutFaults!CreateHost(w)
    BY <1>7 DEF WithoutFaults!CreateHost, WithoutFaults!NewRow, CreateHost, NewRow,
                InsertOutcomes, Outcomes, Takes, CleanContinue
<1>8. CASE WithoutFaults!JoinLookup(w)
    BY <1>8 DEF WithoutFaults!JoinLookup, WithoutFaults!ActiveOf, WithoutFaults!Active,
                CleanLookup, ActiveOf, Active, CleanContinue
<1>9. CASE WithoutFaults!JoinInsert(w)
    BY <1>9 DEF WithoutFaults!JoinInsert, WithoutFaults!NewRow, JoinInsert, NewRow,
                InsertOutcomes, Outcomes, Takes, CleanContinue
<1>10. CASE WithoutFaults!LeaveCount(w)
    BY <1>10 DEF WithoutFaults!LeaveCount, WithoutFaults!Active, CleanCount, Active,
                 CleanContinue
<1>11. CASE WithoutFaults!LeaveEnd(w)
    BY <1>11 DEF WithoutFaults!LeaveEnd, WithoutFaults!SetRoomStatus, WithoutFaults!GetByID,
                 CleanEnd, SetRoomStatus, GetByID, CleanContinue
<1>12. CASE WithoutFaults!TokenInsert(w)
    BY <1>12 DEF WithoutFaults!TokenInsert, CleanTokenInsert, CleanContinue
<1>13. CASE WithoutFaults!TokenSign(w)
    BY <1>13 DEF WithoutFaults!TokenSign, TokenSign, CleanContinue
<1> QED
    BY <1>2, <1>3, <1>4, <1>5, <1>6, <1>7, <1>8, <1>9, <1>10, <1>11, <1>12, <1>13
       DEF WithoutFaults!Arrive, WithoutFaults!Continue

-----------------------------------------------------------------------------
(* What one request does to the tables. *)

\* Served alone, a request is alone before its step and after it.
LEMMA OnlyStep ==
    ASSUME TypeOK, NEW w \in Workers, Alone, Alone', CleanArrival(w) \/ CleanContinue(w)
    PROVE  Only(w) /\ Only(w)'
<1>1. req[w] # Idle \/ req'[w] # Idle
    BY DEF TypeOK, CleanArrival, CleanContinue, CreateHost, JoinInsert, TokenSign,
           CleanLookup, CleanCount, CleanEnd, CleanTokenInsert, At, Start, Idle
<1>2. \A v \in Workers : v # w => req'[v] = req[v]
    BY DEF TypeOK, CleanArrival, CleanContinue, CreateHost, JoinInsert, TokenSign,
           CleanLookup, CleanCount, CleanEnd, CleanTokenInsert, Start, Goto, Done
<1> QED
    BY <1>1, <1>2 DEF Alone, Only

\* An INSERT adds one active row of one participant.
LEMMA InsertActive ==
    ASSUME TypeOK, NEW r \in Rooms, NEW p \in Participants,
           NEW role \in {"host", "participant"}, rows' = Append(rows, NewRow(r, p, role))
    PROVE  /\ Len(rows) + 1 \notin DOMAIN rows
           /\ \A q \in Rooms, b \in Participants :
                ActiveOf(q, b)' = ActiveOf(q, b) \cup
                    (IF q = r /\ b = p THEN {Len(rows) + 1} ELSE {})
           /\ RoomMembers' = [RoomMembers EXCEPT ![r] = @ \cup {p}]
<1>1. /\ Len(rows) \in Nat
      /\ Len(rows) + 1 \notin DOMAIN rows
      /\ DOMAIN rows' = DOMAIN rows \cup {Len(rows) + 1}
      /\ \A i \in DOMAIN rows : rows'[i] = rows[i]
      /\ rows'[Len(rows) + 1] = NewRow(r, p, role)
    BY InsertRow DEF TypeOK
<1>2. LET n == rows'[Len(rows) + 1] IN n.room = r /\ n.pid = p /\ ~n.left
    BY <1>1 DEF NewRow
<1>3. \A q \in Rooms : Active(q)' = Active(q) \cup (IF q = r THEN {Len(rows) + 1} ELSE {})
    BY <1>1, <1>2 DEF Active
<1>4. \A q \in Rooms, b \in Participants :
        ActiveOf(q, b)' = ActiveOf(q, b) \cup
            (IF q = r /\ b = p THEN {Len(rows) + 1} ELSE {})
    BY <1>1, <1>2, <1>3 DEF ActiveOf, Active
<1>5. \A q \in Rooms :
        {rows'[i].pid : i \in Active(q)'} =
            {rows[i].pid : i \in Active(q)} \cup (IF q = r THEN {p} ELSE {})
    <2> TAKE q \in Rooms
    <2>1. \A i \in Active(q) : i \in DOMAIN rows /\ rows'[i].pid = rows[i].pid
        BY <1>1 DEF Active
    <2>2. CASE q # r
        BY <1>3, <2>1, <2>2
    <2>3. CASE q = r
        BY <1>2, <1>3, <2>1, <2>3
    <2> QED
        BY <2>2, <2>3
<1>6. RoomMembers' = [RoomMembers EXCEPT ![r] = @ \cup {p}]
    BY <1>5 DEF RoomMembers
<1> QED
    BY <1>1, <1>4, <1>6

\* MarkParticipantLeft takes the active rows of one participant.
LEMMA MarkActive ==
    ASSUME TypeOK, NEW r \in Rooms, NEW p \in Participants, rows' = MarkLeft(r, p)
    PROVE  /\ \A q \in Rooms, b \in Participants : ActiveOf(q, b)' \subseteq ActiveOf(q, b)
           /\ RoomMembers' = [RoomMembers EXCEPT ![r] = @ \ {p}]
           /\ \A q \in Rooms : q # r => Active(q)' = Active(q)
<1>1. \A i \in DOMAIN rows : rows[i] \in Row
    BY DEF TypeOK
<1>2. /\ DOMAIN rows' = DOMAIN rows
      /\ \A i \in DOMAIN rows :
            /\ rows'[i].room = rows[i].room
            /\ rows'[i].pid = rows[i].pid
            /\ rows[i].left => rows'[i].left
    BY MarkedRows DEF TypeOK
<1>3. \A i \in DOMAIN rows : rows'[i].left <=> rows[i].left \/ i \in ActiveOf(r, p)
    BY <1>1 DEF MarkLeft, Row
<1>4. \A q \in Rooms : Active(q)' = {i \in Active(q) : q # r \/ rows[i].pid # p}
    BY <1>2, <1>3 DEF Active, ActiveOf
<1>5. \A q \in Rooms, b \in Participants : ActiveOf(q, b)' \subseteq ActiveOf(q, b)
    BY <1>2, <1>4 DEF ActiveOf, Active
<1>6. \A q \in Rooms :
        {rows'[i].pid : i \in Active(q)'} =
            {rows[i].pid : i \in Active(q)} \ (IF q = r THEN {p} ELSE {})
    <2> TAKE q \in Rooms
    <2>1. \A i \in Active(q) : rows'[i].pid = rows[i].pid
        BY <1>2 DEF Active
    <2>2. CASE q # r
        BY <1>4, <2>1, <2>2
    <2>3. CASE q = r
        BY <1>4, <2>1, <2>3
    <2> QED
        BY <2>2, <2>3
<1>7. RoomMembers' = [RoomMembers EXCEPT ![r] = @ \ {p}]
    BY <1>6 DEF RoomMembers
<1> QED
    BY <1>4, <1>5, <1>7

\* A room has members if it has active rows, and it has none if it does not exist.
LEMMA Members ==
    ASSUME NEW r \in Rooms
    PROVE  /\ RoomMembers[r] = {rows[i].pid : i \in Active(r)}
           /\ RoomMembers[r] = {} <=> Active(r) = {}
           /\ RowsHaveRooms /\ status[r] = "none" => Active(r) = {}
BY DEF RoomMembers, RowsHaveRooms, Active

LEMMA MembersType == TypeOK => RoomMembers \in [Rooms -> SUBSET Participants]
<1> SUFFICES ASSUME TypeOK PROVE RoomMembers \in [Rooms -> SUBSET Participants]
    OBVIOUS
<1>1. \A i \in DOMAIN rows : rows[i] \in Row
    BY DEF TypeOK
<1>2. \A r \in Rooms : \A i \in Active(r) : rows[i].pid \in Participants
    BY <1>1 DEF Active, Row
<1> QED
    BY <1>2 DEF RoomMembers

LEMMA MembersAfter ==
    ASSUME NEW r \in Rooms
    PROVE  RoomMembers'[r] = {} <=> Active(r)' = {}
BY DEF RoomMembers

LEMMA RowsKept ==
    ASSUME UNCHANGED rows
    PROVE  /\ RoomMembers' = RoomMembers
           /\ \A r \in Rooms : Active(r)' = Active(r)
           /\ \A r \in Rooms, p \in Participants : ActiveOf(r, p)' = ActiveOf(r, p)
BY DEF RoomMembers, Active, ActiveOf

-----------------------------------------------------------------------------
(* What holds between the statements of a request served alone. *)

LEMMA SettledInit == Init => Settled
BY DEF Init, Settled, Alone, LeaveIsPossible, LeftAtCollides, ActiveOf, Active, At, Idle

LEMMA SettledStep ==
    ASSUME IInv, Settled, WithoutFaults!Next, Alone'
    PROVE  Settled'
<1> USE DEF IInv, TypeOK, At, Goto, Done, Start
<1>1. PICK w \in Workers : CleanArrival(w) \/ CleanContinue(w)
    BY CleanSteps
<1>2. Only(w) /\ Only(w)'
    BY <1>1, OnlyStep DEF Settled
<1>3. \A v \in Workers : req'[v].step # "idle" => v = w
    BY <1>2 DEF Only, Idle
<1>4. ASSUME UNCHANGED rows PROVE LeaveIsPossible'
    BY <1>4 DEF Settled, LeaveIsPossible, LeftAtCollides, ActiveOf, Active
<1> DEFINE Promise ==
        /\ req[w].step \in {"create.host", "join.lookup", "join.insert", "token.sign"}
            => status[req[w].room] = "active"
        /\ req[w].step \in {"create.host", "leave.end"} => Active(req[w].room) = {}
        /\ req[w].step = "join.insert" => ActiveOf(req[w].room, req[w].pid) = {}
<1>5. ASSUME LeaveIsPossible', Promise' PROVE Settled'
    BY <1>3, <1>5 DEF Settled
<1> HIDE DEF Promise
<1>6. CASE CleanArrival(w)
    <2>1. PICK r \in Rooms, p \in Participants :
            \/ /\ Fresh(r)
               /\ status' = [status EXCEPT ![r] = "active"]
               /\ Start(w, "create.host", r, p)
               /\ UNCHANGED <<rows, tokens>>
            \/ /\ status[r] = "active"
               /\ \E s \in {"join.lookup", "token.sign"} : Start(w, s, r, p)
               /\ UNCHANGED <<status, rows, tokens>>
            \/ /\ Start(w, "token.insert", r, p)
               /\ UNCHANGED <<status, rows, tokens>>
            \/ /\ rows' = MarkLeft(r, p)
               /\ Start(w, "leave.count", r, p)
               /\ UNCHANGED <<status, tokens>>
        BY <1>6 DEF CleanArrival
    <2>2. CASE Fresh(r) /\ UNCHANGED rows /\ Start(w, "create.host", r, p)
               /\ status' = [status EXCEPT ![r] = "active"]
        <3>1. Active(r) = {}
            BY <2>2, Members DEF Fresh
        <3>2. Promise'
            BY <2>2, <3>1, RowsKept DEF Promise
        <3> QED
            BY <1>4, <1>5, <2>2, <3>2
    <2>3. CASE UNCHANGED <<rows, status>>
        <3>1. Promise'
            BY <2>1, <2>3 DEF Promise, Fresh
        <3> QED
            BY <1>4, <1>5, <2>3, <3>1
    <2>4. CASE rows' = MarkLeft(r, p) /\ Start(w, "leave.count", r, p)
        <3>1. Promise'
            BY <2>4 DEF Promise
        <3>2. LeaveIsPossible'
            BY <2>4, MarkActive DEF Settled, LeaveIsPossible, LeftAtCollides
        <3> QED
            BY <1>5, <3>1, <3>2
    <2> QED
        BY <2>1, <2>2, <2>3, <2>4
<1>7. CASE req' = [req EXCEPT ![w] = Idle] /\ UNCHANGED rows
    BY <1>4, <1>5, <1>7 DEF Promise, Idle
<1>8. ASSUME NEW role \in {"host", "participant"},
             req[w].step \in {"create.host", "join.insert"}, req' = [req EXCEPT ![w] = Idle],
             rows' = Append(rows, NewRow(req[w].room, req[w].pid, role))
      PROVE  Settled'
    <2>1. req[w].room \in Rooms /\ req[w].pid \in Participants
        BY <1>8 DEF Request, Idle
    <2>2. ActiveOf(req[w].room, req[w].pid) = {}
        BY <1>8 DEF Settled, ActiveOf
    <2>3. \A q \in Rooms, b \in Participants :
            ActiveOf(q, b)' = ActiveOf(q, b) \cup
                (IF q = req[w].room /\ b = req[w].pid THEN {Len(rows) + 1} ELSE {})
        BY <1>8, <2>1, InsertActive
    <2>4. LeaveIsPossible'
        BY <2>2, <2>3 DEF Settled, LeaveIsPossible, LeftAtCollides
    <2>5. Promise'
        BY <1>8 DEF Promise, Idle
    <2> QED
        BY <1>5, <2>4, <2>5
<1>9. CASE CreateHost(w) \/ JoinInsert(w)
    BY <1>7, <1>8, <1>9 DEF CreateHost, JoinInsert
<1>10. CASE CleanLookup(w)
    <2>1. CASE Done(w)
        BY <1>7, <1>10, <2>1 DEF CleanLookup
    <2>2. CASE ActiveOf(req[w].room, req[w].pid) = {} /\ Goto(w, "join.insert")
        <3>1. req[w].room \in Rooms /\ req[w].pid \in Participants
            BY <1>10 DEF CleanLookup, Request, Idle
        <3>2. /\ req'[w].room = req[w].room /\ req'[w].pid = req[w].pid
              /\ req'[w].step = "join.insert"
            BY <1>10, <2>2 DEF CleanLookup, Request, Idle
        <3>3. status[req[w].room] = "active"
            BY <1>10 DEF CleanLookup, Settled
        <3>4. ActiveOf(req[w].room, req[w].pid)' = {}
            BY <1>10, <2>2, <3>2 DEF CleanLookup, ActiveOf, Active
        <3>5. Promise'
            BY <1>10, <3>2, <3>3, <3>4 DEF CleanLookup, Promise
        <3> QED
            BY <1>4, <1>5, <1>10, <3>5 DEF CleanLookup
    <2> QED
        BY <1>10, <2>1, <2>2 DEF CleanLookup
<1>11. CASE CleanCount(w)
    <2>1. CASE Done(w)
        BY <1>7, <1>11, <2>1 DEF CleanCount
    <2>2. CASE /\ Active(req[w].room) = {}
               /\ req' = [req EXCEPT ![w].step = "leave.end", ![w].seen = Len(rows)]
        <3>1. req'[w].room = req[w].room /\ req'[w].step = "leave.end"
            BY <1>11, <2>2 DEF CleanCount, Request, Idle
        <3>2. Active(req[w].room)' = {}
            BY <1>11, <2>2, <3>1 DEF CleanCount, Active
        <3>3. Promise'
            BY <3>1, <3>2 DEF Promise
        <3> QED
            BY <1>4, <1>5, <1>11, <3>3 DEF CleanCount
    <2> QED
        BY <1>11, <2>1, <2>2 DEF CleanCount
<1>12. CASE CleanEnd(w) \/ TokenSign(w)
    BY <1>7, <1>12 DEF CleanEnd, TokenSign
<1>13. CASE CleanTokenInsert(w)
    <2>1. CASE Done(w)
        BY <1>7, <1>13, <2>1 DEF CleanTokenInsert
    <2>2. CASE Goto(w, "token.sign") /\ status' = [status EXCEPT ![req[w].room] = "active"]
        <3>1. /\ req[w].room \in Rooms /\ req'[w].room = req[w].room
              /\ req'[w].step = "token.sign"
            BY <1>13, <2>2 DEF CleanTokenInsert, Request, Idle
        <3>2. Promise'
            BY <2>2, <3>1 DEF Promise
        <3> QED
            BY <1>4, <1>5, <1>13, <3>2 DEF CleanTokenInsert
    <2> QED
        BY <1>13, <2>1, <2>2 DEF CleanTokenInsert
<1> QED
    BY <1>1, <1>6, <1>9, <1>10, <1>11, <1>12, <1>13 DEF CleanContinue

LEMMA RInvStep == RInv /\ [ObservedNext]_observedVars => RInv'
<1> SUFFICES ASSUME RInv, [ObservedNext]_observedVars PROVE RInv'
    OBVIOUS
<1>1. IInv'
    BY InvStep DEF RInv, ObservedNext, observedVars, vars
<1>2. Undisturbed' => Settled'
    <2>1. CASE UNCHANGED observedVars
        BY <2>1 DEF RInv, Undisturbed, observedVars, vars, Settled, Alone, LeaveIsPossible,
                    LeftAtCollides, ActiveOf, Active, At
    <2>2. CASE ObservedNext
        BY <2>2, SettledStep DEF RInv, Undisturbed, ObservedNext
    <2> QED
        BY <2>1, <2>2
<1> QED
    BY <1>1, <1>2 DEF RInv

LEMMA RInvHolds == ObservedSpec => []RInv
<1>1. ObservedInit => RInv
    BY InvInit, SettledInit DEF RInv, ObservedInit
<1> QED
    BY <1>1, RInvStep, PTL DEF ObservedSpec

\* Requests served one at a time, without failures, leave no participant in a
\* room twice: Leave can always mark its rows (JoinLookup keeps the INSERTs apart).
THEOREM LeaveStaysPossibleHolds == ObservedSpec => []LeaveStaysPossible
<1>1. RInv => LeaveStaysPossible
    BY DEF RInv, Settled, LeaveStaysPossible
<1> QED
    BY <1>1, RInvHolds, PTL

-----------------------------------------------------------------------------
(* The refinement. *)

\* The state of a room as the request of w alone determines it.
StateSeen(w, r) ==
    IF status[r] = "none" \/ (At(w, "create.host") /\ req[w].room = r) THEN "none"
    ELSE IF \/ status[r] = "ended"
            \/ /\ Active(r) = {}
               /\ req[w].step \in {"leave.count", "leave.end"} /\ req[w].room = r
         THEN "closed"
    ELSE "open"

LEMMA SeenAlone ==
    ASSUME NEW w \in Workers, Only(w)
    PROVE  RoomState = [r \in Rooms |-> StateSeen(w, r)]
BY DEF Only, RoomState, StateSeen, Unannounced, Closing, At, Idle

LEMMA SeenAloneAfter ==
    ASSUME NEW w \in Workers, Only(w)'
    PROVE  RoomState' = [r \in Rooms |-> StateSeen(w, r)']
BY DEF Only, RoomState, StateSeen, Unannounced, Closing, At, Idle

LEMMA ArrivalRefines ==
    ASSUME IInv, NEW w \in Workers, Only(w), Only(w)', CleanArrival(w)
    PROVE  Contract!Next \/ UNCHANGED Contract!vars
<1> USE DEF IInv, TypeOK, At, Goto, Done, Start
<1>1. PICK r \in Rooms, p \in Participants :
        \/ /\ Fresh(r)
           /\ status' = [status EXCEPT ![r] = "active"]
           /\ Start(w, "create.host", r, p)
           /\ UNCHANGED <<rows, tokens>>
        \/ /\ \E s \in {"join.lookup", "token.sign", "token.insert"} : Start(w, s, r, p)
           /\ UNCHANGED <<status, rows, tokens>>
        \/ /\ rows' = MarkLeft(r, p)
           /\ Start(w, "leave.count", r, p)
           /\ UNCHANGED <<status, tokens>>
    BY DEF CleanArrival
<1>2. /\ RoomState = [q \in Rooms |-> StateSeen(w, q)]
      /\ RoomState' = [q \in Rooms |-> StateSeen(w, q)']
    BY SeenAlone, SeenAloneAfter
<1>3. req[w] = Idle
    BY DEF CleanArrival
<1>4. CASE UNCHANGED <<rows, tokens>> /\ req'[w].step # "leave.count"
    <2>1. \A q \in Rooms : StateSeen(w, q)' = StateSeen(w, q)
        BY <1>1, <1>3, <1>4 DEF StateSeen, Fresh, Idle
    <2> QED
        BY <1>2, <1>4, <2>1, RowsKept DEF Contract!vars
<1>5. CASE /\ rows' = MarkLeft(r, p)
           /\ Start(w, "leave.count", r, p)
           /\ UNCHANGED <<status, tokens>>
    <2>1. /\ RoomMembers' = [RoomMembers EXCEPT ![r] = @ \ {p}]
          /\ \A q \in Rooms : q # r => Active(q)' = Active(q)
        BY <1>5, MarkActive
    <2>2. \A q \in Rooms : q # r => StateSeen(w, q)' = StateSeen(w, q)
        BY <1>3, <1>5, <2>1 DEF StateSeen, Idle
    <2>3. RoomMembers \in [Rooms -> SUBSET Participants]
        BY MembersType
    <2>4. CASE status[r] = "none"
        <3>1. RoomMembers[r] = {}
            BY <2>4, Members
        <3>2. RoomMembers' = RoomMembers
            BY <2>1, <2>3, <3>1
        <3>3. StateSeen(w, r)' = StateSeen(w, r)
            BY <1>5, <2>4 DEF StateSeen
        <3> QED
            BY <1>2, <1>5, <2>2, <3>2, <3>3 DEF Contract!vars
    <2>5. CASE status[r] # "none"
        <3>1. Active(r)' = {} <=> RoomMembers[r] \subseteq {p}
            BY <2>1, <2>3, MembersAfter
        <3>2. StateSeen(w, r) = IF status[r] = "ended" THEN "closed" ELSE "open"
            BY <1>3, <2>5 DEF StateSeen, Idle
        <3>3. StateSeen(w, r)' = IF RoomMembers[r] \subseteq {p} THEN "closed"
                                 ELSE StateSeen(w, r)
            BY <1>5, <2>5, <3>1, <3>2 DEF StateSeen
        <3>4. Contract!Depart(r, p)
            BY <1>2, <1>5, <2>1, <2>2, <3>2, <3>3 DEF Contract!Depart
        <3> QED
            BY <3>4 DEF Contract!Next
    <2> QED
        BY <2>4, <2>5
<1> QED
    BY <1>1, <1>4, <1>5

LEMMA InsertRefines ==
    ASSUME IInv, Settled, NEW w \in Workers, Only(w), Only(w)',
           CreateHost(w) \/ JoinInsert(w)
    PROVE  Contract!Next \/ UNCHANGED Contract!vars
<1> USE DEF IInv, TypeOK, At, Done
<1> DEFINE r == req[w].room
           p == req[w].pid
<1>1. r \in Rooms /\ p \in Participants
    BY DEF CreateHost, JoinInsert, Request, Idle
<1>2. /\ RoomState = [q \in Rooms |-> StateSeen(w, q)]
      /\ RoomState' = [q \in Rooms |-> StateSeen(w, q)']
    BY SeenAlone, SeenAloneAfter
<1>3. \A q \in Rooms : StateSeen(w, q)' = IF status[q] = "none" THEN "none"
                                          ELSE IF status[q] = "ended" THEN "closed" ELSE "open"
    BY DEF StateSeen, CreateHost, JoinInsert, Idle
<1>4. status[r] = "active" /\ UNCHANGED tokens
    BY DEF Settled, CreateHost, JoinInsert
<1>5. \/ RoomMembers' = RoomMembers
      \/ RoomMembers' = [RoomMembers EXCEPT ![r] = @ \cup {p}]
    BY <1>1, InsertActive, RowsKept DEF CreateHost, JoinInsert
<1>6. RoomMembers \in [Rooms -> SUBSET Participants]
    BY MembersType
<1> HIDE DEF r, p
<1>7. CASE CreateHost(w)
    <2>1. Active(r) = {} /\ RoomMembers[r] = {}
        BY <1>1, <1>7, Members DEF Settled, CreateHost, r
    <2>2. \A q \in Rooms : StateSeen(w, q) = IF q = r THEN "none" ELSE StateSeen(w, q)'
        BY <1>3, <1>7 DEF StateSeen, CreateHost, r
    <2>3. RoomState[r] = "none" /\ RoomState' = [RoomState EXCEPT ![r] = "open"]
        BY <1>1, <1>2, <1>3, <1>4, <2>2
    <2>4. Contract!Open(r, {}) \/ Contract!Open(r, {p})
        BY <1>1, <1>4, <1>5, <1>6, <2>1, <2>3 DEF Contract!Open
    <2> QED
        BY <1>1, <2>4 DEF Contract!Next
<1>8. CASE JoinInsert(w)
    <2>1. \A q \in Rooms : StateSeen(w, q) = StateSeen(w, q)'
        BY <1>3, <1>8 DEF StateSeen, JoinInsert
    <2>2. RoomState[r] = "open" /\ RoomState' = RoomState
        BY <1>1, <1>2, <1>3, <1>4, <2>1
    <2>3. Contract!Enter(r, p) \/ UNCHANGED Contract!vars
        BY <1>4, <1>5, <2>2 DEF Contract!Enter, Contract!vars
    <2> QED
        BY <1>1, <2>3 DEF Contract!Next
<1> QED
    BY <1>7, <1>8

LEMMA TokenRefines ==
    ASSUME IInv, Settled, NEW w \in Workers, Only(w), Only(w)',
           CleanTokenInsert(w) \/ TokenSign(w)
    PROVE  Contract!Next \/ UNCHANGED Contract!vars
<1> USE DEF IInv, TypeOK, At, Done, Goto
<1> DEFINE r == req[w].room
           p == req[w].pid
<1>1. r \in Rooms /\ p \in Participants
    BY DEF CleanTokenInsert, TokenSign, Request, Idle
<1>2. /\ RoomState = [q \in Rooms |-> StateSeen(w, q)]
      /\ RoomState' = [q \in Rooms |-> StateSeen(w, q)']
      /\ RoomMembers' = RoomMembers
    BY SeenAlone, SeenAloneAfter, RowsKept DEF CleanTokenInsert, TokenSign
<1>3. req'[w].step \in {"idle", "token.sign"}
    BY DEF CleanTokenInsert, TokenSign, Request, Idle
<1>4. \A q \in Rooms : /\ StateSeen(w, q) = IF status[q] = "none" THEN "none"
                                            ELSE IF status[q] = "ended" THEN "closed" ELSE "open"
                       /\ StateSeen(w, q)' = IF status'[q] = "none" THEN "none"
                                             ELSE IF status'[q] = "ended" THEN "closed" ELSE "open"
    BY <1>3 DEF StateSeen, CleanTokenInsert, TokenSign
<1>5. CASE TokenSign(w)
    <2>1. RoomState[r] = "open" /\ RoomState' = RoomState
        BY <1>1, <1>2, <1>4, <1>5 DEF Settled, TokenSign
    <2>2. Contract!Grant(r, p)
        BY <1>2, <1>5, <2>1 DEF TokenSign, Contract!Grant
    <2> QED
        BY <1>1, <2>2 DEF Contract!Next
<1>6. CASE CleanTokenInsert(w) /\ UNCHANGED status
    <2>1. RoomState' = RoomState
        BY <1>2, <1>4, <1>6
    <2> QED
        BY <1>2, <1>6, <2>1 DEF CleanTokenInsert, Contract!vars
<1>7. CASE /\ CleanTokenInsert(w)
           /\ status[r] = "none"
           /\ status' = [status EXCEPT ![r] = "active"]
    <2>1. RoomMembers[r] = {}
        BY <1>1, <1>7, Members
    <2>2. RoomMembers \in [Rooms -> SUBSET Participants]
        BY MembersType
    <2> HIDE DEF r
    <2>3. RoomState[r] = "none" /\ RoomState' = [RoomState EXCEPT ![r] = "open"]
        BY <1>1, <1>2, <1>4, <1>7
    <2>4. Contract!Open(r, {})
        BY <1>1, <1>2, <1>7, <2>1, <2>2, <2>3 DEF CleanTokenInsert, Contract!Open
    <2> QED
        BY <1>1, <2>4 DEF Contract!Next
<1> QED
    BY <1>5, <1>6, <1>7 DEF CleanTokenInsert

\* The rest of a Leave, and the lookup of a Join, change nothing a client can see.
LEMMA RestRefines ==
    ASSUME IInv, Settled, NEW w \in Workers, Only(w), Only(w)',
           CleanLookup(w) \/ CleanCount(w) \/ CleanEnd(w)
    PROVE  UNCHANGED Contract!vars
<1> USE DEF IInv, TypeOK, At, Done, Goto
<1>1. /\ RoomState = [q \in Rooms |-> StateSeen(w, q)]
      /\ RoomState' = [q \in Rooms |-> StateSeen(w, q)']
    BY SeenAlone, SeenAloneAfter
<1>2. UNCHANGED <<rows, tokens>>
    BY DEF CleanLookup, CleanCount, CleanEnd
<1>3. RoomMembers' = RoomMembers /\ \A q \in Rooms : Active(q)' = Active(q)
    BY <1>2, RowsKept
<1>4. req[w] \in Request
    BY DEF CleanLookup, CleanCount, CleanEnd, Idle
<1>5. CASE CleanLookup(w)
    <2>1. req'[w].step \in {"idle", "join.insert"}
        BY <1>4, <1>5 DEF CleanLookup, Request, Idle
    <2> QED
        BY <1>1, <1>2, <1>3, <1>5, <2>1 DEF CleanLookup, StateSeen, Contract!vars
<1>6. CASE CleanCount(w)
    <2>1. \/ Active(req[w].room) # {} /\ req'[w].step = "idle"
          \/ /\ Active(req[w].room) = {}
             /\ req'[w].step = "leave.end" /\ req'[w].room = req[w].room
        BY <1>4, <1>6 DEF CleanCount, Request, Idle
    <2> QED
        BY <1>1, <1>2, <1>3, <1>6, <2>1 DEF CleanCount, StateSeen, Contract!vars
<1>7. CASE CleanEnd(w)
    <2>1. /\ req[w].room \in Rooms /\ Active(req[w].room) = {}
          /\ req'[w].step = "idle"
        BY <1>4, <1>7 DEF Settled, CleanEnd, Request, Idle
    <2>2. \/ status[req[w].room] = "none" /\ status' = status
          \/ /\ status[req[w].room] # "none"
             /\ status' = [status EXCEPT ![req[w].room] = "ended"]
        BY <1>7 DEF CleanEnd, SetRoomStatus, GetByID
    <2>3. \A q \in Rooms : StateSeen(w, q)' = StateSeen(w, q)
        BY <1>3, <1>7, <2>1, <2>2 DEF CleanEnd, StateSeen
    <2> QED
        BY <1>1, <1>2, <1>3, <2>3 DEF Contract!vars
<1> QED
    BY <1>5, <1>6, <1>7

LEMMA RefineStep ==
    ASSUME IInv, Settled, WithoutFaults!Next, Alone'
    PROVE  Contract!Next \/ UNCHANGED Contract!vars
<1>1. PICK w \in Workers : CleanArrival(w) \/ CleanContinue(w)
    BY CleanSteps
<1>2. Only(w) /\ Only(w)'
    BY <1>1, OnlyStep DEF Settled, IInv
<1> QED
    BY <1>1, <1>2, ArrivalRefines, InsertRefines, TokenRefines, RestRefines DEF CleanContinue

LEMMA RefineInit == Init => Contract!Init
BY DEF Init, Contract!Init, RoomState, RoomMembers, Active

\* Requests served one at a time, without failures, add up to the contract: each
\* statement of Create, Join, Leave and GetToken is one of its steps or none.
THEOREM RefinesContractHolds == ObservedSpec => RefinesContract
<1>1. ObservedInit => Contract!Init
    BY RefineInit DEF ObservedInit
<1>2. RInv /\ [ObservedNext]_observedVars => [Undisturbed' => Contract!Next]_(Contract!vars)
    <2> SUFFICES ASSUME RInv, [ObservedNext]_observedVars, Undisturbed'
                 PROVE  Contract!Next \/ UNCHANGED Contract!vars
        OBVIOUS
    <2>1. CASE UNCHANGED observedVars
        BY <2>1 DEF observedVars, vars, Contract!vars, RoomState, RoomMembers, Active,
                    Unannounced, Closing, At
    <2>2. CASE ObservedNext
        BY <2>2, RefineStep DEF RInv, Undisturbed, ObservedNext
    <2> QED
        BY <2>1, <2>2
<1> QED
    BY <1>1, <1>2, RInvHolds, PTL DEF ObservedSpec, RefinesContract

-----------------------------------------------------------------------------
(* What the contract is good for. *)

\* The contract keeps the rooms that are not open empty.
LEMMA ContractStep ==
    ASSUME TypeOK, Contract!OnlyOpenRoomsHaveMembers, Contract!Next \/ UNCHANGED Contract!vars
    PROVE  Contract!OnlyOpenRoomsHaveMembers'
<1>1. RoomMembers \in [Rooms -> SUBSET Participants] /\ RoomState = [r \in Rooms |-> RoomState[r]]
    BY MembersType DEF RoomState
<1> QED
    BY <1>1 DEF Contract!OnlyOpenRoomsHaveMembers, Contract!Next, Contract!vars, Contract!Open,
                Contract!Enter, Contract!Depart, Contract!Grant

\* As long as requests are served one at a time and nothing fails, nobody is in a
\* room that is not open: not one who was served before or during its end.
OnlyOpenRoomsAreEntered == Undisturbed => Contract!OnlyOpenRoomsHaveMembers

LEMMA OnlyOpenStep ==
    RInv /\ OnlyOpenRoomsAreEntered /\ [ObservedNext]_observedVars => OnlyOpenRoomsAreEntered'
<1> SUFFICES ASSUME RInv, OnlyOpenRoomsAreEntered, [ObservedNext]_observedVars, Undisturbed'
             PROVE  Contract!OnlyOpenRoomsHaveMembers'
    BY DEF OnlyOpenRoomsAreEntered
<1>1. CASE UNCHANGED observedVars
    <2>1. Undisturbed /\ UNCHANGED Contract!vars
        BY <1>1 DEF observedVars, vars, Undisturbed, Contract!vars, RoomState, RoomMembers,
                    Active, Unannounced, Closing, At
    <2> QED
        BY <2>1, ContractStep DEF RInv, IInv, OnlyOpenRoomsAreEntered
<1>2. CASE ObservedNext
    <2>1. Undisturbed
        BY <1>2 DEF Undisturbed, ObservedNext
    <2>2. Contract!Next \/ UNCHANGED Contract!vars
        BY <1>2, <2>1, RefineStep DEF RInv, Undisturbed, ObservedNext
    <2> QED
        BY <2>1, <2>2, ContractStep DEF RInv, IInv, OnlyOpenRoomsAreEntered
<1> QED
    BY <1>1, <1>2

\* The invariant of the contract is one of the handlers, through the refinement.
THEOREM OnlyOpenRoomsAreEnteredHolds == ObservedSpec => []OnlyOpenRoomsAreEntered
<1>1. ObservedInit => OnlyOpenRoomsAreEntered
    BY RefineInit DEF ObservedInit, OnlyOpenRoomsAreEntered, Contract!Init,
                      Contract!OnlyOpenRoomsHaveMembers
<1> QED
    BY <1>1, RInvHolds, OnlyOpenStep, PTL DEF ObservedSpec

\* "If no participants remain, deactivate the room": the converse, which overlapping
\* requests break, holds as long as they are served one at a time and nothing fails.
EndedRoomsStayEmpty == Undisturbed => EndedRoomsAreEmpty

THEOREM EndedRoomsStayEmptyHolds == ObservedSpec => []EndedRoomsStayEmpty
<1>1. OnlyOpenRoomsAreEntered => EndedRoomsStayEmpty
    <2> SUFFICES ASSUME OnlyOpenRoomsAreEntered, Undisturbed, NEW r \in Rooms,
                        status[r] = "ended"
                 PROVE  Active(r) = {}
        BY DEF EndedRoomsStayEmpty, EndedRoomsAreEmpty
    <2>1. RoomState[r] # "open"
        BY DEF RoomState
    <2> QED
        BY <2>1, Members DEF OnlyOpenRoomsAreEntered, Contract!OnlyOpenRoomsHaveMembers
<1> QED
    BY <1>1, OnlyOpenRoomsAreEnteredHolds, PTL

-----------------------------------------------------------------------------
(* Emptied rooms, however requests overlap. *)

\* As long as nothing fails, a room that everybody has left has a Leave under
\* way that will find it empty: of several Leaves that finish together the last
\* one to mark its rows counts zero, whichever of them comes to count first.
EmptiedIsClosing == faultless => \A r \in Rooms : Emptied(r) => Closing(r)

\* A Leave of room r that has its count or the end of the room before it.
Leaving(w, r) == req[w].step \in {"leave.count", "leave.end"} /\ req[w].room = r

LEMMA EmptiedStep ==
    ASSUME IInv, \A r \in Rooms : Emptied(r) => Closing(r), WithoutFaults!Next,
           NEW r \in Rooms, Emptied(r)'
    PROVE  Closing(r)'
<1> USE DEF IInv, TypeOK, At, Goto, Done, Start
<1>1. PICK w \in Workers : CleanArrival(w) \/ CleanContinue(w)
    BY CleanSteps
<1>2. \A v \in Workers : v # w => req'[v] = req[v]
    BY <1>1 DEF CleanArrival, CleanContinue, CreateHost, JoinInsert, TokenSign, CleanLookup,
                CleanCount, CleanEnd, CleanTokenInsert
<1>3. ASSUME Leaving(w, r)' PROVE Closing(r)'
    BY <1>3 DEF Leaving, Closing, Emptied
\* Whoever attended to the room before still does, unless it was w.
<1>4. ASSUME Emptied(r), ~Leaving(w, r) PROVE Closing(r)'
    <2>1. PICK v \in Workers : Leaving(v, r)
        BY <1>4 DEF Closing, Leaving
    <2>2. Leaving(v, r)'
        BY <1>2, <1>4, <2>1 DEF Leaving
    <2> QED
        BY <2>2 DEF Leaving, Closing, Emptied
<1>5. ASSUME UNCHANGED rows, status'[r] = "active" => status[r] = "active", ~Leaving(w, r)
      PROVE  Closing(r)'
    BY <1>4, <1>5 DEF Emptied, Active
<1>6. CASE CleanArrival(w)
    <2>1. ~Leaving(w, r)
        BY <1>6 DEF CleanArrival, Leaving, Idle
    <2>2. PICK q \in Rooms, p \in Participants :
            \/ /\ Fresh(q)
               /\ status' = [status EXCEPT ![q] = "active"]
               /\ Start(w, "create.host", q, p)
               /\ UNCHANGED <<rows, tokens>>
            \/ /\ status[q] = "active"
               /\ \E s \in {"join.lookup", "token.sign"} : Start(w, s, q, p)
               /\ UNCHANGED <<status, rows, tokens>>
            \/ /\ Start(w, "token.insert", q, p)
               /\ UNCHANGED <<status, rows, tokens>>
            \/ /\ rows' = MarkLeft(q, p)
               /\ Start(w, "leave.count", q, p)
               /\ UNCHANGED <<status, tokens>>
        BY <1>6 DEF CleanArrival
    <2>3. CASE UNCHANGED <<rows, status>>
        BY <1>5, <2>1, <2>3
    <2>4. CASE Fresh(q) /\ UNCHANGED rows /\ status' = [status EXCEPT ![q] = "active"]
        <3>1. q # r
            BY <2>4 DEF Fresh, Emptied, RowsHaveRooms
        <3> QED
            BY <1>5, <2>1, <2>4, <3>1
    <2>5. CASE rows' = MarkLeft(q, p) /\ Start(w, "leave.count", q, p) /\ UNCHANGED status
        <3>1. CASE q = r
            BY <1>3, <2>5, <3>1 DEF Leaving
        <3>2. CASE q # r
            <4>1. Active(r)' = Active(r)
                BY <2>5, <3>2, MarkActive
            <4>2. /\ DOMAIN rows' = DOMAIN rows
                  /\ \A i \in DOMAIN rows : rows'[i].room = rows[i].room
                BY <2>5, MarkedRows
            <4>3. Emptied(r)
                BY <2>5, <4>1, <4>2 DEF Emptied
            <4> QED
                BY <1>4, <2>1, <4>3
        <3> QED
            BY <3>1, <3>2
    <2> QED
        BY <2>2, <2>3, <2>4, <2>5
\* The one who enters a room is active there, and no other room has a new row.
<1>7. ASSUME NEW role \in {"host", "participant"},
             req[w].step \in {"create.host", "join.insert"}, UNCHANGED status,
             rows' = Append(rows, NewRow(req[w].room, req[w].pid, role))
      PROVE  Closing(r)'
    <2>1. req[w].room \in Rooms /\ req[w].pid \in Participants
        BY <1>7 DEF Request, Idle
    <2>2. /\ DOMAIN rows = 1 .. Len(rows) /\ Len(rows) \in Nat
          /\ DOMAIN rows' = 1 .. Len(rows) + 1
          /\ \A i \in DOMAIN rows : rows'[i] = rows[i]
          /\ rows'[Len(rows) + 1] = NewRow(req[w].room, req[w].pid, role)
        BY <1>7, <2>1, InsertRow
    <2>3. req[w].room # r
        BY <2>2 DEF Emptied, Active, NewRow
    <2>4. Emptied(r)
        BY <1>7, <2>2, <2>3 DEF Emptied, Active, NewRow
    <2> QED
        BY <1>4, <1>7, <2>4 DEF Leaving
<1>8. CASE CreateHost(w) \/ JoinInsert(w)
    <2>1. CASE UNCHANGED rows
        BY <1>5, <1>8, <2>1 DEF CreateHost, JoinInsert, Leaving
    <2> QED
        BY <1>7, <1>8, <2>1 DEF CreateHost, JoinInsert
<1>9. CASE CleanLookup(w) \/ TokenSign(w)
    BY <1>5, <1>9 DEF CleanLookup, TokenSign, Leaving
<1>10. CASE CleanCount(w)
    <2>1. CASE req[w].room = r
        <3>1. Active(r) = {}
            BY <1>10 DEF Emptied, CleanCount, Active
        <3>2. req'[w].step = "leave.end" /\ req'[w].room = r
            BY <1>10, <2>1, <3>1 DEF CleanCount, Request, Idle
        <3> QED
            BY <1>3, <3>2 DEF Leaving
    <2>2. CASE req[w].room # r
        BY <1>5, <1>10, <2>2 DEF CleanCount, Leaving
    <2> QED
        BY <2>1, <2>2
<1>11. CASE CleanEnd(w)
    <2>1. req[w].room # r
        BY <1>11 DEF CleanEnd, SetRoomStatus, GetByID, Emptied
    <2> QED
        BY <1>5, <1>11, <2>1 DEF CleanEnd, SetRoomStatus, Leaving
<1>12. CASE CleanTokenInsert(w)
    <2>1. ~Leaving(w, r)
        BY <1>12 DEF CleanTokenInsert, Leaving
    <2>2. CASE UNCHANGED status
        BY <1>5, <1>12, <2>1, <2>2 DEF CleanTokenInsert
    <2>3. CASE /\ status[req[w].room] = "none"
               /\ status' = [status EXCEPT ![req[w].room] = "active"]
        <3>1. req[w].room # r
            BY <1>12, <2>3 DEF CleanTokenInsert, Emptied, RowsHaveRooms
        <3> QED
            BY <1>5, <1>12, <2>1, <2>3, <3>1 DEF CleanTokenInsert
    <2> QED
        BY <1>12, <2>2, <2>3 DEF CleanTokenInsert
<1> QED
    BY <1>1, <1>6, <1>8, <1>9, <1>10, <1>11, <1>12 DEF CleanContinue

LEMMA ClosingStep ==
    IInv /\ EmptiedIsClosing /\ [ObservedNext]_observedVars => EmptiedIsClosing'
<1> SUFFICES ASSUME IInv, EmptiedIsClosing, [ObservedNext]_observedVars
             PROVE  EmptiedIsClosing'
    OBVIOUS
<1>1. CASE UNCHANGED observedVars
    BY <1>1 DEF observedVars, vars, EmptiedIsClosing, Emptied, Closing, Active
<1>2. CASE ObservedNext
    BY <1>2, EmptiedStep DEF ObservedNext, EmptiedIsClosing
<1> QED
    BY <1>1, <1>2

\* Two Leaves that each count the other's participant would leave an empty room
\* active forever; marking before counting rules it out.
THEOREM EmptiedIsClosingHolds == ObservedSpec => []EmptiedIsClosing
<1>1. ObservedInit => EmptiedIsClosing
    BY DEF ObservedInit, Init, EmptiedIsClosing, Emptied
<1>2. RInv => IInv
    BY DEF RInv
<1> QED
    BY <1>1, <1>2, RInvHolds, ClosingStep, PTL DEF ObservedSpec

-----------------------------------------------------------------------------
(* Liveness.  Fairness says WF_vars(Continue(w)) of every goroutine: if        *)
(* Continue(w) is enabled from some moment on, then it is taken.  A request     *)
(* can always go on: whatever its statement finds, it has an outcome, and the   *)
(* request then executes another statement or is over.  So Continue(w) is       *)
(* enabled exactly as long as w serves a request, and Scheduled says the same     *)
(* without ENABLED: at every moment, each goroutine has no request sooner or    *)
(* later, or takes another step.                                                *)
Scheduled == [](\A w \in Workers : <>(req[w] = Idle) \/ <><<Continue(w)>>_vars)

\* What the Leave that attends to an emptied room works towards.
EndedOrEntered(r) == status[r] = "ended" \/ Active(r) # {} \/ ~faultless

\* The Leave of an empty room stays where it is, or goes on to end the room,
\* unless somebody enters.
LEMMA LeavingStep ==
    ASSUME IInv, [ObservedNext]_observedVars, NEW w \in Workers, NEW r \in Rooms,
           status[r] = "active", Leaving(w, r), ~EndedOrEntered(r)'
    PROVE  /\ status'[r] = "active"
           /\ Leaving(w, r)'
           /\ \/ req'[w] = req[w]
              \/ At(w, "leave.count") /\ At(w, "leave.end")'
<1> USE DEF IInv, TypeOK, At, Goto, Done, Start
<1>1. CASE UNCHANGED observedVars
    BY <1>1 DEF observedVars, vars, Leaving
<1>2. CASE ObservedNext
    <2>1. PICK v \in Workers : CleanArrival(v) \/ CleanContinue(v)
        BY <1>2, CleanSteps DEF ObservedNext, EndedOrEntered
    <2>2. \A u \in Workers : u # v => req'[u] = req[u]
        BY <2>1 DEF CleanArrival, CleanContinue, CreateHost, JoinInsert, TokenSign,
                    CleanLookup, CleanCount, CleanEnd, CleanTokenInsert
    <2>3. status'[r] = "active"
        BY <2>1 DEF EndedOrEntered, CleanArrival, CleanContinue, CreateHost, JoinInsert,
                    TokenSign, CleanLookup, CleanCount, CleanEnd, CleanTokenInsert,
                    SetRoomStatus, Fresh
    <2>4. CASE v # w
        BY <2>2, <2>3, <2>4 DEF Leaving
    <2>5. CASE v = w
        <3>1. CleanCount(w) \/ CleanEnd(w)
            BY <2>1, <2>5 DEF Leaving, CleanArrival, CleanContinue, CreateHost, JoinInsert,
                              TokenSign, CleanLookup, CleanTokenInsert, Idle
        <3>2. ~CleanEnd(w)
            BY <2>3 DEF CleanEnd, SetRoomStatus, GetByID, Leaving
        <3>3. CleanCount(w)
            BY <3>1, <3>2
        <3>4. Active(req[w].room) = {}
            BY <3>3 DEF CleanCount, Active, EndedOrEntered, Leaving
        <3> QED
            BY <2>3, <3>3, <3>4 DEF CleanCount, Leaving, Request, Idle
    <2> QED
        BY <2>4, <2>5
<1> QED
    BY <1>1, <1>2

\* A count that is answered, or fails, is over.
LEMMA CountMoves ==
    ASSUME TypeOK, NEW w \in Workers, LeaveCount(w)
    PROVE  req'[w] # req[w]
<1>1. req[w] \in Request /\ req[w].step = "leave.count"
    BY DEF LeaveCount, At, TypeOK, Idle
<1>2. CASE req' = [req EXCEPT ![w].step = "leave.end", ![w].seen = Len(rows)]
    BY <1>1, <1>2 DEF TypeOK, Request
<1>3. CASE Done(w)
    BY <1>1, <1>3 DEF Done, TypeOK, Idle
<1> QED
    BY <1>2, <1>3 DEF LeaveCount

\* One room: its Leave counts, and then ends it, if nobody enters before.
LEMMA RoomEnds ==
    ASSUME NEW r \in Rooms
    PROVE  []RInv /\ []EmptiedIsClosing /\ [][ObservedNext]_observedVars /\ Scheduled
            => (Emptied(r) /\ faultless ~> EndedOrEntered(r))
<1> SUFFICES ASSUME []RInv, []EmptiedIsClosing, [][ObservedNext]_observedVars,
                    [](\A w \in Workers : <>(req[w] = Idle) \/ <><<Continue(w)>>_vars)
             PROVE  Emptied(r) /\ faultless ~> EndedOrEntered(r)
    BY DEF Scheduled
<1> DEFINE Counting(w) == status[r] = "active" /\ Leaving(w, r) /\ At(w, "leave.count")
           Ending(w) == status[r] = "active" /\ Leaving(w, r) /\ At(w, "leave.end")
<1>1. \A w \in Workers : <>(req[w] = Idle) \/ <><<Continue(w)>>_vars
    BY PTL
<1>2. ASSUME NEW w \in Workers PROVE Counting(w) \/ Ending(w) => <>EndedOrEntered(r)
    <2>1. <>(req[w] = Idle) \/ <><<Continue(w)>>_vars
        BY <1>1, Zenon
    <2>2. RInv /\ [ObservedNext]_observedVars
            => (Counting(w) => Counting(w)' \/ Ending(w)' \/ EndedOrEntered(r)')
        BY LeavingStep DEF RInv, At
    <2>3. RInv /\ [ObservedNext]_observedVars
            => (Ending(w) => Ending(w)' \/ EndedOrEntered(r)')
        BY LeavingStep DEF RInv, At
    <2>4. RInv /\ [ObservedNext]_observedVars /\ <<Continue(w)>>_vars
            => (Counting(w) => Ending(w)' \/ EndedOrEntered(r)')
        <3> SUFFICES ASSUME RInv, [ObservedNext]_observedVars, Continue(w), Counting(w)
                     PROVE  Ending(w)' \/ EndedOrEntered(r)'
            OBVIOUS
        <3>1. LeaveCount(w)
            BY DEF Continue, CreateHost, JoinLookup, JoinInsert, LeaveEnd, TokenInsert,
                   TokenSign, At
        <3>2. req'[w] # req[w]
            BY <3>1, CountMoves DEF RInv, IInv
        <3> QED
            BY <3>2, LeavingStep DEF RInv
    <2>5. RInv /\ [ObservedNext]_observedVars /\ <<Continue(w)>>_vars
            => (Ending(w) => EndedOrEntered(r)')
        <3> SUFFICES ASSUME RInv, [ObservedNext]_observedVars, Continue(w), Ending(w)
                     PROVE  EndedOrEntered(r)'
            OBVIOUS
        <3>1. LeaveEnd(w)
            BY DEF Continue, CreateHost, JoinLookup, JoinInsert, LeaveCount, TokenInsert,
                   TokenSign, At
        <3>2. ~Leaving(w, r)'
            BY <3>1 DEF LeaveEnd, Done, Leaving, RInv, IInv, TypeOK, Idle
        <3> QED
            BY <3>2, LeavingStep DEF RInv
    <2>6. req[w] = Idle => ~Counting(w) /\ ~Ending(w)
        BY DEF At, Idle
    <2> HIDE DEF Counting, Ending
    <2> QED
        BY <2>1, <2>2, <2>3, <2>4, <2>5, <2>6, PTL
<1>3. (\E w \in Workers : Counting(w) \/ Ending(w)) => <>EndedOrEntered(r)
    <2> HIDE DEF Counting, Ending
    <2> QED
        BY <1>2, Zenon
<1>4. EmptiedIsClosing => (Emptied(r) /\ faultless
                            => \E w \in Workers : Counting(w) \/ Ending(w))
    BY DEF EmptiedIsClosing, Closing, Emptied, Leaving, At
<1> HIDE DEF Counting, Ending
<1> QED
    BY <1>3, <1>4, PTL

\* However requests overlap, a room that everybody has left is ended unless
\* somebody comes in again or something fails.
THEOREM EmptiedRoomEndsHolds == ObservedSpec /\ Scheduled => EmptiedRoomEnds
<1>1. ASSUME NEW r \in Rooms
      PROVE  ObservedSpec /\ Scheduled
                => (Emptied(r) /\ faultless
                        ~> status[r] = "ended" \/ Active(r) # {} \/ ~faultless)
    <2>1. EndedOrEntered(r) => status[r] = "ended" \/ Active(r) # {} \/ ~faultless
        BY DEF EndedOrEntered
    <2> QED
        BY <2>1, RoomEnds, RInvHolds, EmptiedIsClosingHolds, PTL DEF ObservedSpec
<1> QED
    BY <1>1 DEF EmptiedRoomEnds

=============================================================================
