--------------------------- MODULE AnonymousRoom ---------------------------
(***************************************************************************)
(* Rooms without accounts: the handlers of /api/v1/rooms (create, join,    *)
(* leave, media/token) over the tables anonymous_rooms and                 *)
(* anonymous_participants.                                                 *)
(*                                                                         *)
(* A request is served by a goroutine of its own (a member of Workers).    *)
(* Every SQL statement is autocommitted by itself, so a handler is a       *)
(* sequence of atomic steps, one per statement, interleaved with the       *)
(* statements of the other requests.  What a handler computes between two  *)
(* statements is local and belongs to the step before it.                  *)
(***************************************************************************)
EXTENDS Naturals, Sequences, FiniteSets

CONSTANTS
    Rooms,         \* room ids a client or the server may come up with
    Participants,  \* values of the X-Participant-ID header
    Workers,       \* request goroutines that may run at the same time
    MaxRows,       \* bound: rows of anonymous_participants in one behaviour
    Faults         \* TRUE: statements may fail and the process may crash

ASSUME ConstantsAssumption == MaxRows \in Nat /\ Faults \in BOOLEAN

VARIABLES
    status,   \* anonymous_rooms: room id -> "none" (no row) or its status
    rows,     \* anonymous_participants, in insertion order
    tokens,   \* LiveKit access tokens handed out, as <<room, participant>>
    req       \* the request each goroutine is serving

vars == <<status, rows, tokens, req>>

Row == [room : Rooms, pid : Participants, role : {"host", "participant"},
        left : BOOLEAN]

\* The statement a request executes next.
Steps == {"create.host", "join.lookup", "join.insert", "leave.count",
          "leave.end", "token.insert", "token.sign"}

\* seen is an auxiliary of the specification: how many rows existed when a
\* Leave counted the participants of its room.
Request == [step : Steps, room : Rooms, pid : Participants, seen : Nat]

Idle == [step |-> "idle"]

TypeOK ==
    /\ status \in [Rooms -> {"none", "active", "ended"}]
    /\ rows \in Seq(Row)
    /\ tokens \subseteq Rooms \X Participants
    /\ req \in [Workers -> Request \cup {Idle}]

-----------------------------------------------------------------------------
(* Queries over anonymous_participants. *)

\* WHERE room_id = r AND left_at IS NULL
Active(r) == {i \in DOMAIN rows : rows[i].room = r /\ ~rows[i].left}

\* ... AND participant_id = p
ActiveOf(r, p) == {i \in Active(r) : rows[i].pid = p}

\* The constraint UNIQUE (room_id, participant_id, left_at) takes NULLs as
\* distinct, so it accepts any number of active rows of one participant; but
\* MarkParticipantLeft writes one timestamp into all of them, and two equal
\* timestamps violate it.
LeftAtCollides(r, p) == \E i, j \in ActiveOf(r, p) : i # j

\* Mutant: the role of the new row is ignored.
NewRowAlwaysHost(r, p, role) ==
    [room |-> r, pid |-> p, role |-> "host", left |-> FALSE]

NewRow(r, p, role) == [room |-> r, pid |-> p, role |-> role, left |-> FALSE]

-----------------------------------------------------------------------------
(* How a statement may end: executed and answered; failed without effect;  *)
(* executed with the answer lost (the handler sees an error, as it does    *)
(* when the client disconnects and the request context is cancelled).      *)

Outcomes == IF Faults THEN {"ok", "failed", "lost"} ELSE {"ok"}

\* A participant INSERT can be refused without any fault: normalizeDisplayName
\* cuts the name at 50 bytes, which may split a character, and PostgreSQL
\* refuses the text.
InsertOutcomes == Outcomes \cup {"failed"}

Takes(o) == o # "failed"

\* The request of w goes on with statement s, or is over.
Goto(w, s) == req' = [req EXCEPT ![w].step = s]
Done(w) == req' = [req EXCEPT ![w] = Idle]
Start(w, s, r, p) ==
    req' = [req EXCEPT ![w] = [step |-> s, room |-> r, pid |-> p, seen |-> 0]]

At(w, s) == req[w].step = s

\* Bound: a request that may insert a participant starts only while the rows
\* and the inserts under way leave room for one more.
MayInsert ==
    Len(rows) + Cardinality({w \in Workers : req[w].step \in
        {"create.host", "join.lookup", "join.insert"}}) < MaxRows

\* A client learns the id of a room from the answer to its Create, which is
\* sent after the host row is written.  (When that answer is never sent, the
\* room is one without rows, as GetToken makes them under ids clients know.)
Unannounced(r) == \E w \in Workers : At(w, "create.host") /\ req[w].room = r

\* uuid.New(): no request under way names the room.
Fresh(r) == status[r] = "none" /\ \A w \in Workers : req[w] # Idle => req[w].room # r

\* SELECT ... WHERE id = r: the status of the room, when there is one.
GetByID(r) == {status[r]} \ {"none"}

\* The table after UPDATE ... SET status WHERE id = r: no row, no change.
SetRoomStatus(r, s) == IF GetByID(r) = {} THEN status ELSE [status EXCEPT ![r] = s]

-----------------------------------------------------------------------------
Init ==
    /\ status = [r \in Rooms |-> "none"]
    /\ rows = <<>>
    /\ tokens = {}
    /\ req = [w \in Workers |-> Idle]

(* Create: INSERT the room, then INSERT the host.  The failure of the first *)
(* answers 400; the failure of the second is only logged.                   *)
CreateRoom(w) ==
    /\ req[w] = Idle
    /\ MayInsert
    /\ \E r \in Rooms, p \in Participants, o \in Outcomes :
        /\ Fresh(r)
        /\ status' = IF Takes(o) THEN [status EXCEPT ![r] = "active"] ELSE status
        /\ IF o = "ok" THEN Start(w, "create.host", r, p) ELSE UNCHANGED req
    /\ UNCHANGED <<rows, tokens>>

CreateHost(w) ==
    /\ At(w, "create.host")
    /\ \E o \in InsertOutcomes :
        rows' = IF Takes(o) THEN Append(rows, NewRow(req[w].room, req[w].pid, "host"))
                            ELSE rows
    /\ Done(w)
    /\ UNCHANGED <<status, tokens>>

\* Mutant: the status of the room is not checked.
JoinStatusUnchecked(w) ==
    /\ req[w] = Idle
    /\ MayInsert
    /\ \E r \in Rooms, p \in Participants :
        /\ ~Unannounced(r)
        /\ status[r] # "none"
        /\ Start(w, "join.lookup", r, p)
    /\ UNCHANGED <<status, rows, tokens>>

(* Join: the room must exist and be active (any other answer, and any error *)
(* of the SELECT, is a 400 that changes nothing).                           *)
JoinStatus(w) ==
    /\ req[w] = Idle
    /\ MayInsert
    /\ \E r \in Rooms, p \in Participants :
        /\ ~Unannounced(r)
        /\ GetByID(r) = {"active"}
        /\ Start(w, "join.lookup", r, p)
    /\ UNCHANGED <<status, rows, tokens>>

\* Mutant: a participant who is in the room already is inserted again.
JoinLookupSkipped(w) ==
    /\ At(w, "join.lookup")
    /\ Goto(w, "join.insert")
    /\ UNCHANGED <<status, rows, tokens>>

\* An error of the lookup is taken as "not joined yet".
JoinLookup(w) ==
    /\ At(w, "join.lookup")
    /\ \E o \in Outcomes :
        IF o = "ok" /\ ActiveOf(req[w].room, req[w].pid) # {}
        THEN Done(w)
        ELSE Goto(w, "join.insert")
    /\ UNCHANGED <<status, rows, tokens>>

\* Mutant: a participant who comes back gets the old row reopened.
JoinInsertReopens(w) ==
    /\ At(w, "join.insert")
    /\ LET mine(i) == rows[i].room = req[w].room /\ rows[i].pid = req[w].pid
       IN  rows' = IF \E i \in DOMAIN rows : mine(i)
                   THEN [i \in DOMAIN rows |->
                           IF mine(i) THEN [rows[i] EXCEPT !.left = FALSE] ELSE rows[i]]
                   ELSE Append(rows, NewRow(req[w].room, req[w].pid, "participant"))
    /\ Done(w)
    /\ UNCHANGED <<status, tokens>>

JoinInsert(w) ==
    /\ At(w, "join.insert")
    /\ \E o \in InsertOutcomes :
        rows' = IF Takes(o) THEN Append(rows, NewRow(req[w].room, req[w].pid, "participant"))
                            ELSE rows
    /\ Done(w)
    /\ UNCHANGED <<status, tokens>>

\* Mutant: the UPDATE forgets its participant_id condition.
MarkEveryoneLeft(r, p) ==
    [i \in DOMAIN rows |->
        IF i \in Active(r) THEN [rows[i] EXCEPT !.left = TRUE] ELSE rows[i]]

(* Leave: mark every active row of the participant, count who remains, and  *)
(* end the room when nobody does.  The handler checks neither that the room *)
(* exists nor that the participant ever joined.                             *)
MarkLeft(r, p) ==
    [i \in DOMAIN rows |->
        IF i \in ActiveOf(r, p) THEN [rows[i] EXCEPT !.left = TRUE] ELSE rows[i]]

LeaveMark(w) ==
    /\ req[w] = Idle
    /\ \E r \in Rooms, p \in Participants, o \in Outcomes :
        /\ ~Unannounced(r)
        /\ ~LeftAtCollides(r, p)   \* otherwise the UPDATE fails: a 500, no change
        /\ rows' = IF Takes(o) THEN MarkLeft(r, p) ELSE rows
        /\ IF o = "ok" THEN Start(w, "leave.count", r, p) ELSE UNCHANGED req
    /\ UNCHANGED <<status, tokens>>

\* Mutant: the count is compared as if it still included who is leaving.
LeaveCountOffByOne(w) ==
    /\ At(w, "leave.count")
    /\ IF Cardinality(Active(req[w].room)) = 1
       THEN req' = [req EXCEPT ![w].step = "leave.end", ![w].seen = Len(rows)]
       ELSE Done(w)
    /\ UNCHANGED <<status, rows, tokens>>

\* An error of the count, or somebody left, ends the request: 200.
LeaveCount(w) ==
    /\ At(w, "leave.count")
    /\ \E o \in Outcomes :
        IF o = "ok" /\ Active(req[w].room) = {}
        THEN req' = [req EXCEPT ![w].step = "leave.end", ![w].seen = Len(rows)]
        ELSE Done(w)
    /\ UNCHANGED <<status, rows, tokens>>

\* Mutant: a status the schema's users do not know.
LeaveEndWrongStatus(w) ==
    /\ At(w, "leave.end")
    /\ status' = [status EXCEPT ![req[w].room] = "inactive"]
    /\ Done(w)
    /\ UNCHANGED <<rows, tokens>>

LeaveEnd(w) ==
    /\ At(w, "leave.end")
    /\ \E o \in Outcomes :
        status' = IF Takes(o) THEN SetRoomStatus(req[w].room, "ended") ELSE status
    /\ Done(w)
    /\ UNCHANGED <<rows, tokens>>

(* GetToken: an active room goes to the signing of the token, an ended one  *)
(* is refused.  Any error of the SELECT, "no rows" among them, makes the    *)
(* handler create the room under the id the client sent.                    *)
TokenRead(w) ==
    /\ req[w] = Idle
    /\ \E r \in Rooms, p \in Participants, o \in Outcomes :
        /\ ~Unannounced(r)
        /\ \/ /\ o = "ok"
              /\ GetByID(r) = {"active"}
              /\ Start(w, "token.sign", r, p)
           \/ /\ o # "ok" \/ GetByID(r) = {}
              /\ Start(w, "token.insert", r, p)
    /\ UNCHANGED <<status, rows, tokens>>

\* The primary key refuses a room that exists: "failed to create".
TokenInsert(w) ==
    /\ At(w, "token.insert")
    /\ \E o \in Outcomes :
        IF status[req[w].room] # "none"
        THEN Done(w) /\ UNCHANGED status
        ELSE /\ status' = IF Takes(o) THEN [status EXCEPT ![req[w].room] = "active"]
                                      ELSE status
             /\ IF o = "ok" THEN Goto(w, "token.sign") ELSE Done(w)
    /\ UNCHANGED <<rows, tokens>>

TokenSign(w) ==
    /\ At(w, "token.sign")
    /\ tokens' = tokens \cup {<<req[w].room, req[w].pid>>}
    /\ Done(w)
    /\ UNCHANGED <<status, rows>>

(* The process dies: the requests under way are gone, the tables stay. *)
Crash ==
    /\ Faults
    /\ \E w \in Workers : req[w] # Idle
    /\ req' = [w \in Workers |-> Idle]
    /\ UNCHANGED <<status, rows, tokens>>

-----------------------------------------------------------------------------
\* A new request; nothing obliges a client to send one.
Arrive(w) == CreateRoom(w) \/ JoinStatus(w) \/ LeaveMark(w) \/ TokenRead(w)

\* The goroutine of a request under way takes its next step.
Continue(w) ==
    \/ CreateHost(w)
    \/ JoinLookup(w) \/ JoinInsert(w)
    \/ LeaveCount(w) \/ LeaveEnd(w)
    \/ TokenInsert(w) \/ TokenSign(w)

Next == Crash \/ \E w \in Workers : Arrive(w) \/ Continue(w)

Spec == Init /\ [][Next]_vars

\* A goroutine that serves a request is scheduled until the handler returns.
Fairness == \A w \in Workers : WF_vars(Continue(w))

FairSpec == Spec /\ Fairness
-----------------------------------------------------------------------------
(* Safety. *)

\* A room never has two hosts, whatever its creator does afterwards: only the
\* Create that made the room writes a host row, once; a host who comes back
\* after leaving is an ordinary participant (Create and Join of the service).
OneHost ==
    \A i, j \in DOMAIN rows :
        rows[i].role = "host" /\ rows[j].role = "host" /\ rows[i].room = rows[j].room
            => i = j

\* When a Leave is about to end a room, everybody who had a row in it at the
\* moment of its count has left since or before: those still in the room all
\* came in after the count.
EmptyWhenCounted ==
    \A w \in Workers :
        At(w, "leave.end") => \A i \in Active(req[w].room) : i > req[w].seen

\* An ended room stays ended: neither a Join, nor the room creation hidden in
\* GetToken (which runs on any error of its SELECT), nor a late Leave opens it
\* again.
EndedIsFinal ==
    [][\A r \in Rooms : status[r] = "ended" => status'[r] = "ended"]_vars

\* The history of a room is kept: no row of anonymous_participants disappears,
\* changes its owner or its role, or becomes active again once left (a return
\* is a new row).
LeftIsFinal ==
    [][\A i \in DOMAIN rows :
        /\ i \in DOMAIN rows'
        /\ [rows'[i] EXCEPT !.left = rows[i].left] = rows[i]
        /\ rows[i].left => rows'[i].left]_vars

\* A request that passed the status check of r and still has its effect ahead.
Admitted(r) ==
    \E w \in Workers :
        /\ req[w] # Idle
        /\ req[w].room = r
        /\ req[w].step \in {"create.host", "join.lookup", "join.insert", "token.sign"}

Closed(r) == status[r] = "ended" /\ ~Admitted(r)

\* Once a room has ended and the requests that saw it active are through,
\* nobody enters it and no token for it is handed out any more; it can only
\* empty.
NoEntryAfterEnd ==
    [][\A r \in Rooms : Closed(r) =>
        /\ Closed(r)'
        /\ Active(r)' \subseteq Active(r)
        /\ \A p \in Participants : <<r, p>> \in tokens' => <<r, p>> \in tokens]_vars

-----------------------------------------------------------------------------
(* Liveness, when no statement fails and the process stays up. *)

Emptied(r) ==
    /\ status[r] = "active"
    /\ \E i \in DOMAIN rows : rows[i].room = r
    /\ Active(r) = {}

-----------------------------------------------------------------------------
(* What the comments and the API document say and the code does not do.    *)

\* "If no participants remain, deactivate the room" (service Leave): an ended
\* room has no participants.
EndedRoomsAreEmpty == \A r \in Rooms : status[r] = "ended" => Active(r) = {}

\* "Marks the current participant as having left." (API.md, leave): no
\* participant gets into a state in which their Leave can only be refused.
LeaveIsPossible == \A r \in Rooms, p \in Participants : ~LeftAtCollides(r, p)
=============================================================================
