--------------------------- MODULE PersistentRoom ---------------------------
(***************************************************************************)
(* Rooms of accounts and their chat: the services over the tables rooms,   *)
(* room_participants, waiting_room_entries, room_invites, chat_messages    *)
(* and audit_log, and the media tokens of such rooms.  Routes exist for    *)
(* changing and deleting a room and for inviting; the other operations are *)
(* the services as they are written.                                       *)
(*                                                                         *)
(* As with the anonymous rooms every statement is autocommitted by itself. *)
(* Here the foreign keys stand between the statements of different         *)
(* requests, and a room is always written back as a whole row.             *)
(***************************************************************************)
EXTENDS Naturals, FiniteSets

CONSTANTS
    Rooms,     \* bound: room ids of one behaviour
    Users,     \* accounts
    Titles,    \* titles a host may give a room
    Entries,   \* bound: ids of rows of room_participants
    Messages,  \* bound: ids of chat messages
    Workers    \* request goroutines that may run at the same time

VARIABLES
    rooms,         \* the table, a function from the ids it has
    participants,  \* room_participants, a function from the ids it has
    messages,      \* chat_messages, a function from the ids it has
    waiting,       \* waiting_room_entries, as [room, user]
    invites,       \* room_invites, as [room, user]
    tokens,        \* media tokens ever signed, as <<room, user>>
    audit,         \* the rooms that audit_log refers to
    req,           \* the request each goroutine is serving
    used,          \* auxiliary: the ids ever given out, none twice
    calm           \* auxiliary: requests have not overlapped, nothing has failed

\* Who waits, has been invited, or may enter the call.
admission == <<waiting, invites, tokens>>
vars == <<rooms, participants, messages, admission, audit, req, used, calm>>

Room == [host : Users, title : Titles, status : {"scheduled", "active"}]
Participant ==
    [room : Rooms, user : Users, role : {"host", "participant"}, left : BOOLEAN]
Message == [room : Rooms, sender : Entries, edited : BOOLEAN, deleted : BOOLEAN]
Pair == [room : Rooms, user : Users]

\* row: what the handler has read of the room, or is going to write into it.
Request ==
    [step : {"create.audit", "delete.remove", "invite.insert", "send.lookup", "send.enter",
             "token.sign"},
     room : Rooms, user : Users]
        \cup [step : {"update.write", "join.lookup", "join.wait", "join.insert", "join.promote"},
              room : Rooms, user : Users, row : Room]
        \cup [step : {"leave.mark", "send.insert"}, room : Rooms, user : Users, entry : Entries]
        \cup [step : {"edit.write", "erase.write"}, message : Messages, user : Users]

Idle == [step |-> "idle"]

TypeOK ==
    /\ DOMAIN rooms \subseteq Rooms /\ rooms \in [DOMAIN rooms -> Room]
    /\ DOMAIN participants \subseteq Entries
    /\ participants \in [DOMAIN participants -> Participant]
    /\ DOMAIN messages \subseteq Messages /\ messages \in [DOMAIN messages -> Message]
    /\ waiting \subseteq Pair /\ invites \subseteq Pair /\ tokens \subseteq Rooms \X Users
    /\ audit \subseteq Rooms
    /\ req \in [Workers -> Request \cup {Idle}]
    /\ DOMAIN rooms \cup DOMAIN participants \cup DOMAIN messages \subseteq used
    /\ calm \in BOOLEAN

-----------------------------------------------------------------------------
At(w, s) == req[w].step = s
Go(w, next) == req' = [req EXCEPT ![w] = next]
Goto(w, s) == req' = [req EXCEPT ![w].step = s]
Done(w) == Go(w, Idle)

\* INSERT or UPDATE of the row under an id.
Write(table, id, row) ==
    [i \in DOMAIN table \cup {id} |-> IF i = id THEN row ELSE table[i]]

\* DELETE of the rows under some ids.
Without(table, ids) == [i \in DOMAIN table \ ids |-> table[i]]

\* SELECT by an id: the row, when there is one.
Lookup(table, id) == {table[i] : i \in DOMAIN table \cap {id}}

GetByID(r) == Lookup(rooms, r)
GetParticipantByID(e) == Lookup(participants, e)
GetMessageByID(m) == Lookup(messages, m)

\* The ids of a table's rows that refer to a room.
Of(table, r) == {i \in DOMAIN table : table[i].room = r}

\* A statement is executed and answered, fails, or is executed with its answer lost.
Outcomes == {"ok", "failed", "lost"}
Takes(o) == o # "failed"
Note(o) == calm' = (calm /\ o = "ok")

\* The first statement of a request, beside those under way.
NoteBegin(o) == calm' = (calm /\ o = "ok" /\ \A v \in Workers : req[v] = Idle)

\* WHERE room_id = r AND user_id = u AND left_at IS NULL.  (The newest by the
\* clocks of the requests that made them: any one, when there are several.)
ActiveOf(r, u) ==
    {e \in DOMAIN participants :
        participants[e].room = r /\ participants[e].user = u /\ ~participants[e].left}

\* Bounds: a request that may use up an id starts only while they suffice for
\* all such requests under way.
MayEnter ==
    Cardinality({w \in Workers : req[w].step \in
        {"join.lookup", "join.insert", "send.lookup", "send.enter"}})
            < Cardinality(Entries \ used)

MaySend ==
    Cardinality({w \in Workers : req[w].step \in {"send.lookup", "send.enter", "send.insert"}})
        < Cardinality(Messages \ used)

Init ==
    /\ rooms = [r \in {} |-> {}]
    /\ participants = [e \in {} |-> {}]
    /\ messages = [m \in {} |-> {}]
    /\ waiting = {} /\ invites = {} /\ tokens = {}
    /\ audit = {}
    /\ req = [w \in Workers |-> Idle]
    /\ used = {}
    /\ calm = TRUE

-----------------------------------------------------------------------------
(* Create: INSERT the room, then its entry in the audit log, whose failure  *)
(* is only logged.                                                          *)
CreateRoom(w) ==
    /\ req[w] = Idle
    /\ \E r \in Rooms \ used, u \in Users, t \in Titles, o \in Outcomes \ {"failed"} :
        /\ rooms' = Write(rooms, r, [host |-> u, title |-> t, status |-> "scheduled"])
        /\ used' = used \cup {r}
        /\ IF o = "ok" THEN Go(w, [step |-> "create.audit", room |-> r, user |-> u])
                       ELSE UNCHANGED req
        /\ NoteBegin(o)
    /\ UNCHANGED <<participants, messages, admission, audit>>

\* The foreign key refuses an entry about a room that is gone.
CreateLog(r, o) == audit' = IF Takes(o) THEN audit \cup ({r} \cap DOMAIN rooms) ELSE audit

CreateAudit(w) ==
    /\ At(w, "create.audit")
    /\ \E o \in Outcomes : CreateLog(req[w].room, o) /\ Note(o)
    /\ Done(w)
    /\ UNCHANGED <<rooms, participants, messages, admission, used>>

(* Update: read the room, of which the user must be the host, and write the *)
(* whole row back.                                                          *)
UpdateRead(w) ==
    /\ req[w] = Idle
    /\ \E r \in Rooms, t \in Titles : \E row \in GetByID(r) :
        Go(w, [step |-> "update.write", room |-> r, user |-> row.host,
               row |-> [row EXCEPT !.title = t]])
    /\ NoteBegin("ok")
    /\ UNCHANGED <<rooms, participants, messages, admission, audit, used>>

\* Mutant: the row is inserted when it is not there.
OverwriteUpserts(r, row) == Write(rooms, r, row)

\* UPDATE ... WHERE id = r: every column but the host; no row, no change.
Overwrite(r, row) == IF r \in DOMAIN rooms THEN Write(rooms, r, row) ELSE rooms

\* Mutant: the status goes back to its default.
UpdateWriteDefaults(w) ==
    /\ At(w, "update.write")
    /\ rooms' = Overwrite(req[w].room, [req[w].row EXCEPT !.status = "scheduled"])
    /\ Done(w)
    /\ UNCHANGED <<participants, messages, admission, audit, used, calm>>

UpdateWrite(w) ==
    /\ At(w, "update.write")
    /\ \E o \in Outcomes :
        /\ rooms' = IF Takes(o) THEN Overwrite(req[w].room, req[w].row) ELSE rooms
        /\ Note(o)
    /\ Done(w)
    /\ UNCHANGED <<participants, messages, admission, audit, used>>

(* Delete: read the room for its host, DELETE the row. *)
DeleteRead(w) ==
    /\ req[w] = Idle
    /\ \E r \in Rooms : \E row \in GetByID(r) :
        Go(w, [step |-> "delete.remove", room |-> r, user |-> row.host])
    /\ NoteBegin("ok")
    /\ UNCHANGED <<rooms, participants, messages, admission, audit, used>>

\* ON DELETE CASCADE.
Cascade(r) ==
    /\ rooms' = Without(rooms, {r})
    /\ participants' = Without(participants, Of(participants, r))
    /\ messages' = Without(messages, Of(messages, r))
    /\ waiting' = {x \in waiting : x.room # r}
    /\ invites' = {x \in invites : x.room # r}
    /\ UNCHANGED tokens

\* The audit log does not cascade: a room that it refers to stays.
DeleteRemove(w) ==
    /\ At(w, "delete.remove")
    /\ \E o \in Outcomes :
        /\ IF Takes(o) /\ req[w].room \notin audit
           THEN Cascade(req[w].room)
           ELSE UNCHANGED <<rooms, participants, messages, admission>>
        /\ Note(o)
    /\ Done(w)
    /\ UNCHANGED <<audit, used>>

(* CreateInvite: read the room for its host, INSERT. *)
InviteRead(w) ==
    /\ req[w] = Idle
    /\ \E r \in Rooms : \E row \in GetByID(r) :
        Go(w, [step |-> "invite.insert", room |-> r, user |-> row.host])
    /\ NoteBegin("ok")
    /\ UNCHANGED <<rooms, participants, messages, admission, audit, used>>

\* The foreign key refuses a row whose room is gone.
Listed(w, o) ==
    IF Takes(o) /\ req[w].room \in DOMAIN rooms
    THEN {[room |-> req[w].room, user |-> req[w].user]} ELSE {}

InviteInsert(w) ==
    /\ At(w, "invite.insert")
    /\ \E o \in Outcomes : invites' = invites \cup Listed(w, o) /\ Note(o)
    /\ Done(w)
    /\ UNCHANGED <<rooms, participants, messages, waiting, tokens, audit, used>>

-----------------------------------------------------------------------------
(* Join: read the room, look for an active row of the user (an error counts *)
(* as "none").  The waiting room is on in every room that Create makes, and *)
(* nothing turns it off, so that a guest waits and only the host enters.    *)
JoinRead(w) ==
    /\ req[w] = Idle
    /\ MayEnter
    /\ \E r \in Rooms, u \in Users : \E row \in GetByID(r) :
        Go(w, [step |-> "join.lookup", room |-> r, user |-> u, row |-> row])
    /\ NoteBegin("ok")
    /\ UNCHANGED <<rooms, participants, messages, admission, audit, used>>

\* Mutant: an active row is not looked for.
JoinLookupSkipped(w) ==
    /\ At(w, "join.lookup")
    /\ Goto(w, IF req[w].row.host = req[w].user THEN "join.insert" ELSE "join.wait")
    /\ UNCHANGED <<rooms, participants, messages, admission, audit, used, calm>>

JoinLookup(w) ==
    /\ At(w, "join.lookup")
    /\ \E o \in Outcomes :
        /\ IF o = "ok" /\ ActiveOf(req[w].room, req[w].user) # {} THEN Done(w)
           ELSE Goto(w, IF req[w].row.host = req[w].user THEN "join.insert" ELSE "join.wait")
        /\ Note(o)
    /\ UNCHANGED <<rooms, participants, messages, admission, audit, used>>

JoinWait(w) ==
    /\ At(w, "join.wait")
    /\ \E o \in Outcomes : waiting' = waiting \cup Listed(w, o) /\ Note(o)
    /\ Done(w)
    /\ UNCHANGED <<rooms, participants, messages, invites, tokens, audit, used>>

\* INSERT of a participant, which the foreign key refuses when the room is gone.
Insert(w, e, role, o) ==
    /\ participants' =
        IF Takes(o) /\ req[w].room \in DOMAIN rooms
        THEN Write(participants, e, [room |-> req[w].room, user |-> req[w].user,
                                     role |-> role, left |-> FALSE])
        ELSE participants
    /\ used' = used \cup {e}
    /\ Note(o)

Inserted(w, o) == o = "ok" /\ req[w].room \in DOMAIN rooms

\* Mutant: the error of the INSERT is not looked at.
JoinInsertUnchecked(w) ==
    /\ At(w, "join.insert")
    /\ \E e \in Entries \ used, o \in Outcomes :
        /\ Insert(w, e, "host", o)
        /\ IF req[w].row.status = "scheduled" THEN Goto(w, "join.promote") ELSE Done(w)
    /\ UNCHANGED <<rooms, messages, admission, audit>>

JoinInsert(w) ==
    /\ At(w, "join.insert")
    /\ \E e \in Entries \ used, o \in Outcomes :
        /\ Insert(w, e, "host", o)
        /\ IF Inserted(w, o) /\ req[w].row.status = "scheduled"
           THEN Goto(w, "join.promote") ELSE Done(w)
    /\ UNCHANGED <<rooms, messages, admission, audit>>

\* The first join makes the room active; an error of it is only logged.
JoinPromote(w) ==
    /\ At(w, "join.promote")
    /\ \E o \in Outcomes :
        /\ rooms' = IF Takes(o)
                    THEN Overwrite(req[w].room, [req[w].row EXCEPT !.status = "active"])
                    ELSE rooms
        /\ Note(o)
    /\ Done(w)
    /\ UNCHANGED <<participants, messages, admission, audit, used>>

(* Leave: read an active row of the user, and mark it by its id. *)
LeaveRead(w) ==
    /\ req[w] = Idle
    /\ \E r \in Rooms, u \in Users : \E e \in ActiveOf(r, u) :
        Go(w, [step |-> "leave.mark", room |-> r, user |-> u, entry |-> e])
    /\ NoteBegin("ok")
    /\ UNCHANGED <<rooms, participants, messages, admission, audit, used>>

LeaveMark(w) ==
    /\ At(w, "leave.mark")
    /\ \E o \in Outcomes :
        /\ participants' = IF Takes(o) /\ req[w].entry \in DOMAIN participants
                           THEN [participants EXCEPT ![req[w].entry].left = TRUE]
                           ELSE participants
        /\ Note(o)
    /\ Done(w)
    /\ UNCHANGED <<rooms, messages, admission, audit, used>>

-----------------------------------------------------------------------------
(* SendMessage: the room must exist.  Who has no active row gets one, as a  *)
(* participant, past the waiting room; then the message is inserted.        *)
SendRead(w) ==
    /\ req[w] = Idle
    /\ MayEnter /\ MaySend
    /\ \E r \in Rooms, u \in Users :
        /\ GetByID(r) # {}
        /\ Go(w, [step |-> "send.lookup", room |-> r, user |-> u])
    /\ NoteBegin("ok")
    /\ UNCHANGED <<rooms, participants, messages, admission, audit, used>>

\* The message will be the one of a participant's row.
SendAs(w, e) ==
    Go(w, [step |-> "send.insert", room |-> req[w].room, user |-> req[w].user, entry |-> e])

SendLookup(w) ==
    /\ At(w, "send.lookup")
    /\ \/ /\ \E e \in ActiveOf(req[w].room, req[w].user) : SendAs(w, e)
          /\ Note("ok")
       \/ /\ ActiveOf(req[w].room, req[w].user) = {}
          /\ Goto(w, "send.enter")
          /\ Note("ok")
       \/ /\ Goto(w, "send.enter")
          /\ Note("failed")
    /\ UNCHANGED <<rooms, participants, messages, admission, audit, used>>

\* Mutant: the row gets the role of the audit log's actors.
SendEnterAsUser(w) ==
    /\ At(w, "send.enter")
    /\ \E e \in Entries \ used : Insert(w, e, "user", "ok") /\ SendAs(w, e)
    /\ UNCHANGED <<rooms, messages, admission, audit>>

SendEnter(w) ==
    /\ At(w, "send.enter")
    /\ \E e \in Entries \ used, o \in Outcomes :
        /\ Insert(w, e, "participant", o)
        /\ IF Inserted(w, o) THEN SendAs(w, e) ELSE Done(w)
    /\ UNCHANGED <<rooms, messages, admission, audit>>

\* The foreign keys: the room and the sender's row must still be there.
SendInsert(w) ==
    /\ At(w, "send.insert")
    /\ \E m \in Messages \ used, o \in Outcomes :
        /\ messages' =
            IF Takes(o) /\ req[w].room \in DOMAIN rooms /\ req[w].entry \in DOMAIN participants
            THEN Write(messages, m, [room |-> req[w].room, sender |-> req[w].entry,
                                     edited |-> FALSE, deleted |-> FALSE])
            ELSE messages
        /\ used' = used \cup {m}
        /\ Note(o)
    /\ Done(w)
    /\ UNCHANGED <<rooms, participants, admission, audit>>

(* EditMessage and DeleteMessage: read the message, deleted or not, and the  *)
(* row of its sender, who must be the user; UPDATE by the id of the message. *)
(* (Neither a message nor a row ever changes its owner, so that the two      *)
(* reads are one.)                                                           *)
ChangeRead(w) ==
    /\ req[w] = Idle
    /\ \E m \in Messages, s \in {"edit.write", "erase.write"} :
        \E row \in GetMessageByID(m) : \E sender \in GetParticipantByID(row.sender) :
            Go(w, [step |-> s, message |-> m, user |-> sender.user])
    /\ NoteBegin("ok")
    /\ UNCHANGED <<rooms, participants, messages, admission, audit, used>>

Found(w) == messages[req[w].message]

\* UPDATE of some columns of the message, if it is still there.
Change(w, row) ==
    /\ \E o \in Outcomes :
        /\ messages' = IF Takes(o) /\ req[w].message \in DOMAIN messages
                       THEN Write(messages, req[w].message, row)
                       ELSE messages
        /\ Note(o)
    /\ Done(w)
    /\ UNCHANGED <<rooms, participants, admission, audit, used>>

\* Mutant: the whole row is written as it was read.
EditWriteRow(w) ==
    /\ At(w, "edit.write")
    /\ Change(w, [Found(w) EXCEPT !.edited = TRUE, !.deleted = FALSE])

EditWrite(w) ==
    /\ At(w, "edit.write")
    /\ Change(w, [Found(w) EXCEPT !.edited = TRUE])

EraseWrite(w) ==
    /\ At(w, "erase.write")
    /\ Change(w, [Found(w) EXCEPT !.deleted = TRUE])

-----------------------------------------------------------------------------
(* GetToken: the room must exist; the user need not be in it.  The token is  *)
(* signed without the database, for an hour, and nothing takes it back.      *)
TokenRead(w) ==
    /\ req[w] = Idle
    /\ \E r \in Rooms, u \in Users :
        /\ GetByID(r) # {}
        /\ Go(w, [step |-> "token.sign", room |-> r, user |-> u])
    /\ NoteBegin("ok")
    /\ UNCHANGED <<rooms, participants, messages, admission, audit, used>>

TokenSign(w) ==
    /\ At(w, "token.sign")
    /\ \E o \in Outcomes :
        /\ tokens' = IF Takes(o) THEN tokens \cup {<<req[w].room, req[w].user>>} ELSE tokens
        /\ Note(o)
    /\ Done(w)
    /\ UNCHANGED <<rooms, participants, messages, waiting, invites, audit, used>>

(* The process dies with the requests under way. *)
Crash ==
    /\ \E w \in Workers : req[w] # Idle
    /\ req' = [w \in Workers |-> Idle]
    /\ calm' = FALSE
    /\ UNCHANGED <<rooms, participants, messages, admission, audit, used>>

-----------------------------------------------------------------------------
RoomRequest(w) ==
    \/ UpdateRead(w) \/ DeleteRead(w) \/ JoinRead(w) \/ LeaveRead(w) \/ InviteRead(w)

ChatRequest(w) == SendRead(w) \/ ChangeRead(w)

Arrive(w) == CreateRoom(w) \/ RoomRequest(w) \/ ChatRequest(w) \/ TokenRead(w)

Continue(w) ==
    \/ CreateAudit(w) \/ UpdateWrite(w) \/ DeleteRemove(w) \/ InviteInsert(w)
    \/ JoinLookup(w) \/ JoinWait(w) \/ JoinInsert(w) \/ JoinPromote(w) \/ LeaveMark(w)
    \/ SendLookup(w) \/ SendEnter(w) \/ SendInsert(w) \/ EditWrite(w) \/ EraseWrite(w)
    \/ TokenSign(w)

Next == Crash \/ \E w \in Workers : Arrive(w) \/ Continue(w)

Spec == Init /\ [][Next]_vars

-----------------------------------------------------------------------------
\* Whatever is deleted between the statements of a request, no row is left
\* without its room, and a message has its sender in the room it was sent to.
NoOrphans ==
    /\ \A e \in DOMAIN participants : participants[e].room \in DOMAIN rooms
    /\ \A x \in waiting \cup invites : x.room \in DOMAIN rooms
    /\ audit \subseteq DOMAIN rooms
    /\ \A m \in DOMAIN messages :
        /\ messages[m].sender \in DOMAIN participants
        /\ participants[messages[m].sender].room = messages[m].room

Unsigned(r) == \A w \in Workers : At(w, "token.sign") => req[w].room # r
TokensOf(r) == {x \in tokens : x[1] = r}

\* The deletion of a room is the end of it, whatever stale row is written back
\* and whatever request had found the room: it does not come back, gets no
\* participant, guest, invitation or message any more, and nobody becomes able
\* to enter its call except by a token that was being signed when it went.
DeletedIsOver ==
    [][\A r \in (used \cap Rooms) \ DOMAIN rooms :
        /\ r \notin DOMAIN rooms'
        /\ Of(participants', r) = {} /\ Of(messages', r) = {}
        /\ \A x \in waiting' \cup invites' : x.room # r
        /\ Unsigned(r) => Unsigned(r)' /\ TokensOf(r)' = TokensOf(r)]_vars

HasHostRow(r) ==
    \E e \in DOMAIN participants :
        /\ participants[e].room = r
        /\ participants[e].role = "host" /\ participants[e].user = rooms[r].host

\* A room is active only after its host has entered it, whatever stale row an
\* Update writes back, and however an INSERT of a Join fails.
ActiveHasHost == \A r \in DOMAIN rooms : rooms[r].status = "active" => HasHostRow(r)

\* "Promote the room to active on the first join": as long as requests do not
\* overlap and nothing fails, a room that its host has entered is active, and
\* stays so whatever the host changes.
PromotedApart ==
    calm /\ (\A w \in Workers : req[w] = Idle) =>
        \A r \in DOMAIN rooms : HasHostRow(r) => rooms[r].status = "active"

\* As long as requests do not overlap and nothing fails, a user has at most one
\* active row in a room, entered by Join or by the first message, so that one
\* Leave takes them out of it.
OneActiveRow == calm => \A r \in Rooms, u \in Users : \A d, e \in ActiveOf(r, u) : d = e

\* A message is edited and deleted by its sender only, does not come back once
\* deleted, also when an edit that found it is written later, and disappears
\* only with its room.
MessagesKept ==
    [][\A m \in DOMAIN messages :
        \/ m \notin DOMAIN messages' /\ messages[m].room \notin DOMAIN rooms'
        \/ m \in DOMAIN messages' /\ messages'[m] = messages[m]
        \/ /\ m \in DOMAIN messages'
           /\ messages[m].deleted => messages'[m].deleted
           /\ \E w \in Workers :
               /\ req[w].step \in {"edit.write", "erase.write"}
               /\ req[w].message = m
               /\ req[w].user = participants[messages[m].sender].user]_vars
=============================================================================
