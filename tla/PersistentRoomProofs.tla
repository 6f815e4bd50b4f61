------------------------ MODULE PersistentRoomProofs ------------------------
(***************************************************************************)
(* Theorems about PersistentRoom, for any rooms, users, titles, ids and    *)
(* goroutines, whatever statement fails and whenever the process crashes.  *)
(***************************************************************************)
EXTENDS PersistentRoom, TLAPS

-----------------------------------------------------------------------------
(* What a request under way holds.  The row it refers to may have gone with *)
(* its room; while it is there, it is still the one that was read.          *)

\* The requests that have read a room.
RowSteps == {"update.write", "join.lookup", "join.wait", "join.insert", "join.promote"}

\* The host of a room never changes, so the stale row of a room still has it.
HostIsRead(w) ==
    /\ req[w].room \in used
    /\ req[w].room \in DOMAIN rooms => req[w].row.host = rooms[req[w].room].host

\* Whoever is about to write "active" knows that the host has entered.
ActivityIsRead(w) ==
    (At(w, "update.write") /\ req[w].row.status = "active") \/ At(w, "join.promote") =>
        (req[w].room \in DOMAIN rooms => HasHostRow(req[w].room))

SenderIsRead(w) ==
    /\ req[w].entry \in used
    /\ req[w].entry \in DOMAIN participants => participants[req[w].entry].room = req[w].room

AuthorIsRead(w) ==
    /\ req[w].message \in used
    /\ req[w].message \in DOMAIN messages =>
        participants[messages[req[w].message].sender].user = req[w].user

Refers(w) ==
    /\ req[w].step \in RowSteps => HostIsRead(w)
    /\ req[w].step \in {"join.insert", "join.promote"} => req[w].row.host = req[w].user
    /\ ActivityIsRead(w)
    /\ req[w].step \in {"leave.mark", "send.insert"} => SenderIsRead(w)
    /\ req[w].step \in {"edit.write", "erase.write"} => AuthorIsRead(w)

RequestsRefer == \A w \in Workers : Refers(w)

\* The inductive invariant.
IInv == TypeOK /\ NoOrphans /\ ActiveHasHost /\ RequestsRefer

-----------------------------------------------------------------------------
(* Types. *)

\* The requests by the step they are at.
LEMMA RequestAt ==
    ASSUME TypeOK, NEW w \in Workers
    PROVE  /\ req[w] \in Request \cup {Idle}
           /\ req[w].step \in {"create.audit", "delete.remove", "invite.insert",
                               "send.lookup", "send.enter", "token.sign"} =>
                /\ req[w] = [step |-> req[w].step, room |-> req[w].room, user |-> req[w].user]
                /\ req[w].room \in Rooms /\ req[w].user \in Users
           /\ req[w].step \in RowSteps =>
                /\ req[w] = [step |-> req[w].step, room |-> req[w].room, user |-> req[w].user,
                             row |-> req[w].row]
                /\ req[w].room \in Rooms /\ req[w].user \in Users /\ req[w].row \in Room
           /\ req[w].step \in {"leave.mark", "send.insert"} =>
                req[w].room \in Rooms /\ req[w].user \in Users /\ req[w].entry \in Entries
           /\ req[w].step \in {"edit.write", "erase.write"} =>
                req[w].message \in Messages /\ req[w].user \in Users
<1>1. req[w] = Idle \/ req[w] \in Request
    BY DEF TypeOK
<1> QED
    BY <1>1 DEF Request, Idle, RowSteps

\* What SELECT finds.
LEMMA RoomFound ==
    ASSUME TypeOK, NEW r \in Rooms, NEW row \in GetByID(r)
    PROVE  r \in DOMAIN rooms /\ row = rooms[r] /\ row \in Room /\ r \in used
BY DEF GetByID, Lookup, TypeOK

LEMMA MessageFound ==
    ASSUME TypeOK, NEW m \in Messages, NEW row \in GetMessageByID(m),
           NEW sender \in GetParticipantByID(row.sender)
    PROVE  /\ m \in DOMAIN messages /\ row = messages[m] /\ m \in used
           /\ sender = participants[messages[m].sender] /\ sender \in Participant
BY DEF GetMessageByID, GetParticipantByID, Lookup, TypeOK

LEMMA NoteType ==
    ASSUME calm \in BOOLEAN, NEW o, Note(o) \/ NoteBegin(o)
    PROVE  calm' \in BOOLEAN
BY Zenon DEF Note, NoteBegin

\* How a request may go on.
LEMMA NextRequest ==
    ASSUME TypeOK, NEW w \in Workers, NEW r \in Request \cup {Idle}, Go(w, r)
    PROVE  /\ req' \in [Workers -> Request \cup {Idle}]
           /\ req'[w] = r
           /\ \A v \in Workers : v # w => req'[v] = req[v]
BY DEF TypeOK, Go

LEMMA NextStep ==
    ASSUME TypeOK, NEW w \in Workers, NEW s, Goto(w, s),
           \/ req[w].step = "send.lookup" /\ s = "send.enter"
           \/ req[w].step = "join.lookup" /\ s \in {"join.insert", "join.wait"}
           \/ req[w].step = "join.insert" /\ s = "join.promote"
    PROVE  /\ req' \in [Workers -> Request \cup {Idle}]
           /\ req'[w].step = s
           /\ req'[w].room = req[w].room /\ req'[w].user = req[w].user
           /\ s # "send.enter" => req'[w].row = req[w].row
           /\ \A v \in Workers : v # w => req'[v] = req[v]
<1>1. req'[w] = [req[w] EXCEPT !.step = s] /\ \A v \in Workers : v # w => req'[v] = req[v]
    BY DEF TypeOK, Goto
<1>2. CASE req[w].step = "send.lookup" /\ s = "send.enter"
    <2>1. req'[w] = [step |-> s, room |-> req[w].room, user |-> req[w].user]
        BY <1>1, <1>2, RequestAt
    <2> QED
        BY <1>1, <1>2, <2>1, RequestAt DEF TypeOK, Goto, Request
<1>3. CASE s \in {"join.insert", "join.wait", "join.promote"}
    <2>1. /\ req'[w] = [step |-> s, room |-> req[w].room, user |-> req[w].user,
                        row |-> req[w].row]
          /\ req[w].room \in Rooms /\ req[w].user \in Users /\ req[w].row \in Room
        BY <1>1, <1>3, RequestAt DEF RowSteps
    <2> QED
        BY <1>1, <1>3, <2>1 DEF TypeOK, Goto, Request
<1> QED
    BY <1>2, <1>3

-----------------------------------------------------------------------------
(* The tables.  Ids are never given twice, and what a row refers to never    *)
(* changes; rows only go with their room.                                    *)

SameRoom(r) == r \in DOMAIN rooms /\ rooms'[r].host = rooms[r].host

SameEntry(e) ==
    /\ e \in DOMAIN participants
    /\ participants'[e].room = participants[e].room
    /\ participants'[e].user = participants[e].user
    /\ participants'[e].role = participants[e].role

SameMessage(m) ==
    /\ m \in DOMAIN messages
    /\ messages'[m].room = messages[m].room
    /\ messages'[m].sender = messages[m].sender

Preserved ==
    /\ TypeOK' /\ NoOrphans'
    /\ used \subseteq used'
    /\ \A r \in DOMAIN rooms' : r \in used => SameRoom(r)
    /\ \A e \in DOMAIN participants' : e \in used => SameEntry(e)
    /\ \A e \in DOMAIN participants :
        participants[e].room \in DOMAIN rooms' => e \in DOMAIN participants'
    /\ \A m \in DOMAIN messages' : m \in used => SameMessage(m)

\* The variables that no foreign key is about.
RestTyped == req' \in [Workers -> Request \cup {Idle}] /\ calm' \in BOOLEAN

LEMMA SameTables ==
    ASSUME TypeOK, NoOrphans, RestTyped,
           UNCHANGED <<rooms, participants, messages, admission, audit, used>>
    PROVE  Preserved
<1>1. UNCHANGED <<waiting, invites, tokens>>
    BY DEF admission
<1>2. TypeOK'
    BY <1>1 DEF TypeOK, RestTyped
<1>3. NoOrphans'
    BY <1>1 DEF NoOrphans
<1> QED
    BY <1>2, <1>3 DEF Preserved, SameRoom, SameEntry, SameMessage, TypeOK

\* A new room, or new columns of an old one.
LEMMA RoomWritten ==
    ASSUME TypeOK, NoOrphans, RestTyped,
           NEW r \in Rooms, NEW row \in Room, rooms' = Write(rooms, r, row),
           r \in used => r \in DOMAIN rooms /\ row.host = rooms[r].host,
           used' = used \cup {r},
           UNCHANGED <<participants, messages, admission, audit>>
    PROVE  Preserved
<1>1. UNCHANGED <<waiting, invites, tokens>>
    BY DEF admission
<1>2. rooms \in [DOMAIN rooms -> Room] /\ DOMAIN rooms \subseteq Rooms /\ DOMAIN rooms \subseteq used
    BY DEF TypeOK
<1>3. /\ DOMAIN rooms' = DOMAIN rooms \cup {r}
      /\ rooms' \in [DOMAIN rooms' -> Room]
      /\ rooms'[r] = row
      /\ \A j \in DOMAIN rooms : j # r => rooms'[j] = rooms[j]
    BY <1>2 DEF Write
<1>4. TypeOK'
    BY <1>1, <1>2, <1>3 DEF TypeOK, RestTyped
<1>5. NoOrphans'
    BY <1>1, <1>3 DEF NoOrphans
<1>6. \A k \in DOMAIN rooms' : k \in used => SameRoom(k)
    BY <1>3 DEF SameRoom
<1> QED
    BY <1>4, <1>5, <1>6 DEF Preserved, SameEntry, SameMessage, TypeOK

\* A deleted room takes with it everything that refers to it.
LEMMA RoomDeleted ==
    ASSUME TypeOK, NoOrphans, RestTyped, NEW r, Cascade(r), r \notin audit,
           UNCHANGED <<audit, used>>
    PROVE  Preserved
<1>1. /\ rooms \in [DOMAIN rooms -> Room]
      /\ participants \in [DOMAIN participants -> Participant]
      /\ messages \in [DOMAIN messages -> Message]
    BY DEF TypeOK
<1>2. /\ DOMAIN rooms' = DOMAIN rooms \ {r} /\ rooms' \in [DOMAIN rooms' -> Room]
      /\ \A j \in DOMAIN rooms' : rooms'[j] = rooms[j]
    BY <1>1 DEF Cascade, Without
<1>3. /\ DOMAIN participants' = {e \in DOMAIN participants : participants[e].room # r}
      /\ participants' \in [DOMAIN participants' -> Participant]
      /\ \A e \in DOMAIN participants' : participants'[e] = participants[e]
    <2>1. DOMAIN participants \ Of(participants, r)
            = {e \in DOMAIN participants : participants[e].room # r}
        BY DEF Of
    <2> QED
        BY <1>1, <2>1 DEF Cascade, Without
<1>4. /\ DOMAIN messages' = {m \in DOMAIN messages : messages[m].room # r}
      /\ messages' \in [DOMAIN messages' -> Message]
      /\ \A m \in DOMAIN messages' : messages'[m] = messages[m]
    <2>1. DOMAIN messages \ Of(messages, r) = {m \in DOMAIN messages : messages[m].room # r}
        BY DEF Of
    <2> QED
        BY <1>1, <2>1 DEF Cascade, Without
<1>5. waiting' \subseteq waiting /\ invites' \subseteq invites
      /\ tokens' = tokens
      /\ \A x \in waiting' \cup invites' : x.room # r
    BY DEF Cascade
<1>6. TypeOK'
    BY <1>2, <1>3, <1>4, <1>5 DEF TypeOK, RestTyped
<1>7. NoOrphans'
    <2>1. \A e \in DOMAIN participants' : participants'[e].room \in DOMAIN rooms'
        BY <1>2, <1>3 DEF NoOrphans
    <2>2. \A x \in waiting' \cup invites' : x.room \in DOMAIN rooms'
        BY <1>2, <1>5 DEF NoOrphans
    <2>3. audit' \subseteq DOMAIN rooms'
        BY <1>2 DEF NoOrphans
    <2>4. ASSUME NEW m \in DOMAIN messages'
          PROVE  /\ messages'[m].sender \in DOMAIN participants'
                 /\ participants'[messages'[m].sender].room = messages'[m].room
        <3>1. m \in DOMAIN messages /\ messages[m].room # r /\ messages'[m] = messages[m]
            BY <1>4
        <3>2. /\ messages[m].sender \in DOMAIN participants
              /\ participants[messages[m].sender].room = messages[m].room
            BY <3>1 DEF NoOrphans
        <3> QED
            BY <1>3, <3>1, <3>2
    <2> QED
        BY <2>1, <2>2, <2>3, <2>4 DEF NoOrphans
<1> QED
    BY <1>2, <1>3, <1>4, <1>6, <1>7 DEF Preserved, SameRoom, SameEntry, SameMessage

\* New invitations, guests that wait, tokens, and entries of the audit log.
LEMMA RoomReferred ==
    ASSUME TypeOK, NoOrphans, RestTyped, NEW new \in SUBSET {x \in Pair : x.room \in DOMAIN rooms},
           waiting' \subseteq waiting \cup new, invites' \subseteq invites \cup new,
           audit' \subseteq audit \cup DOMAIN rooms, tokens' \subseteq Rooms \X Users,
           UNCHANGED <<rooms, participants, messages, used>>
    PROVE  Preserved
<1>1. TypeOK'
    BY DEF TypeOK, RestTyped
<1>2. NoOrphans'
    BY DEF NoOrphans
<1> QED
    BY <1>1, <1>2 DEF Preserved, SameRoom, SameEntry, SameMessage, TypeOK

\* A new participant of a room, or one who has left it.
LEMMA EntryWritten ==
    ASSUME TypeOK, NoOrphans, RestTyped,
           NEW e \in Entries, NEW row \in Participant, row.room \in DOMAIN rooms,
           participants' = Write(participants, e, row),
           e \in used => /\ e \in DOMAIN participants
                         /\ row.room = participants[e].room /\ row.user = participants[e].user
                         /\ row.role = participants[e].role,
           used' = used \cup {e},
           UNCHANGED <<rooms, messages, admission, audit>>
    PROVE  Preserved
<1>1. UNCHANGED <<waiting, invites, tokens>>
    BY DEF admission
<1>2. /\ participants \in [DOMAIN participants -> Participant]
      /\ DOMAIN participants \subseteq Entries /\ DOMAIN participants \subseteq used
    BY DEF TypeOK
<1>3. /\ DOMAIN participants' = DOMAIN participants \cup {e}
      /\ participants' \in [DOMAIN participants' -> Participant]
      /\ participants'[e] = row
      /\ \A j \in DOMAIN participants : j # e => participants'[j] = participants[j]
    BY <1>2 DEF Write
<1>4. TypeOK'
    BY <1>1, <1>2, <1>3 DEF TypeOK, RestTyped
<1>5. \A k \in DOMAIN participants' : k \in used => SameEntry(k)
    BY <1>3 DEF SameEntry
<1>6. NoOrphans'
    BY <1>1, <1>2, <1>3, <1>5 DEF NoOrphans, SameEntry
<1> QED
    BY <1>3, <1>4, <1>5, <1>6 DEF Preserved, SameRoom, SameMessage, TypeOK

\* A new message, or new columns of an old one.
LEMMA MessageWritten ==
    ASSUME TypeOK, NoOrphans, RestTyped,
           NEW m \in Messages, NEW row \in Message,
           row.sender \in DOMAIN participants, participants[row.sender].room = row.room,
           messages' = Write(messages, m, row),
           m \in used => /\ m \in DOMAIN messages
                         /\ row.room = messages[m].room /\ row.sender = messages[m].sender,
           used' = used \cup {m},
           UNCHANGED <<rooms, participants, admission, audit>>
    PROVE  Preserved
<1>1. UNCHANGED <<waiting, invites, tokens>>
    BY DEF admission
<1>2. /\ messages \in [DOMAIN messages -> Message]
      /\ DOMAIN messages \subseteq Messages /\ DOMAIN messages \subseteq used
    BY DEF TypeOK
<1>3. /\ DOMAIN messages' = DOMAIN messages \cup {m}
      /\ messages' \in [DOMAIN messages' -> Message]
      /\ messages'[m] = row
      /\ \A j \in DOMAIN messages : j # m => messages'[j] = messages[j]
    BY <1>2 DEF Write
<1>4. TypeOK'
    BY <1>1, <1>2, <1>3 DEF TypeOK, RestTyped
<1>5. NoOrphans'
    BY <1>1, <1>3 DEF NoOrphans
<1>6. \A k \in DOMAIN messages' : k \in used => SameMessage(k)
    BY <1>3 DEF SameMessage
<1> QED
    BY <1>4, <1>5, <1>6 DEF Preserved, SameRoom, SameEntry, TypeOK

-----------------------------------------------------------------------------
(* What a step that preserves the tables leaves true.                        *)

LEMMA HostStays ==
    ASSUME TypeOK, NoOrphans, Preserved, NEW r \in DOMAIN rooms', r \in used, HasHostRow(r)
    PROVE  HasHostRow(r)'
<1>1. PICK e \in DOMAIN participants :
        /\ participants[e].room = r
        /\ participants[e].role = "host" /\ participants[e].user = rooms[r].host
    BY DEF HasHostRow
<1>2. e \in DOMAIN participants' /\ e \in used
    BY <1>1 DEF Preserved, TypeOK
<1>3. SameEntry(e) /\ SameRoom(r)
    BY <1>2 DEF Preserved
<1> QED
    BY <1>1, <1>2, <1>3 DEF HasHostRow, SameEntry, SameRoom

\* The requests that do not take the step.
LEMMA ReferStays ==
    ASSUME TypeOK, NoOrphans, Preserved, NEW w \in Workers, Refers(w), req'[w] = req[w]
    PROVE  Refers(w)'
<1>1. req[w].step \in RowSteps => HostIsRead(w)'
    BY DEF Refers, HostIsRead, Preserved, SameRoom
<1>2. ActivityIsRead(w)'
    <2> SUFFICES ASSUME \/ At(w, "update.write") /\ req[w].row.status = "active"
                        \/ At(w, "join.promote"),
                        req[w].room \in DOMAIN rooms'
                 PROVE  HasHostRow(req[w].room)'
        BY DEF ActivityIsRead, At
    <2>1. req[w].room \in used
        BY DEF Refers, HostIsRead, At, RowSteps
    <2>2. req[w].room \in DOMAIN rooms
        BY <2>1 DEF Preserved, SameRoom
    <2>3. HasHostRow(req[w].room)
        BY <2>2 DEF Refers, ActivityIsRead
    <2>4. \E e \in DOMAIN participants' :
            /\ participants'[e].room = req[w].room
            /\ participants'[e].role = "host" /\ participants'[e].user = rooms'[req[w].room].host
        BY <2>1, <2>3, HostStays DEF HasHostRow
    <2> QED
        BY <2>4 DEF HasHostRow
<1>3. req[w].step \in {"leave.mark", "send.insert"} => SenderIsRead(w)'
    BY DEF Refers, SenderIsRead, Preserved, SameEntry
<1>4. req[w].step \in {"edit.write", "erase.write"} => AuthorIsRead(w)'
    <2> SUFFICES ASSUME AuthorIsRead(w), NEW m, m = req[w].message, m \in DOMAIN messages'
                 PROVE  participants'[messages'[m].sender].user = req[w].user
        BY DEF Refers, AuthorIsRead, Preserved
    <2>1. SameMessage(m)
        BY DEF AuthorIsRead, Preserved
    <2>2. messages[m].sender \in used /\ messages'[m].sender \in DOMAIN participants'
        BY <2>1 DEF SameMessage, NoOrphans, Preserved, TypeOK
    <2>3. SameEntry(messages[m].sender)
        BY <2>1, <2>2 DEF Preserved, SameMessage
    <2> QED
        BY <2>1, <2>3 DEF AuthorIsRead, SameMessage, SameEntry
<1> QED
    BY <1>1, <1>2, <1>3, <1>4 DEF Refers

\* The obligations of a step: the tables, the request that takes it, and the
\* rooms that are active after it.
LEMMA StepKeeps ==
    ASSUME IInv, Preserved, NEW w \in Workers,
           \A v \in Workers : v # w => req'[v] = req[v],
           Refers(w)',
           \A r \in DOMAIN rooms' :
                rooms'[r].status = "active" => r \in DOMAIN rooms /\ HasHostRow(r)
    PROVE  IInv'
<1>1. RequestsRefer'
    <2> SUFFICES ASSUME NEW v \in Workers, v # w PROVE Refers(v)'
        BY DEF RequestsRefer
    <2> QED
        BY ReferStays DEF IInv, RequestsRefer
<1>2. ActiveHasHost'
    <2> SUFFICES ASSUME NEW r \in DOMAIN rooms', rooms'[r].status = "active"
                 PROVE  HasHostRow(r)'
        BY DEF ActiveHasHost
    <2>1. r \in used /\ HasHostRow(r)
        BY DEF IInv, TypeOK
    <2> QED
        BY <2>1, HostStays DEF IInv
<1> QED
    BY <1>1, <1>2 DEF IInv, Preserved

\* A request that begins or goes on without writing.
LEMMA ReadKeeps ==
    ASSUME IInv, NEW w \in Workers, RestTyped,
           UNCHANGED <<rooms, participants, messages, admission, audit, used>>,
           \A v \in Workers : v # w => req'[v] = req[v],
           Refers(w)'
    PROVE  Preserved /\ IInv'
<1>1. Preserved
    BY SameTables DEF IInv
<1>2. \A r \in DOMAIN rooms' :
        rooms'[r].status = "active" => r \in DOMAIN rooms /\ HasHostRow(r)
    BY DEF IInv, ActiveHasHost
<1> QED
    BY <1>1, <1>2, StepKeeps

\* A request that ends.
LEMMA EndKeeps ==
    ASSUME IInv, NEW w \in Workers, Done(w)
    PROVE  /\ req' \in [Workers -> Request \cup {Idle}]
           /\ \A v \in Workers : v # w => req'[v] = req[v]
           /\ Refers(w)'
<1>1. /\ req' \in [Workers -> Request \cup {Idle}]
      /\ req'[w] = Idle
      /\ \A v \in Workers : v # w => req'[v] = req[v]
    BY NextRequest DEF Done, IInv
<1>2. Refers(w)'
    BY <1>1 DEF Refers, Idle, RowSteps, ActivityIsRead, At
<1> QED
    BY <1>1, <1>2

-----------------------------------------------------------------------------
(* Each operation.                                                           *)

LEMMA CreateKeeps ==
    ASSUME IInv, NEW w \in Workers, CreateRoom(w) \/ CreateAudit(w)
    PROVE  Preserved /\ IInv'
<1>1. CASE CreateRoom(w)
    <2>1. PICK r \in Rooms \ used, u \in Users, t \in Titles, o \in Outcomes \ {"failed"} :
            /\ rooms' = Write(rooms, r, [host |-> u, title |-> t, status |-> "scheduled"])
            /\ used' = used \cup {r}
            /\ IF o = "ok" THEN Go(w, [step |-> "create.audit", room |-> r, user |-> u])
                           ELSE UNCHANGED req
            /\ NoteBegin(o)
        BY <1>1 DEF CreateRoom
    <2>2. /\ req' \in [Workers -> Request \cup {Idle}]
          /\ \A v \in Workers : v # w => req'[v] = req[v]
          /\ req'[w].step \in {"create.audit", "idle"}
        <3>1. CASE o = "ok"
            <4>1. [step |-> "create.audit", room |-> r, user |-> u] \in Request
                BY DEF Request
            <4> QED
                BY <2>1, <3>1, <4>1, NextRequest DEF IInv
        <3>2. CASE o # "ok"
            BY <1>1, <2>1, <3>2 DEF IInv, TypeOK, CreateRoom, Idle
        <3> QED
            BY <3>1, <3>2
    <2>3. Refers(w)'
        BY <2>2 DEF Refers, RowSteps, ActivityIsRead, At
    <2>4. calm' \in BOOLEAN
        BY <2>1, NoteType DEF IInv, TypeOK
    <2>5. UNCHANGED <<participants, messages, admission, audit>>
        BY <1>1 DEF CreateRoom
    <2> DEFINE row == [host |-> u, title |-> t, status |-> "scheduled"]
    <2>6. row \in Room
        BY DEF Room
    <2>7. Preserved
        BY <2>1, <2>2, <2>4, <2>5, <2>6, RoomWritten DEF IInv, RestTyped
    <2>8. \A k \in DOMAIN rooms' :
            rooms'[k].status = "active" => k \in DOMAIN rooms /\ HasHostRow(k)
        BY <2>1 DEF IInv, ActiveHasHost, Write
    <2> QED
        BY <2>2, <2>3, <2>7, <2>8, StepKeeps
<1>2. CASE CreateAudit(w)
    <2>1. /\ req' \in [Workers -> Request \cup {Idle}]
          /\ \A v \in Workers : v # w => req'[v] = req[v]
          /\ Refers(w)'
        BY <1>2, EndKeeps DEF CreateAudit
    <2>2. calm' \in BOOLEAN
        BY <1>2, NoteType DEF CreateAudit, IInv, TypeOK
    <2>3. UNCHANGED <<rooms, participants, messages, waiting, invites, used>>
          /\ audit' \subseteq audit \cup DOMAIN rooms /\ tokens' \subseteq Rooms \X Users
        BY <1>2 DEF CreateAudit, CreateLog, admission, IInv, TypeOK
    <2>4. Preserved
        BY <2>1, <2>2, <2>3, RoomReferred DEF IInv, RestTyped
    <2> QED
        BY <2>1, <2>3, <2>4, StepKeeps DEF IInv, ActiveHasHost
<1> QED
    BY <1>1, <1>2

\* The columns of a room are written, in a room that is still there.
LEMMA OverwriteKeeps ==
    ASSUME IInv, NEW w \in Workers, NEW row \in Room,
           req[w].step \in RowSteps, row.host = req[w].row.host,
           row.status = "active" /\ req[w].room \in DOMAIN rooms => HasHostRow(req[w].room),
           rooms' = Overwrite(req[w].room, row) \/ rooms' = rooms,
           Done(w), calm' \in BOOLEAN,
           UNCHANGED <<participants, messages, admission, audit, used>>
    PROVE  Preserved /\ IInv'
<1>1. /\ req' \in [Workers -> Request \cup {Idle}]
      /\ \A v \in Workers : v # w => req'[v] = req[v]
      /\ Refers(w)'
    BY EndKeeps
<1>2. CASE rooms' = rooms
    BY <1>1, <1>2, ReadKeeps DEF RestTyped
<1>3. CASE rooms' = Overwrite(req[w].room, row) /\ req[w].room \in DOMAIN rooms
    <2>1. rooms' = Write(rooms, req[w].room, row)
        BY <1>3 DEF Overwrite
    <2>2. /\ req[w].room \in Rooms /\ req[w].room \in used
          /\ row.host = rooms[req[w].room].host
        BY <1>3 DEF IInv, TypeOK, RequestsRefer, Refers, HostIsRead
    <2>3. used' = used \cup {req[w].room}
        BY <2>2
    <2>4. Preserved
        BY <1>1, <1>3, <2>1, <2>2, <2>3, RoomWritten DEF IInv, RestTyped
    <2>5. \A k \in DOMAIN rooms' :
            rooms'[k].status = "active" => k \in DOMAIN rooms /\ HasHostRow(k)
        BY <1>3, <2>1 DEF IInv, ActiveHasHost, Write
    <2> QED
        BY <1>1, <2>4, <2>5, StepKeeps
<1> QED
    BY <1>2, <1>3 DEF Overwrite

LEMMA UpdateKeeps ==
    ASSUME IInv, NEW w \in Workers, UpdateRead(w) \/ UpdateWrite(w)
    PROVE  Preserved /\ IInv'
<1>1. CASE UpdateRead(w)
    <2>1. PICK r \in Rooms, t \in Titles :
            /\ r \in DOMAIN rooms
            /\ Go(w, [step |-> "update.write", room |-> r, user |-> rooms[r].host,
                      row |-> [rooms[r] EXCEPT !.title = t]])
        BY <1>1, RoomFound DEF UpdateRead, IInv
    <2> DEFINE row == [rooms[r] EXCEPT !.title = t]
               q == [step |-> "update.write", room |-> r, user |-> rooms[r].host, row |-> row]
    <2>2. r \in used /\ rooms[r] \in Room /\ rooms[r].host \in Users
        BY <2>1 DEF IInv, TypeOK, Room
    <2>3. row \in Room /\ row.host = rooms[r].host /\ row.status = rooms[r].status
        BY <2>2 DEF Room
    <2> HIDE DEF row
    <2>4. q \in Request
        BY <2>2, <2>3 DEF Request
    <2>5. /\ req' \in [Workers -> Request \cup {Idle}] /\ req'[w] = q
          /\ \A v \in Workers : v # w => req'[v] = req[v]
        BY <2>1, <2>4, NextRequest DEF IInv, row
    <2>6. calm' \in BOOLEAN /\ UNCHANGED <<rooms, participants, messages, admission, audit, used>>
        BY <1>1, NoteType DEF UpdateRead, IInv, TypeOK
    <2>7. rooms[r].status = "active" => HasHostRow(r)'
        BY <2>1, <2>6 DEF IInv, ActiveHasHost, HasHostRow
    <2>8. Refers(w)'
        <3>1. /\ req'[w].step = "update.write" /\ req'[w].room = r
              /\ req'[w].row.host = rooms[r].host /\ req'[w].row.status = rooms[r].status
            BY <2>3, <2>5
        <3>2. HostIsRead(w)'
            BY <2>2, <2>6, <3>1 DEF HostIsRead
        <3>3. ActivityIsRead(w)'
            BY <2>7, <3>1 DEF ActivityIsRead, At, HasHostRow
        <3> QED
            BY <3>1, <3>2, <3>3 DEF Refers, RowSteps
    <2> QED
        BY <2>5, <2>6, <2>8, ReadKeeps DEF RestTyped
<1>2. CASE UpdateWrite(w)
    <2>1. req[w].row \in Room /\ req[w].step \in RowSteps
        BY <1>2, RequestAt DEF UpdateWrite, At, RowSteps, IInv
    <2>2. req[w].row.status = "active" /\ req[w].room \in DOMAIN rooms => HasHostRow(req[w].room)
        BY <1>2 DEF UpdateWrite, IInv, RequestsRefer, Refers, ActivityIsRead
    <2>3. calm' \in BOOLEAN
        BY <1>2, NoteType DEF UpdateWrite, IInv, TypeOK
    <2> QED
        BY <1>2, <2>1, <2>2, <2>3, OverwriteKeeps DEF UpdateWrite
<1> QED
    BY <1>1, <1>2

\* A request begins that holds neither a row of a room, nor one of a
\* participant, nor a message.
LEMMA BeginKeeps ==
    ASSUME IInv, NEW w \in Workers, NEW q \in Request, Go(w, q), NoteBegin("ok"),
           q.step \in {"delete.remove", "invite.insert", "send.lookup", "token.sign"},
           UNCHANGED <<rooms, participants, messages, admission, audit, used>>
    PROVE  Preserved /\ IInv'
<1>1. /\ req' \in [Workers -> Request \cup {Idle}] /\ req'[w] = q
      /\ \A v \in Workers : v # w => req'[v] = req[v]
    BY NextRequest DEF IInv
<1>2. Refers(w)'
    BY <1>1 DEF Refers, RowSteps, ActivityIsRead, At
<1>3. calm' \in BOOLEAN
    BY NoteType DEF IInv, TypeOK
<1> QED
    BY <1>1, <1>2, <1>3, ReadKeeps DEF RestTyped

LEMMA DeleteKeeps ==
    ASSUME IInv, NEW w \in Workers, DeleteRead(w) \/ DeleteRemove(w)
    PROVE  Preserved /\ IInv'
<1>1. CASE DeleteRead(w)
    <2>1. PICK r \in Rooms, u \in Users :
            Go(w, [step |-> "delete.remove", room |-> r, user |-> u])
        BY <1>1, RoomFound DEF DeleteRead, IInv, Room
    <2>2. [step |-> "delete.remove", room |-> r, user |-> u] \in Request
        BY DEF Request
    <2> QED
        BY <1>1, <2>1, <2>2, BeginKeeps DEF DeleteRead
<1>2. CASE DeleteRemove(w)
    <2>1. /\ req' \in [Workers -> Request \cup {Idle}]
          /\ \A v \in Workers : v # w => req'[v] = req[v]
          /\ Refers(w)'
        BY <1>2, EndKeeps DEF DeleteRemove
    <2>2. calm' \in BOOLEAN
        BY <1>2, NoteType DEF DeleteRemove, IInv, TypeOK
    <2>3. CASE req[w].room \notin audit /\ Cascade(req[w].room)
        <3>1. Preserved
            BY <1>2, <2>1, <2>2, <2>3, RoomDeleted DEF IInv, RestTyped, DeleteRemove
        <3>2. \A k \in DOMAIN rooms' :
                rooms'[k].status = "active" => k \in DOMAIN rooms /\ HasHostRow(k)
            BY <2>3 DEF IInv, ActiveHasHost, Cascade, Without
        <3> QED
            BY <2>1, <3>1, <3>2, StepKeeps
    <2>4. CASE UNCHANGED <<rooms, participants, messages, admission>>
        BY <1>2, <2>1, <2>2, <2>4, ReadKeeps DEF RestTyped, DeleteRemove
    <2> QED
        BY <1>2, <2>3, <2>4 DEF DeleteRemove
<1> QED
    BY <1>1, <1>2

\* A row that refers to a room which is still there.
LEMMA ListKeeps ==
    ASSUME IInv, NEW w \in Workers, NEW o,
           req[w].step \in {"invite.insert", "join.wait"},
           waiting' \in {waiting, waiting \cup Listed(w, o)},
           invites' \in {invites, invites \cup Listed(w, o)},
           Note(o), Done(w),
           UNCHANGED <<rooms, participants, messages, tokens, audit, used>>
    PROVE  Preserved /\ IInv'
<1>1. /\ req' \in [Workers -> Request \cup {Idle}]
      /\ \A v \in Workers : v # w => req'[v] = req[v]
      /\ Refers(w)'
    BY EndKeeps
<1>2. calm' \in BOOLEAN
    BY NoteType DEF IInv, TypeOK
<1>3. req[w].room \in Rooms /\ req[w].user \in Users
    BY RequestAt DEF IInv, RowSteps
<1>4. Listed(w, o) \in SUBSET {x \in Pair : x.room \in DOMAIN rooms}
    BY <1>3 DEF Listed, Pair
<1>5. Preserved
    BY <1>1, <1>2, <1>4, RoomReferred DEF IInv, TypeOK, RestTyped
<1> QED
    BY <1>1, <1>5, StepKeeps DEF IInv, ActiveHasHost

LEMMA InviteKeeps ==
    ASSUME IInv, NEW w \in Workers, InviteRead(w) \/ InviteInsert(w)
    PROVE  Preserved /\ IInv'
<1>1. CASE InviteRead(w)
    <2>1. PICK r \in Rooms, u \in Users :
            Go(w, [step |-> "invite.insert", room |-> r, user |-> u])
        BY <1>1, RoomFound DEF InviteRead, IInv, Room
    <2>2. [step |-> "invite.insert", room |-> r, user |-> u] \in Request
        BY DEF Request
    <2> QED
        BY <1>1, <2>1, <2>2, BeginKeeps DEF InviteRead
<1>2. CASE InviteInsert(w)
    BY <1>2, ListKeeps DEF InviteInsert, At
<1> QED
    BY <1>1, <1>2

-----------------------------------------------------------------------------
(* Join and Leave.                                                           *)

\* INSERT of a participant, by a request that then ends or goes on.
LEMMA InsertPreserves ==
    ASSUME IInv, NEW w \in Workers, NEW e \in Entries \ used, NEW role \in {"host", "participant"},
           NEW o, Insert(w, e, role, o), req[w].user \in Users, req[w].room \in Rooms,
           req' \in [Workers -> Request \cup {Idle}],
           UNCHANGED <<rooms, messages, admission, audit>>
    PROVE  /\ Preserved
           /\ e \in used'
           /\ e \in DOMAIN participants' =>
                /\ participants'[e].room = req[w].room /\ participants'[e].user = req[w].user
                /\ participants'[e].role = role
           /\ Inserted(w, o) => e \in DOMAIN participants' /\ req[w].room \in DOMAIN rooms'
<1> DEFINE row == [room |-> req[w].room, user |-> req[w].user, role |-> role, left |-> FALSE]
<1>1. row \in Participant /\ row.room = req[w].room /\ row.user = req[w].user /\ row.role = role
    BY DEF Participant
<1>2. calm' \in BOOLEAN /\ used' = used \cup {e} /\ e \notin used /\ e \notin DOMAIN participants
    BY NoteType DEF Insert, IInv, TypeOK
<1>3. CASE Takes(o) /\ req[w].room \in DOMAIN rooms
    <2>1. participants' = Write(participants, e, row)
        BY <1>3 DEF Insert
    <2> HIDE DEF row
    <2>2. Preserved
        BY <1>1, <1>2, <1>3, <2>1, EntryWritten DEF IInv, RestTyped
    <2>3. DOMAIN participants' = DOMAIN participants \cup {e} /\ participants'[e] = row
        BY <2>1 DEF Write
    <2> QED
        BY <1>1, <1>2, <1>3, <2>2, <2>3
<1>4. CASE ~(Takes(o) /\ req[w].room \in DOMAIN rooms)
    <2>1. participants' = participants
        BY <1>4 DEF Insert
    <2>2. UNCHANGED <<waiting, invites, tokens>>
        BY DEF admission
    <2>3. TypeOK'
        BY <1>2, <2>1, <2>2 DEF IInv, TypeOK
    <2>4. NoOrphans'
        BY <2>1, <2>2 DEF IInv, NoOrphans
    <2>5. Preserved
        BY <1>2, <2>1, <2>3, <2>4 DEF Preserved, SameRoom, SameEntry, SameMessage, IInv, TypeOK
    <2> QED
        BY <1>2, <1>4, <2>1, <2>5 DEF Inserted, Takes
<1> QED
    BY <1>3, <1>4

LEMMA JoinReadKeeps ==
    ASSUME IInv, NEW w \in Workers, JoinRead(w)
    PROVE  Preserved /\ IInv'
<1>1. PICK r \in Rooms, u \in Users :
        /\ r \in DOMAIN rooms
        /\ Go(w, [step |-> "join.lookup", room |-> r, user |-> u, row |-> rooms[r]])
    BY RoomFound DEF JoinRead, IInv
<1> DEFINE q == [step |-> "join.lookup", room |-> r, user |-> u, row |-> rooms[r]]
<1>2. r \in used /\ rooms[r] \in Room
    BY <1>1 DEF IInv, TypeOK
<1>3. q \in Request
    BY <1>2 DEF Request
<1>4. /\ req' \in [Workers -> Request \cup {Idle}] /\ req'[w] = q
      /\ \A v \in Workers : v # w => req'[v] = req[v]
    BY <1>1, <1>3, NextRequest DEF IInv
<1>5. calm' \in BOOLEAN /\ UNCHANGED <<rooms, participants, messages, admission, audit, used>>
    BY NoteType DEF JoinRead, IInv, TypeOK
<1>6. Refers(w)'
    BY <1>2, <1>4, <1>5 DEF Refers, RowSteps, HostIsRead, ActivityIsRead, At
<1> QED
    BY <1>4, <1>5, <1>6, ReadKeeps DEF RestTyped

LEMMA JoinLookupKeeps ==
    ASSUME IInv, NEW w \in Workers, JoinLookup(w)
    PROVE  Preserved /\ IInv'
<1>1. calm' \in BOOLEAN /\ UNCHANGED <<rooms, participants, messages, admission, audit, used>>
    BY NoteType DEF JoinLookup, IInv, TypeOK
<1>2. CASE Done(w)
    BY <1>1, <1>2, EndKeeps, ReadKeeps DEF RestTyped
<1>3. CASE Goto(w, IF req[w].row.host = req[w].user THEN "join.insert" ELSE "join.wait")
    <2> DEFINE s == IF req[w].row.host = req[w].user THEN "join.insert" ELSE "join.wait"
    <2>1. /\ s \in {"join.insert", "join.wait"}
          /\ s = "join.insert" => req[w].row.host = req[w].user
        OBVIOUS
    <2> HIDE DEF s
    <2>2. /\ req' \in [Workers -> Request \cup {Idle}]
          /\ req'[w].step = s /\ req'[w].room = req[w].room /\ req'[w].user = req[w].user
          /\ req'[w].row = req[w].row
          /\ \A v \in Workers : v # w => req'[v] = req[v]
        BY <1>3, <2>1, NextStep DEF s, JoinLookup, At, IInv
    <2>3. HostIsRead(w)
        BY DEF JoinLookup, At, IInv, RequestsRefer, Refers, RowSteps
    <2>4. HostIsRead(w)'
        BY <1>1, <2>2, <2>3 DEF HostIsRead
    <2>5. Refers(w)'
        BY <2>1, <2>2, <2>4 DEF Refers, RowSteps, ActivityIsRead, At
    <2> QED
        BY <1>1, <2>2, <2>5, ReadKeeps DEF RestTyped
<1> QED
    BY <1>2, <1>3 DEF JoinLookup

LEMMA JoinInsertKeeps ==
    ASSUME IInv, NEW w \in Workers, JoinInsert(w)
    PROVE  Preserved /\ IInv'
<1>1. PICK e \in Entries \ used, o \in Outcomes :
        /\ Insert(w, e, "host", o)
        /\ IF Inserted(w, o) /\ req[w].row.status = "scheduled"
           THEN Goto(w, "join.promote") ELSE Done(w)
    BY DEF JoinInsert
<1>2. /\ req[w].room \in Rooms /\ req[w].user \in Users
      /\ HostIsRead(w) /\ req[w].row.host = req[w].user
    BY RequestAt DEF JoinInsert, At, IInv, RequestsRefer, Refers, RowSteps
<1>3. UNCHANGED <<rooms, messages, admission, audit>>
    BY DEF JoinInsert
<1>4. /\ req' \in [Workers -> Request \cup {Idle}]
      /\ \A v \in Workers : v # w => req'[v] = req[v]
    BY <1>1, NextStep, EndKeeps DEF JoinInsert, At, IInv
<1>5. /\ Preserved
      /\ Inserted(w, o) => /\ e \in DOMAIN participants' /\ req[w].room \in DOMAIN rooms'
                           /\ participants'[e].room = req[w].room
                           /\ participants'[e].user = req[w].user
                           /\ participants'[e].role = "host"
    BY <1>1, <1>2, <1>3, <1>4, InsertPreserves
<1>6. Refers(w)'
    <2>1. CASE Done(w)
        BY <2>1, EndKeeps
    <2>2. CASE Inserted(w, o) /\ Goto(w, "join.promote")
        <3>1. /\ req'[w].step = "join.promote" /\ req'[w].room = req[w].room
              /\ req'[w].user = req[w].user /\ req'[w].row = req[w].row
            BY <2>2, NextStep DEF JoinInsert, At, IInv
        <3>2. HostIsRead(w)'
            BY <1>2, <1>3, <1>5, <3>1 DEF HostIsRead, Preserved
        <3>3. HasHostRow(req[w].room)'
            <4>1. participants'[e].user = rooms'[req[w].room].host
                BY <1>2, <1>3, <1>5, <2>2 DEF HostIsRead
            <4>2. \E d \in DOMAIN participants' :
                    /\ participants'[d].room = req'[w].room
                    /\ participants'[d].role = "host"
                    /\ participants'[d].user = rooms'[req'[w].room].host
                BY <1>5, <2>2, <3>1, <4>1
            <4> QED
                BY <4>2 DEF HasHostRow
        <3>4. ActivityIsRead(w)'
            BY <3>3 DEF ActivityIsRead, HasHostRow
        <3> QED
            BY <1>2, <3>1, <3>2, <3>4 DEF Refers, RowSteps
    <2> QED
        BY <1>1, <2>1, <2>2
<1>7. \A k \in DOMAIN rooms' :
        rooms'[k].status = "active" => k \in DOMAIN rooms /\ HasHostRow(k)
    BY <1>3 DEF IInv, ActiveHasHost
<1> QED
    BY <1>4, <1>5, <1>6, <1>7, StepKeeps

LEMMA JoinEndKeeps ==
    ASSUME IInv, NEW w \in Workers, JoinWait(w) \/ JoinPromote(w)
    PROVE  Preserved /\ IInv'
<1>1. CASE JoinWait(w)
    BY <1>1, ListKeeps DEF JoinWait, At
<1>2. CASE JoinPromote(w)
    <2> DEFINE row == [req[w].row EXCEPT !.status = "active"]
    <2>1. req[w].row \in Room /\ req[w].step \in RowSteps
        BY <1>2, RequestAt DEF JoinPromote, At, RowSteps, IInv
    <2>2. row \in Room /\ row.host = req[w].row.host
        BY <2>1 DEF Room
    <2>3. req[w].room \in DOMAIN rooms => HasHostRow(req[w].room)
        BY <1>2 DEF JoinPromote, IInv, RequestsRefer, Refers, ActivityIsRead
    <2>4. calm' \in BOOLEAN
        BY <1>2, NoteType DEF JoinPromote, IInv, TypeOK
    <2>5. rooms' = Overwrite(req[w].room, row) \/ rooms' = rooms
        BY <1>2 DEF JoinPromote
    <2>6. Done(w) /\ UNCHANGED <<participants, messages, admission, audit, used>>
        BY <1>2 DEF JoinPromote
    <2> HIDE DEF row
    <2> QED
        BY <2>1, <2>2, <2>3, <2>4, <2>5, <2>6, OverwriteKeeps
<1> QED
    BY <1>1, <1>2

LEMMA LeaveKeeps ==
    ASSUME IInv, NEW w \in Workers, LeaveRead(w) \/ LeaveMark(w)
    PROVE  Preserved /\ IInv'
<1>1. CASE LeaveRead(w)
    <2>1. PICK r \in Rooms, u \in Users, e \in DOMAIN participants :
            /\ participants[e].room = r
            /\ Go(w, [step |-> "leave.mark", room |-> r, user |-> u, entry |-> e])
        BY <1>1 DEF LeaveRead, ActiveOf
    <2> DEFINE q == [step |-> "leave.mark", room |-> r, user |-> u, entry |-> e]
    <2>2. e \in Entries /\ e \in used
        BY DEF IInv, TypeOK
    <2>3. q \in Request
        BY <2>2 DEF Request
    <2>4. /\ req' \in [Workers -> Request \cup {Idle}] /\ req'[w] = q
          /\ \A v \in Workers : v # w => req'[v] = req[v]
        BY <2>1, <2>3, NextRequest DEF IInv
    <2>5. calm' \in BOOLEAN /\ UNCHANGED <<rooms, participants, messages, admission, audit, used>>
        BY <1>1, NoteType DEF LeaveRead, IInv, TypeOK
    <2>6. Refers(w)'
        BY <2>1, <2>2, <2>4, <2>5 DEF Refers, RowSteps, SenderIsRead, ActivityIsRead, At
    <2> QED
        BY <2>4, <2>5, <2>6, ReadKeeps DEF RestTyped
<1>2. CASE LeaveMark(w)
    <2>1. /\ req' \in [Workers -> Request \cup {Idle}]
          /\ \A v \in Workers : v # w => req'[v] = req[v]
          /\ Refers(w)'
        BY <1>2, EndKeeps DEF LeaveMark
    <2>2. calm' \in BOOLEAN
        BY <1>2, NoteType DEF LeaveMark, IInv, TypeOK
    <2>3. UNCHANGED <<rooms, messages, admission, audit, used>>
        BY <1>2 DEF LeaveMark
    <2>4. Preserved
        <3>1. CASE participants' = participants
            BY <2>1, <2>2, <2>3, <3>1, SameTables DEF IInv, RestTyped
        <3>2. CASE /\ req[w].entry \in DOMAIN participants
                   /\ participants' = [participants EXCEPT ![req[w].entry].left = TRUE]
            <4> DEFINE e == req[w].entry
                       row == [participants[e] EXCEPT !.left = TRUE]
            <4>1. participants[e] \in Participant /\ e \in Entries /\ e \in used
                BY <3>2 DEF IInv, TypeOK
            <4>2. /\ row \in Participant
                  /\ row.room = participants[e].room /\ row.user = participants[e].user
                  /\ row.role = participants[e].role
                BY <4>1 DEF Participant
            <4>3. participants' = Write(participants, e, row)
                BY <3>2 DEF Write, IInv, TypeOK
            <4>4. row.room \in DOMAIN rooms
                BY <3>2, <4>2 DEF IInv, NoOrphans
            <4>5. used' = used \cup {e}
                BY <2>3, <4>1
            <4> HIDE DEF row, e
            <4> QED
                BY <2>1, <2>2, <2>3, <3>2, <4>1, <4>2, <4>3, <4>4, <4>5, EntryWritten
                DEF IInv, RestTyped, e
        <3> QED
            BY <1>2, <3>1, <3>2 DEF LeaveMark
    <2> QED
        BY <2>1, <2>3, <2>4, StepKeeps DEF IInv, ActiveHasHost
<1> QED
    BY <1>1, <1>2

-----------------------------------------------------------------------------
(* The chat.                                                                 *)

\* A request goes on to send a message as a row of the room it is for.
LEMMA SendAsStep ==
    ASSUME IInv, NEW w \in Workers, NEW e \in Entries, SendAs(w, e),
           req[w].step \in {"send.lookup", "send.enter"}
    PROVE  /\ req' \in [Workers -> Request \cup {Idle}]
           /\ \A v \in Workers : v # w => req'[v] = req[v]
           /\ req'[w].step = "send.insert" /\ req'[w].entry = e /\ req'[w].room = req[w].room
<1> DEFINE q == [step |-> "send.insert", room |-> req[w].room, user |-> req[w].user, entry |-> e]
<1>1. req[w].room \in Rooms /\ req[w].user \in Users
    BY RequestAt DEF IInv
<1>2. q \in Request
    BY <1>1 DEF Request
<1>3. Go(w, q)
    BY DEF SendAs
<1> QED
    BY <1>2, <1>3, NextRequest DEF IInv

LEMMA SendReadKeeps ==
    ASSUME IInv, NEW w \in Workers, SendRead(w)
    PROVE  Preserved /\ IInv'
<1>1. PICK r \in Rooms, u \in Users :
        Go(w, [step |-> "send.lookup", room |-> r, user |-> u])
    BY DEF SendRead
<1>2. [step |-> "send.lookup", room |-> r, user |-> u] \in Request
    BY DEF Request
<1> QED
    BY <1>1, <1>2, BeginKeeps DEF SendRead

LEMMA SendLookupKeeps ==
    ASSUME IInv, NEW w \in Workers, SendLookup(w)
    PROVE  Preserved /\ IInv'
<1>1. calm' \in BOOLEAN /\ UNCHANGED <<rooms, participants, messages, admission, audit, used>>
    BY NoteType DEF SendLookup, IInv, TypeOK
<1>2. CASE \E e \in ActiveOf(req[w].room, req[w].user) : SendAs(w, e)
    <2>1. PICK e \in DOMAIN participants : participants[e].room = req[w].room /\ SendAs(w, e)
        BY <1>2 DEF ActiveOf
    <2>2. e \in Entries /\ e \in used
        BY DEF IInv, TypeOK
    <2>3. /\ req' \in [Workers -> Request \cup {Idle}]
          /\ \A v \in Workers : v # w => req'[v] = req[v]
          /\ req'[w].step = "send.insert" /\ req'[w].entry = e /\ req'[w].room = req[w].room
        BY <2>1, <2>2, SendAsStep DEF SendLookup, At
    <2>4. Refers(w)'
        BY <1>1, <2>1, <2>2, <2>3 DEF Refers, RowSteps, SenderIsRead, ActivityIsRead, At
    <2> QED
        BY <1>1, <2>3, <2>4, ReadKeeps DEF RestTyped
<1>3. CASE Goto(w, "send.enter")
    <2>1. /\ req' \in [Workers -> Request \cup {Idle}]
          /\ \A v \in Workers : v # w => req'[v] = req[v]
          /\ req'[w].step = "send.enter"
        BY <1>3, NextStep DEF SendLookup, At, IInv
    <2>2. Refers(w)'
        BY <2>1 DEF Refers, RowSteps, ActivityIsRead, At
    <2> QED
        BY <1>1, <2>1, <2>2, ReadKeeps DEF RestTyped
<1> QED
    BY <1>2, <1>3 DEF SendLookup

LEMMA SendEnterKeeps ==
    ASSUME IInv, NEW w \in Workers, SendEnter(w)
    PROVE  Preserved /\ IInv'
<1>1. PICK e \in Entries \ used, o \in Outcomes :
        /\ Insert(w, e, "participant", o)
        /\ IF Inserted(w, o) THEN SendAs(w, e) ELSE Done(w)
    BY DEF SendEnter
<1>2. req[w].room \in Rooms /\ req[w].user \in Users
    BY RequestAt DEF SendEnter, At, IInv
<1>3. UNCHANGED <<rooms, messages, admission, audit>>
    BY DEF SendEnter
<1>4. /\ req' \in [Workers -> Request \cup {Idle}]
      /\ \A v \in Workers : v # w => req'[v] = req[v]
    BY <1>1, SendAsStep, EndKeeps DEF SendEnter, At
<1>5. /\ Preserved
      /\ e \in used'
      /\ e \in DOMAIN participants' => participants'[e].room = req[w].room
    BY <1>1, <1>2, <1>3, <1>4, InsertPreserves
<1>6. Refers(w)'
    <2>1. CASE Done(w)
        BY <2>1, EndKeeps
    <2>2. CASE SendAs(w, e)
        <3>1. /\ req'[w].step = "send.insert" /\ req'[w].entry = e
              /\ req'[w].room = req[w].room
            BY <2>2, SendAsStep DEF SendEnter, At
        <3> QED
            BY <1>5, <3>1 DEF Refers, RowSteps, SenderIsRead, ActivityIsRead, At
    <2> QED
        BY <1>1, <2>1, <2>2
<1>7. \A k \in DOMAIN rooms' :
        rooms'[k].status = "active" => k \in DOMAIN rooms /\ HasHostRow(k)
    BY <1>3 DEF IInv, ActiveHasHost
<1> QED
    BY <1>4, <1>5, <1>6, <1>7, StepKeeps

LEMMA SendInsertKeeps ==
    ASSUME IInv, NEW w \in Workers, SendInsert(w)
    PROVE  Preserved /\ IInv'
<1>1. PICK m \in Messages \ used, o \in Outcomes :
        /\ messages' =
            IF Takes(o) /\ req[w].room \in DOMAIN rooms /\ req[w].entry \in DOMAIN participants
            THEN Write(messages, m, [room |-> req[w].room, sender |-> req[w].entry,
                                     edited |-> FALSE, deleted |-> FALSE])
            ELSE messages
        /\ used' = used \cup {m}
        /\ Note(o)
    BY DEF SendInsert
<1>2. /\ req' \in [Workers -> Request \cup {Idle}]
      /\ \A v \in Workers : v # w => req'[v] = req[v]
      /\ Refers(w)'
    BY EndKeeps DEF SendInsert
<1>3. calm' \in BOOLEAN /\ UNCHANGED <<rooms, participants, admission, audit>>
    BY <1>1, NoteType DEF SendInsert, IInv, TypeOK
<1>4. req[w].room \in Rooms /\ req[w].entry \in Entries
    BY RequestAt DEF SendInsert, At, IInv
<1>5. Preserved
    <2>1. CASE req[w].entry \in DOMAIN participants
               /\ messages' = Write(messages, m, [room |-> req[w].room, sender |-> req[w].entry,
                                                  edited |-> FALSE, deleted |-> FALSE])
        <3> DEFINE row == [room |-> req[w].room, sender |-> req[w].entry,
                           edited |-> FALSE, deleted |-> FALSE]
        <3>1. row \in Message /\ row.room = req[w].room /\ row.sender = req[w].entry
            BY <1>4 DEF Message
        <3>2. participants[row.sender].room = row.room
            BY <2>1, <3>1 DEF SendInsert, At, IInv, RequestsRefer, Refers, SenderIsRead
        <3> HIDE DEF row
        <3>3. messages' = Write(messages, m, row)
            BY <2>1 DEF row
        <3> QED
            BY <1>1, <1>2, <1>3, <2>1, <3>1, <3>2, <3>3, MessageWritten DEF IInv, RestTyped
    <2>2. CASE messages' = messages
        <3>1. UNCHANGED <<waiting, invites, tokens>>
            BY <1>3 DEF admission
        <3>2. TypeOK' /\ NoOrphans'
            BY <1>1, <1>2, <1>3, <2>2, <3>1 DEF IInv, TypeOK, NoOrphans
        <3> QED
            BY <1>1, <1>3, <2>2, <3>2 DEF Preserved, SameRoom, SameEntry, SameMessage, IInv, TypeOK
    <2> QED
        BY <1>1, <2>1, <2>2
<1> QED
    BY <1>2, <1>3, <1>5, StepKeeps DEF IInv, ActiveHasHost

LEMMA ChangeReadKeeps ==
    ASSUME IInv, NEW w \in Workers, ChangeRead(w)
    PROVE  Preserved /\ IInv'
<1>1. PICK m \in Messages, u \in Users, s \in {"edit.write", "erase.write"} :
        /\ m \in DOMAIN messages /\ m \in used
        /\ participants[messages[m].sender].user = u
        /\ Go(w, [step |-> s, message |-> m, user |-> u])
    BY MessageFound DEF ChangeRead, IInv, Participant
<1> DEFINE q == [step |-> s, message |-> m, user |-> u]
<1>3. q \in Request
    BY DEF Request
<1>4. /\ req' \in [Workers -> Request \cup {Idle}] /\ req'[w] = q
      /\ \A v \in Workers : v # w => req'[v] = req[v]
    BY <1>1, <1>3, NextRequest DEF IInv
<1>5. calm' \in BOOLEAN /\ UNCHANGED <<rooms, participants, messages, admission, audit, used>>
    BY NoteType DEF ChangeRead, IInv, TypeOK
<1>6. Refers(w)'
    BY <1>1, <1>4, <1>5 DEF Refers, RowSteps, AuthorIsRead, ActivityIsRead, At
<1> QED
    BY <1>4, <1>5, <1>6, ReadKeeps DEF RestTyped

LEMMA ChangeKeeps ==
    ASSUME IInv, NEW w \in Workers, EditWrite(w) \/ EraseWrite(w)
    PROVE  Preserved /\ IInv'
<1>1. PICK row \in {[Found(w) EXCEPT !.edited = TRUE], [Found(w) EXCEPT !.deleted = TRUE]} :
        Change(w, row)
    BY DEF EditWrite, EraseWrite
<1>2. /\ req' \in [Workers -> Request \cup {Idle}]
      /\ \A v \in Workers : v # w => req'[v] = req[v]
      /\ Refers(w)'
    BY <1>1, EndKeeps DEF Change
<1>3. calm' \in BOOLEAN /\ UNCHANGED <<rooms, participants, admission, audit, used>>
    BY <1>1, NoteType DEF Change, IInv, TypeOK
<1>4. Preserved
    <2>1. CASE messages' = messages
        BY <1>2, <1>3, <2>1, SameTables DEF IInv, RestTyped
    <2>2. CASE req[w].message \in DOMAIN messages
               /\ messages' = Write(messages, req[w].message, row)
        <3>1. /\ req[w].message \in Messages /\ req[w].message \in used
              /\ Found(w) \in Message
            BY <2>2 DEF IInv, TypeOK, Found
        <3>2. row \in Message /\ row.room = Found(w).room /\ row.sender = Found(w).sender
            BY <1>1, <3>1 DEF Message
        <3>3. row.sender \in DOMAIN participants /\ participants[row.sender].room = row.room
            BY <2>2, <3>2 DEF IInv, NoOrphans, Found
        <3>4. used' = used \cup {req[w].message}
            BY <1>3, <3>1
        <3> QED
            BY <1>2, <1>3, <2>2, <3>1, <3>2, <3>3, <3>4, MessageWritten
            DEF IInv, RestTyped, Found
    <2> QED
        BY <1>1, <2>1, <2>2 DEF Change
<1> QED
    BY <1>2, <1>3, <1>4, StepKeeps DEF IInv, ActiveHasHost

LEMMA TokenKeeps ==
    ASSUME IInv, NEW w \in Workers, TokenRead(w) \/ TokenSign(w)
    PROVE  Preserved /\ IInv'
<1>1. CASE TokenRead(w)
    <2>1. PICK r \in Rooms, u \in Users :
            Go(w, [step |-> "token.sign", room |-> r, user |-> u])
        BY <1>1 DEF TokenRead
    <2>2. [step |-> "token.sign", room |-> r, user |-> u] \in Request
        BY DEF Request
    <2> QED
        BY <1>1, <2>1, <2>2, BeginKeeps DEF TokenRead
<1>2. CASE TokenSign(w)
    <2>1. /\ req' \in [Workers -> Request \cup {Idle}]
          /\ \A v \in Workers : v # w => req'[v] = req[v]
          /\ Refers(w)'
        BY <1>2, EndKeeps DEF TokenSign
    <2>2. calm' \in BOOLEAN
        BY <1>2, NoteType DEF TokenSign, IInv, TypeOK
    <2>3. req[w].room \in Rooms /\ req[w].user \in Users
        BY <1>2, RequestAt DEF TokenSign, At, IInv
    <2>4. UNCHANGED <<rooms, participants, messages, waiting, invites, audit, used>>
          /\ tokens' \subseteq Rooms \X Users
        BY <1>2, <2>3 DEF TokenSign, IInv, TypeOK
    <2>5. Preserved
        BY <2>1, <2>2, <2>4, RoomReferred DEF IInv, RestTyped
    <2> QED
        BY <2>1, <2>4, <2>5, StepKeeps DEF IInv, ActiveHasHost
<1> QED
    BY <1>1, <1>2

LEMMA CrashKeeps ==
    ASSUME IInv, Crash PROVE Preserved /\ IInv'
<1>1. /\ req' = [w \in Workers |-> Idle] /\ calm' = FALSE
      /\ UNCHANGED <<rooms, participants, messages, admission, audit, used>>
    BY DEF Crash
<1>2. RestTyped
    BY <1>1 DEF RestTyped
<1>3. Preserved
    BY <1>1, <1>2, SameTables DEF IInv
<1>4. RequestsRefer'
    BY <1>1 DEF RequestsRefer, Refers, RowSteps, ActivityIsRead, At, Idle
<1>5. ActiveHasHost'
    BY <1>1 DEF IInv, ActiveHasHost, HasHostRow
<1> QED
    BY <1>3, <1>4, <1>5 DEF IInv, Preserved

-----------------------------------------------------------------------------
LEMMA InvariantInit == Init => IInv
<1> SUFFICES ASSUME Init PROVE IInv
    OBVIOUS
<1>1. DOMAIN rooms = {} /\ DOMAIN participants = {} /\ DOMAIN messages = {}
    BY DEF Init
<1>2. calm \in BOOLEAN
    BY Zenon DEF Init
<1>3. TypeOK
    BY <1>1, <1>2 DEF Init, TypeOK
<1>4. NoOrphans /\ ActiveHasHost
    BY <1>1 DEF Init, NoOrphans, ActiveHasHost
<1>5. RequestsRefer
    BY DEF Init, RequestsRefer, Refers, RowSteps, ActivityIsRead, At, Idle
<1> QED
    BY <1>3, <1>4, <1>5 DEF IInv

LEMMA NextKeeps == IInv /\ Next => Preserved /\ IInv'
<1> SUFFICES ASSUME IInv, Next PROVE Preserved /\ IInv'
    OBVIOUS
<1>1. CASE Crash
    BY <1>1, CrashKeeps
<1>2. ASSUME NEW w \in Workers, Arrive(w) PROVE Preserved /\ IInv'
    BY <1>2, CreateKeeps, UpdateKeeps, DeleteKeeps, InviteKeeps, JoinReadKeeps, LeaveKeeps,
       SendReadKeeps, ChangeReadKeeps, TokenKeeps DEF Arrive, RoomRequest, ChatRequest
<1>3. ASSUME NEW w \in Workers, Continue(w) PROVE Preserved /\ IInv'
    BY <1>3, CreateKeeps, UpdateKeeps, DeleteKeeps, InviteKeeps, JoinLookupKeeps,
       JoinInsertKeeps, JoinEndKeeps, LeaveKeeps, SendLookupKeeps, SendEnterKeeps,
       SendInsertKeeps, ChangeKeeps, TokenKeeps DEF Continue
<1> QED
    BY <1>1, <1>2, <1>3 DEF Next

LEMMA StutterKeeps == IInv /\ UNCHANGED vars => IInv'
<1> SUFFICES ASSUME IInv, UNCHANGED vars PROVE IInv'
    OBVIOUS
<1>1. UNCHANGED <<rooms, participants, messages, admission, audit, req, used, calm>>
    BY DEF vars
<1>2. RestTyped
    BY <1>1 DEF RestTyped, IInv, TypeOK
<1>3. Preserved
    BY <1>1, <1>2, SameTables DEF IInv
<1>4. RequestsRefer' /\ ActiveHasHost'
    BY <1>1 DEF IInv, RequestsRefer, Refers, HostIsRead, ActivityIsRead, HasHostRow,
                SenderIsRead, AuthorIsRead, At, ActiveHasHost
<1> QED
    BY <1>3, <1>4 DEF IInv, Preserved

\* Every request under way refers to rows that are what it read or that are
\* gone, whatever requests come in between and whatever fails.
THEOREM InvariantHolds == Spec => []IInv
<1>1. IInv /\ [Next]_vars => IInv'
    BY NextKeeps, StutterKeeps
<1> QED
    BY InvariantInit, <1>1, PTL DEF Spec

\* The tables and the requests keep their types.
THEOREM TypeCorrect == Spec => []TypeOK
<1>1. IInv => TypeOK
    BY DEF IInv
<1> QED
    BY InvariantHolds, <1>1, PTL

\* The deletion of a room between the statements of any request leaves no row
\* of a participant, a guest, an invitation, a message or the log without its
\* room, nor a message without its sender.
THEOREM NoOrphansHolds == Spec => []NoOrphans
<1>1. IInv => NoOrphans
    BY DEF IInv
<1> QED
    BY InvariantHolds, <1>1, PTL

\* No stale row that an Update or a Join writes back makes a room active whose
\* host has not entered it.
THEOREM ActiveHasHostHolds == Spec => []ActiveHasHost
<1>1. IInv => ActiveHasHost
    BY DEF IInv
<1> QED
    BY InvariantHolds, <1>1, PTL

-----------------------------------------------------------------------------
(* What a step does to one message.                                          *)

Kept(m) == m \in DOMAIN messages' /\ messages'[m] = messages[m]

GoneWithRoom(m) == m \notin DOMAIN messages' /\ messages[m].room \notin DOMAIN rooms'

ChangedByAuthor(m) ==
    /\ m \in DOMAIN messages'
    /\ messages[m].deleted => messages'[m].deleted
    /\ \E w \in Workers :
        /\ req[w].step \in {"edit.write", "erase.write"}
        /\ req[w].message = m
        /\ req[w].user = participants[messages[m].sender].user

LEMMA DeletedMessage ==
    ASSUME IInv, NEW w \in Workers, DeleteRemove(w), NEW m \in DOMAIN messages
    PROVE  Kept(m) \/ GoneWithRoom(m)
<1>1. CASE UNCHANGED messages
    BY <1>1 DEF Kept
<1>2. CASE Cascade(req[w].room) /\ messages[m].room = req[w].room
    BY <1>2 DEF Cascade, Without, Of, GoneWithRoom
<1>3. CASE Cascade(req[w].room) /\ messages[m].room # req[w].room
    BY <1>3 DEF Cascade, Without, Of, Kept
<1> QED
    BY <1>1, <1>2, <1>3 DEF DeleteRemove

LEMMA ChangedMessage ==
    ASSUME IInv, NEW w \in Workers, EditWrite(w) \/ EraseWrite(w), NEW m \in DOMAIN messages
    PROVE  Kept(m) \/ ChangedByAuthor(m)
<1>1. PICK row \in {[Found(w) EXCEPT !.edited = TRUE], [Found(w) EXCEPT !.deleted = TRUE]} :
        Change(w, row)
    BY DEF EditWrite, EraseWrite
<1>2. CASE messages' = messages
    BY <1>2 DEF Kept
<1>3. CASE /\ req[w].message \in DOMAIN messages /\ req[w].message # m
           /\ messages' = Write(messages, req[w].message, row)
    BY <1>3 DEF Write, Kept
<1>4. CASE req[w].message = m /\ messages' = Write(messages, m, row)
    <2>1. m \in DOMAIN messages' /\ messages'[m] = row
        BY <1>4 DEF Write
    <2>2. messages[m] \in Message /\ Found(w) = messages[m]
        BY <1>4 DEF IInv, TypeOK, Found
    <2>3. messages[m].deleted => row.deleted
        BY <1>1, <2>2 DEF Message
    <2>4. AuthorIsRead(w) /\ req[w].step \in {"edit.write", "erase.write"}
        BY DEF EditWrite, EraseWrite, At, IInv, RequestsRefer, Refers
    <2> QED
        BY <1>4, <2>1, <2>3, <2>4 DEF AuthorIsRead, ChangedByAuthor
<1> QED
    BY <1>1, <1>2, <1>3, <1>4 DEF Change

LEMMA MessageStep ==
    ASSUME IInv, Next, NEW m \in DOMAIN messages
    PROVE  GoneWithRoom(m) \/ Kept(m) \/ ChangedByAuthor(m)
<1>1. CASE UNCHANGED messages
    BY <1>1 DEF Kept
<1>2. ASSUME NEW w \in Workers, SendInsert(w) PROVE Kept(m)
    <2>1. m \in used
        BY DEF IInv, TypeOK
    <2>2. PICK n \in Messages \ used :
            (\E row : messages' = Write(messages, n, row)) \/ messages' = messages
        BY <1>2 DEF SendInsert
    <2> QED
        BY <2>1, <2>2 DEF Write, Kept
<1>3. Crash => UNCHANGED messages
    BY DEF Crash
<1>4. ASSUME NEW w \in Workers, Arrive(w) PROVE UNCHANGED messages
    BY <1>4 DEF Arrive, RoomRequest, ChatRequest, CreateRoom, UpdateRead, DeleteRead,
                InviteRead, JoinRead, LeaveRead, SendRead, ChangeRead, TokenRead
<1>5. ASSUME NEW w \in Workers, Continue(w)
      PROVE  \/ UNCHANGED messages \/ SendInsert(w)
             \/ DeleteRemove(w) \/ EditWrite(w) \/ EraseWrite(w)
    BY <1>5 DEF Continue, CreateAudit, UpdateWrite, InviteInsert, JoinLookup, JoinWait,
                JoinInsert, JoinPromote, LeaveMark, SendLookup, SendEnter, TokenSign
<1> QED
    BY <1>1, <1>2, <1>3, <1>4, <1>5, DeletedMessage, ChangedMessage DEF Next

\* Nobody but its sender changes a message, no late edit brings a deleted one
\* back, and it disappears only with its room.
THEOREM MessagesKeptHolds == Spec => MessagesKept
<1>1. IInv /\ [Next]_vars =>
        [\A m \in DOMAIN messages :
            \/ m \notin DOMAIN messages' /\ messages[m].room \notin DOMAIN rooms'
            \/ m \in DOMAIN messages' /\ messages'[m] = messages[m]
            \/ /\ m \in DOMAIN messages'
               /\ messages[m].deleted => messages'[m].deleted
               /\ \E w \in Workers :
                   /\ req[w].step \in {"edit.write", "erase.write"}
                   /\ req[w].message = m
                   /\ req[w].user = participants[messages[m].sender].user]_vars
    BY MessageStep DEF Kept, GoneWithRoom, ChangedByAuthor
<1> QED
    BY InvariantHolds, <1>1, PTL DEF Spec, MessagesKept

-----------------------------------------------------------------------------
(* The end of a room.                                                        *)

\* What a request does first.
LEMMA BeginStep ==
    ASSUME IInv, NEW w \in Workers, Arrive(w)
    PROVE  /\ \A v \in Workers : v # w => req'[v] = req[v]
           /\ req'[w].step \in {"idle", "create.audit", "update.write", "delete.remove",
                "join.lookup", "leave.mark", "invite.insert", "send.lookup", "edit.write",
                "erase.write", "token.sign"}
           /\ req'[w].step = "token.sign" => TokenRead(w)
<1>1. ASSUME NEW q, Go(w, q) PROVE req'[w] = q /\ \A v \in Workers : v # w => req'[v] = req[v]
    BY <1>1 DEF Go, IInv, TypeOK
<1>2. CASE CreateRoom(w)
    BY <1>1, <1>2 DEF CreateRoom, Idle
<1>3. CASE UpdateRead(w)
    BY <1>1, <1>3 DEF UpdateRead
<1>4. CASE DeleteRead(w)
    BY <1>1, <1>4 DEF DeleteRead
<1>5. CASE JoinRead(w)
    BY <1>1, <1>5 DEF JoinRead
<1>6. CASE LeaveRead(w)
    BY <1>1, <1>6 DEF LeaveRead
<1>7. CASE InviteRead(w)
    BY <1>1, <1>7 DEF InviteRead
<1>8. CASE SendRead(w)
    BY <1>1, <1>8 DEF SendRead
<1>9. CASE ChangeRead(w)
    BY <1>1, <1>9 DEF ChangeRead
<1>10. CASE TokenRead(w)
    BY <1>1, <1>10 DEF TokenRead
<1> QED
    BY <1>2, <1>3, <1>4, <1>5, <1>6, <1>7, <1>8, <1>9, <1>10 DEF Arrive, RoomRequest, ChatRequest

LEMMA TokenStep ==
    ASSUME IInv, Next, NEW r, r \notin DOMAIN rooms, Unsigned(r)
    PROVE  Unsigned(r)' /\ TokensOf(r)' = TokensOf(r)
<1>1. CASE Crash
    BY <1>1 DEF Crash, Unsigned, TokensOf, At, Idle, admission
<1>2. ASSUME NEW w \in Workers, TokenSign(w)
      PROVE  Unsigned(r)' /\ TokensOf(r)' = TokensOf(r)
    <2>1. req[w].room # r
        BY <1>2 DEF TokenSign, Unsigned
    <2>2. TokensOf(r)' = TokensOf(r)
        BY <1>2, <2>1 DEF TokenSign, TokensOf
    <2>3. Unsigned(r)'
        BY <1>2 DEF TokenSign, Unsigned, Done, Go, At, Idle, IInv, TypeOK
    <2> QED
        BY <2>2, <2>3
<1>3. ASSUME NEW w \in Workers, Arrive(w) \/ Continue(w), ~TokenSign(w)
      PROVE  Unsigned(r)' /\ TokensOf(r)' = TokensOf(r)
    <2>1. UNCHANGED tokens
        BY <1>3 DEF Arrive, RoomRequest, ChatRequest, CreateRoom, UpdateRead, DeleteRead,
            InviteRead, JoinRead, LeaveRead, SendRead, ChangeRead, TokenRead, Continue,
            CreateAudit, UpdateWrite, DeleteRemove, Cascade, InviteInsert, JoinLookup, JoinWait,
            JoinInsert, JoinPromote, LeaveMark, SendLookup, SendEnter, SendInsert, EditWrite,
            EraseWrite, Change, admission
    <2>2. ASSUME NEW v \in Workers, At(v, "token.sign")' PROVE req'[v].room # r
        <3>1. CASE req'[v] = req[v]
            BY <2>2, <3>1 DEF Unsigned, At
        <3>2. CASE req'[v] # req[v]
            <4>1. TokenRead(w) /\ v = w
                <5>1. CASE Arrive(w)
                    BY <2>2, <3>2, <5>1, BeginStep DEF At
                <5>2. CASE JoinLookup(w) \/ JoinInsert(w) \/ SendLookup(w) \/ SendEnter(w)
                    <6>1. req'[w].step \in {"join.insert", "join.wait", "join.promote",
                                            "send.enter", "send.insert", "idle"}
                          /\ \A x \in Workers : x # w => req'[x] = req[x]
                        BY <5>2, NextStep DEF JoinLookup, JoinInsert, SendLookup, SendEnter,
                            SendAs, Done, Go, At, Idle, IInv, TypeOK
                    <6> QED
                        BY <2>2, <3>2, <6>1 DEF At
                <5>3. CASE Done(w)
                    BY <2>2, <3>2, <5>3 DEF Done, Go, At, Idle, IInv, TypeOK
                <5>4. Continue(w) => \/ TokenSign(w) \/ Done(w)
                                     \/ JoinLookup(w) \/ JoinInsert(w)
                                     \/ SendLookup(w) \/ SendEnter(w)
                    BY DEF Continue, CreateAudit, UpdateWrite, DeleteRemove, InviteInsert,
                        JoinWait, JoinPromote, LeaveMark, SendInsert, EditWrite, EraseWrite,
                        Change
                <5> QED
                    BY <1>3, <5>1, <5>2, <5>3, <5>4
            <4> QED
                BY <2>2, <4>1 DEF TokenRead, GetByID, Lookup, Go, IInv, TypeOK
        <3> QED
            BY <3>1, <3>2
    <2> QED
        BY <2>1, <2>2 DEF Unsigned, TokensOf
<1> QED
    BY <1>1, <1>2, <1>3 DEF Next

\* Nothing comes back after the deletion of a room, and nobody comes in.
THEOREM DeletedIsOverHolds == Spec => DeletedIsOver
<1>1. ASSUME IInv, Next, NEW r \in (used \cap Rooms) \ DOMAIN rooms
      PROVE  /\ r \notin DOMAIN rooms'
             /\ Of(participants', r) = {} /\ Of(messages', r) = {}
             /\ \A x \in waiting' \cup invites' : x.room # r
             /\ Unsigned(r) => Unsigned(r)' /\ TokensOf(r)' = TokensOf(r)
    <2>1. Preserved
        BY <1>1, NextKeeps
    <2>2. r \notin DOMAIN rooms'
        BY <2>1 DEF Preserved, SameRoom
    <2>3. Of(participants', r) = {} /\ Of(messages', r) = {}
        BY <2>1, <2>2 DEF Preserved, NoOrphans, Of
    <2>4. \A x \in waiting' \cup invites' : x.room # r
        BY <2>1, <2>2 DEF Preserved, NoOrphans
    <2> QED
        BY <1>1, <2>2, <2>3, <2>4, TokenStep
<1>2. IInv /\ UNCHANGED vars =>
        \A r \in (used \cap Rooms) \ DOMAIN rooms :
            /\ r \notin DOMAIN rooms'
            /\ Of(participants', r) = {} /\ Of(messages', r) = {}
            /\ \A x \in waiting' \cup invites' : x.room # r
            /\ Unsigned(r) => Unsigned(r)' /\ TokensOf(r)' = TokensOf(r)
    BY DEF vars, admission, IInv, NoOrphans, Of, Unsigned, TokensOf, At
<1>3. IInv /\ [Next]_vars =>
        [\A r \in (used \cap Rooms) \ DOMAIN rooms :
            /\ r \notin DOMAIN rooms'
            /\ Of(participants', r) = {} /\ Of(messages', r) = {}
            /\ \A x \in waiting' \cup invites' : x.room # r
            /\ Unsigned(r) => Unsigned(r)' /\ TokensOf(r)' = TokensOf(r)]_vars
    BY <1>1, <1>2
<1> QED
    BY InvariantHolds, <1>3, PTL DEF Spec, DeletedIsOver

-----------------------------------------------------------------------------
(* What is true as long as requests do not overlap and nothing fails.  One   *)
(* request is under way, and what it has read is still so.                   *)

Alone == \A v, w \in Workers : req[v] # Idle /\ req[w] # Idle => v = w

\* The row that a request has read, while the room is there.
RowIsFresh(w) ==
    req[w].step \in RowSteps /\ req[w].room \in DOMAIN rooms =>
        req[w].row.status = rooms[req[w].room].status

\* Who is about to get a row has none.
IsNew(w) ==
    req[w].step \in {"join.insert", "send.enter"} => ActiveOf(req[w].room, req[w].user) = {}

\* The Join of a host has made the room active, or is about to.
Promoted(r) ==
    HasHostRow(r) => \/ rooms[r].status = "active"
                     \/ \E w \in Workers : At(w, "join.promote") /\ req[w].room = r

OneRow == \A r \in Rooms, u \in Users : \A d, e \in ActiveOf(r, u) : d = e

Calm ==
    /\ Alone
    /\ \A w \in Workers : RowIsFresh(w) /\ IsNew(w)
    /\ \A r \in DOMAIN rooms : Promoted(r)
    /\ OneRow

CalmInv == calm => Calm

LEMMA NoteCalm ==
    ASSUME NEW o, Note(o), calm'
    PROVE  calm /\ o = "ok"
BY Zenon DEF Note

LEMMA NoteBeginCalm ==
    ASSUME NEW o, NoteBegin(o), calm'
    PROVE  calm /\ o = "ok" /\ \A v \in Workers : req[v] = Idle
BY Zenon DEF NoteBegin

\* The obligations of a request that runs alone.
LEMMA CalmStep ==
    ASSUME NEW w \in Workers,
           \A v \in Workers : v # w => req'[v] = Idle,
           RowIsFresh(w)', IsNew(w)',
           \A r \in DOMAIN rooms' : Promoted(r)',
           OneRow'
    PROVE  Calm'
<1>1. Alone'
    BY DEF Alone
<1>2. ASSUME NEW v \in Workers PROVE RowIsFresh(v)' /\ IsNew(v)'
    BY DEF RowIsFresh, IsNew, RowSteps, Idle
<1> QED
    BY <1>1, <1>2 DEF Calm

\* A step that leaves the rooms and the participants as they are.
LEMMA QuietStep ==
    ASSUME Calm, NEW w \in Workers,
           \A v \in Workers : v # w => req[v] = Idle /\ req'[v] = Idle,
           UNCHANGED <<rooms, participants>>, ~At(w, "join.promote"),
           RowIsFresh(w)', IsNew(w)'
    PROVE  Calm'
<1>1. ASSUME NEW r \in DOMAIN rooms' PROVE Promoted(r)'
    <2>1. \A v \in Workers : ~At(v, "join.promote")
        BY DEF At, Idle
    <2>2. HasHostRow(r) => rooms[r].status = "active"
        BY <2>1 DEF Calm, Promoted
    <2> QED
        BY <2>2 DEF Promoted, HasHostRow
<1>2. OneRow'
    BY DEF Calm, OneRow, ActiveOf
<1> QED
    BY <1>1, <1>2, CalmStep

\* A request that ends without a change of the rooms and the participants.
LEMMA QuietEnd ==
    ASSUME IInv, Calm, NEW w \in Workers, Done(w),
           \A v \in Workers : v # w => req[v] = Idle,
           UNCHANGED <<rooms, participants>>, ~At(w, "join.promote")
    PROVE  Calm'
<1>1. req'[w] = Idle /\ \A v \in Workers : v # w => req'[v] = req[v]
    BY NextRequest DEF IInv, Done
<1>2. RowIsFresh(w)' /\ IsNew(w)'
    BY <1>1 DEF RowIsFresh, IsNew, RowSteps, Idle
<1> QED
    BY <1>1, <1>2, QuietStep

\* The requests that have not begun are idle.
LEMMA OthersIdle ==
    ASSUME Calm, NEW w \in Workers, Continue(w)
    PROVE  \A v \in Workers : v # w => req[v] = Idle
<1>1. req[w] # Idle
    BY DEF Continue, CreateAudit, UpdateWrite, DeleteRemove, InviteInsert, JoinLookup, JoinWait,
           JoinInsert, JoinPromote, LeaveMark, SendLookup, SendEnter, SendInsert, EditWrite,
           EraseWrite, TokenSign, At, Idle
<1> QED
    BY <1>1 DEF Calm, Alone

LEMMA ArriveCalm ==
    ASSUME IInv, CalmInv, NEW w \in Workers, Arrive(w), calm'
    PROVE  Calm'
<1>1. \E o : NoteBegin(o)
    BY DEF Arrive, RoomRequest, ChatRequest, CreateRoom, UpdateRead, DeleteRead, InviteRead,
           JoinRead, LeaveRead, SendRead, ChangeRead, TokenRead
<1>2. Calm /\ \A v \in Workers : req[v] = Idle
    BY <1>1, NoteBeginCalm DEF CalmInv
<1>3. /\ \A v \in Workers : v # w => req'[v] = Idle
      /\ req'[w].step \in RowSteps => req'[w].step \in {"update.write", "join.lookup"}
      /\ IsNew(w)'
    BY <1>2, BeginStep DEF IsNew, RowSteps
<1>4. CASE CreateRoom(w)
    <2>1. PICK r \in Rooms \ used, row \in Room : rooms' = Write(rooms, r, row)
        BY <1>4 DEF CreateRoom, Room
    <2>2. UNCHANGED participants /\ req'[w].step \in {"idle", "create.audit"}
        BY <1>2, <1>4 DEF CreateRoom, Go, Idle, IInv, TypeOK
    <2>3. RowIsFresh(w)'
        BY <2>2 DEF RowIsFresh, RowSteps
    <2>4. ASSUME NEW k \in DOMAIN rooms' PROVE Promoted(k)'
        <3>1. CASE k = r
            <4>1. \A e \in DOMAIN participants' : participants'[e].room # r
                BY <2>1, <2>2 DEF IInv, NoOrphans, TypeOK
            <4> QED
                BY <3>1, <4>1 DEF Promoted, HasHostRow
        <3>2. CASE k # r
            <4>1. k \in DOMAIN rooms /\ rooms'[k] = rooms[k]
                BY <2>1, <3>2 DEF Write
            <4>2. HasHostRow(k) => rooms[k].status = "active"
                BY <1>2, <4>1 DEF Calm, Promoted, At, Idle
            <4> QED
                BY <2>2, <4>1, <4>2 DEF Promoted, HasHostRow
        <3> QED
            BY <3>1, <3>2
    <2>5. OneRow'
        BY <1>2, <2>2 DEF Calm, OneRow, ActiveOf
    <2> QED
        BY <1>3, <2>3, <2>4, <2>5, CalmStep
<1>5. CASE ~CreateRoom(w)
    <2>1. UNCHANGED <<rooms, participants>>
        BY <1>5 DEF Arrive, RoomRequest, ChatRequest, UpdateRead, DeleteRead, InviteRead,
                    JoinRead, LeaveRead, SendRead, ChangeRead, TokenRead
    <2>2. ~At(w, "join.promote")
        BY <1>2 DEF At, Idle
    <2>3. RowIsFresh(w)'
        <3>1. ASSUME NEW q, Go(w, q) PROVE req'[w] = q
            BY <3>1 DEF Go, IInv, TypeOK
        <3>2. CASE UpdateRead(w)
            BY <2>1, <3>1, <3>2, RoomFound DEF UpdateRead, RowIsFresh, IInv, Room
        <3>3. CASE JoinRead(w)
            BY <2>1, <3>1, <3>3, RoomFound DEF JoinRead, RowIsFresh, IInv
        <3>4. CASE req'[w].step \notin RowSteps
            BY <3>4 DEF RowIsFresh
        <3>5. UpdateRead(w) \/ JoinRead(w) \/ req'[w].step \notin RowSteps
            <4>1. DeleteRead(w) => req'[w].step = "delete.remove"
                BY <3>1 DEF DeleteRead
            <4>2. InviteRead(w) => req'[w].step = "invite.insert"
                BY <3>1 DEF InviteRead
            <4>3. LeaveRead(w) => req'[w].step = "leave.mark"
                BY <3>1 DEF LeaveRead
            <4>4. SendRead(w) => req'[w].step = "send.lookup"
                BY <3>1 DEF SendRead
            <4>5. ChangeRead(w) => req'[w].step \in {"edit.write", "erase.write"}
                BY <3>1 DEF ChangeRead
            <4>6. TokenRead(w) => req'[w].step = "token.sign"
                BY <3>1 DEF TokenRead
            <4> QED
                BY <1>5, <4>1, <4>2, <4>3, <4>4, <4>5, <4>6
                DEF Arrive, RoomRequest, ChatRequest, RowSteps
        <3> QED
            BY <3>2, <3>3, <3>4, <3>5
    <2> QED
        BY <1>2, <1>3, <2>1, <2>2, <2>3, QuietStep
<1> QED
    BY <1>4, <1>5

\* The columns of a room are written as they are, or the room becomes active.
LEMMA OverwriteCalm ==
    ASSUME IInv, Calm, NEW w \in Workers, NEW row \in Room, Done(w),
           \A v \in Workers : v # w => req[v] = Idle,
           req[w].step \in RowSteps, row.host = req[w].row.host,
           \/ row.status = "active"
           \/ row.status = req[w].row.status /\ ~At(w, "join.promote"),
           rooms' = Overwrite(req[w].room, row), UNCHANGED participants
    PROVE  Calm'
<1>1. req'[w] = Idle /\ \A v \in Workers : v # w => req'[v] = req[v]
    BY NextRequest DEF IInv, Done
<1>2. RowIsFresh(w)' /\ IsNew(w)'
    BY <1>1 DEF RowIsFresh, IsNew, RowSteps, Idle
<1>3. ASSUME NEW k \in DOMAIN rooms' PROVE Promoted(k)'
    <2>1. k \in DOMAIN rooms /\ rooms'[k].host = rooms[k].host
        BY DEF Overwrite, Write, IInv, RequestsRefer, Refers, HostIsRead
    <2>2. HasHostRow(k)' <=> HasHostRow(k)
        BY <2>1 DEF HasHostRow
    <2>3. CASE k = req[w].room
        <3>1. rooms'[k] = row
            BY <2>1, <2>3 DEF Overwrite, Write
        <3>2. row.status = "active" \/ (~At(w, "join.promote") /\ row.status = rooms[k].status)
            BY <2>1, <2>3 DEF Calm, RowIsFresh
        <3>3. ~At(w, "join.promote") /\ HasHostRow(k) => rooms[k].status = "active"
            BY <2>1 DEF Calm, Promoted, At, Idle
        <3> QED
            BY <2>2, <3>1, <3>2, <3>3 DEF Promoted
    <2>4. CASE k # req[w].room
        <3>1. rooms'[k] = rooms[k]
            BY <2>1, <2>4 DEF Overwrite, Write
        <3>2. HasHostRow(k) => rooms[k].status = "active"
            BY <2>1, <2>4 DEF Calm, Promoted, At, Idle
        <3> QED
            BY <2>2, <3>1, <3>2 DEF Promoted
    <2> QED
        BY <2>3, <2>4
<1>4. OneRow'
    BY DEF Calm, OneRow, ActiveOf
<1> QED
    BY <1>1, <1>2, <1>3, <1>4, CalmStep

LEMMA UpdateCalm ==
    ASSUME IInv, Calm, NEW w \in Workers, UpdateWrite(w) \/ JoinPromote(w), calm',
           \A v \in Workers : v # w => req[v] = Idle
    PROVE  Calm'
<1>1. req[w].row \in Room /\ req[w].step \in RowSteps
    BY RequestAt DEF UpdateWrite, JoinPromote, At, RowSteps, IInv
<1>2. CASE UpdateWrite(w)
    <2>1. rooms' = Overwrite(req[w].room, req[w].row)
        BY <1>2, NoteCalm DEF UpdateWrite, Takes
    <2> QED
        BY <1>1, <1>2, <2>1, OverwriteCalm DEF UpdateWrite, At
<1>3. CASE JoinPromote(w)
    <2> DEFINE row == [req[w].row EXCEPT !.status = "active"]
    <2>1. rooms' = Overwrite(req[w].room, row)
        BY <1>3, NoteCalm DEF JoinPromote, Takes
    <2>2. row \in Room /\ row.host = req[w].row.host /\ row.status = "active"
        BY <1>1 DEF Room
    <2>3. Done(w) /\ UNCHANGED participants
        BY <1>3 DEF JoinPromote
    <2> HIDE DEF row
    <2> QED
        BY <1>1, <2>1, <2>2, <2>3, OverwriteCalm
<1> QED
    BY <1>2, <1>3

\* Rooms go with all that is in them, and participants leave.
LEMMA LessCalm ==
    ASSUME IInv, Calm, NEW w \in Workers, DeleteRemove(w) \/ LeaveMark(w),
           \A v \in Workers : v # w => req[v] = Idle
    PROVE  Calm'
<1>1. req'[w] = Idle /\ \A v \in Workers : v # w => req'[v] = req[v]
    BY NextRequest DEF IInv, Done, DeleteRemove, LeaveMark
<1>2. RowIsFresh(w)' /\ IsNew(w)'
    BY <1>1 DEF RowIsFresh, IsNew, RowSteps, Idle
<1>3. \A k \in DOMAIN rooms' : k \in DOMAIN rooms /\ rooms'[k] = rooms[k]
    BY DEF DeleteRemove, Cascade, Without, LeaveMark
<1>4. \A e \in DOMAIN participants' :
        /\ e \in DOMAIN participants
        /\ participants'[e].room = participants[e].room
        /\ participants'[e].user = participants[e].user
        /\ participants'[e].role = participants[e].role
        /\ participants[e].left => participants'[e].left
    <2>1. CASE DeleteRemove(w)
        BY <2>1 DEF DeleteRemove, Cascade, Without
    <2>2. CASE LeaveMark(w)
        BY <2>2 DEF LeaveMark, IInv, TypeOK, Participant
    <2> QED
        BY <2>1, <2>2
<1>5. ASSUME NEW k \in DOMAIN rooms' PROVE Promoted(k)'
    <2>1. HasHostRow(k)' => HasHostRow(k)
        BY <1>3, <1>4 DEF HasHostRow
    <2>2. HasHostRow(k) => rooms[k].status = "active"
        BY <1>3 DEF Calm, Promoted, DeleteRemove, LeaveMark, At, Idle
    <2> QED
        BY <1>3, <2>1, <2>2 DEF Promoted
<1>6. OneRow'
    <2>1. \A r \in Rooms, u \in Users : ActiveOf(r, u)' \subseteq ActiveOf(r, u)
        BY <1>4 DEF ActiveOf
    <2> QED
        BY <2>1 DEF Calm, OneRow
<1> QED
    BY <1>1, <1>2, <1>5, <1>6, CalmStep

\* A user without an active row gets one.
LEMMA InsertOneRow ==
    ASSUME IInv, OneRow, NEW w \in Workers, NEW e \in Entries \ used, NEW role, NEW o,
           Insert(w, e, role, o), ActiveOf(req[w].room, req[w].user) = {}
    PROVE  OneRow'
<1>1. CASE participants' = participants
    BY <1>1 DEF OneRow, ActiveOf
<1>2. CASE participants' = Write(participants, e, [room |-> req[w].room, user |-> req[w].user,
                                                   role |-> role, left |-> FALSE])
    <2>1. \A r \in Rooms, u \in Users :
            IF r = req[w].room /\ u = req[w].user THEN ActiveOf(r, u)' \subseteq {e}
                                                  ELSE ActiveOf(r, u)' \subseteq ActiveOf(r, u)
        BY <1>2 DEF Write, ActiveOf
    <2> QED
        BY <2>1 DEF OneRow
<1> QED
    BY <1>1, <1>2 DEF Insert

LEMMA JoinInsertCalm ==
    ASSUME IInv, Calm, NEW w \in Workers, JoinInsert(w), calm',
           \A v \in Workers : v # w => req[v] = Idle
    PROVE  Calm'
<1>1. PICK e \in Entries \ used, o \in Outcomes :
        /\ Insert(w, e, "host", o)
        /\ IF Inserted(w, o) /\ req[w].row.status = "scheduled"
           THEN Goto(w, "join.promote") ELSE Done(w)
    BY DEF JoinInsert
<1>2. o = "ok"
    BY <1>1, NoteCalm DEF Insert
<1>3. UNCHANGED rooms /\ req[w].step \in RowSteps /\ req[w].row \in Room /\ At(w, "join.insert")
    BY RequestAt DEF JoinInsert, At, RowSteps, IInv
<1>4. OneRow'
    BY <1>1, <1>3, InsertOneRow DEF Calm, IsNew, At
<1>5. /\ \A v \in Workers : v # w => req'[v] = Idle
      /\ req'[w].step \in {"idle", "join.promote"}
      /\ req'[w].step = "join.promote" =>
            req'[w].room = req[w].room /\ req'[w].row = req[w].row
    BY <1>1, <1>3, NextStep DEF Done, Go, At, Idle, IInv, TypeOK
<1>6. RowIsFresh(w)' /\ IsNew(w)'
    BY <1>3, <1>5 DEF Calm, RowIsFresh, IsNew, RowSteps
<1>7. ASSUME NEW k \in DOMAIN rooms' PROVE Promoted(k)'
    <2>1. HasHostRow(k) => rooms[k].status = "active"
        BY <1>3 DEF Calm, Promoted, At, Idle
    <2>2. CASE req[w].room = k
        <3>1. CASE req[w].row.status = "scheduled"
            <4>1. Goto(w, "join.promote")
                BY <1>1, <1>2, <1>3, <2>2, <3>1 DEF Inserted
            <4>2. req'[w].step = "join.promote" /\ req'[w].room = k
                BY <1>3, <2>2, <4>1, NextStep DEF At, IInv
            <4> QED
                BY <4>2 DEF Promoted, At
        <3>2. CASE req[w].row.status = "active"
            BY <1>3, <2>2, <3>2 DEF Calm, RowIsFresh, Promoted
        <3> QED
            BY <1>3, <3>1, <3>2 DEF Room
    <2>3. CASE req[w].room # k
        <3>1. HasHostRow(k)' => HasHostRow(k)
            BY <1>1, <1>3, <2>3 DEF Insert, Write, HasHostRow
        <3> QED
            BY <1>3, <2>1, <3>1 DEF Promoted
    <2> QED
        BY <2>2, <2>3
<1> QED
    BY <1>4, <1>5, <1>6, <1>7, CalmStep

LEMMA SendEnterCalm ==
    ASSUME IInv, Calm, NEW w \in Workers, SendEnter(w),
           \A v \in Workers : v # w => req[v] = Idle
    PROVE  Calm'
<1>1. PICK e \in Entries \ used, o \in Outcomes :
        /\ Insert(w, e, "participant", o)
        /\ IF Inserted(w, o) THEN SendAs(w, e) ELSE Done(w)
    BY DEF SendEnter
<1>2. UNCHANGED rooms /\ At(w, "send.enter")
    BY DEF SendEnter
<1>3. OneRow'
    BY <1>1, <1>2, InsertOneRow DEF Calm, IsNew, At
<1>4. /\ \A v \in Workers : v # w => req'[v] = Idle
      /\ req'[w].step \in {"idle", "send.insert"}
    BY <1>1, <1>2 DEF Done, SendAs, Go, Idle, IInv, TypeOK
<1>5. RowIsFresh(w)' /\ IsNew(w)'
    BY <1>4 DEF RowIsFresh, IsNew, RowSteps
<1>6. ASSUME NEW k \in DOMAIN rooms' PROVE Promoted(k)'
    <2>1. HasHostRow(k) => rooms[k].status = "active"
        BY <1>2 DEF Calm, Promoted, At, Idle
    <2>2. HasHostRow(k)' => HasHostRow(k)
        BY <1>1, <1>2 DEF Insert, Write, HasHostRow
    <2> QED
        BY <1>2, <2>1, <2>2 DEF Promoted
<1> QED
    BY <1>3, <1>4, <1>5, <1>6, CalmStep

LEMMA LookupCalm ==
    ASSUME IInv, Calm, NEW w \in Workers, JoinLookup(w) \/ SendLookup(w), calm',
           \A v \in Workers : v # w => req[v] = Idle
    PROVE  Calm'
<1>1. UNCHANGED <<rooms, participants>> /\ ~At(w, "join.promote")
    BY DEF JoinLookup, SendLookup, At
<1>2. CASE Done(w)
    BY <1>1, <1>2, QuietEnd
<1>3. CASE /\ ActiveOf(req[w].room, req[w].user) = {}
           /\ \E s \in {"join.insert", "join.wait"} : At(w, "join.lookup") /\ Goto(w, s)
    <2>1. PICK s \in {"join.insert", "join.wait"} : At(w, "join.lookup") /\ Goto(w, s)
        BY <1>3
    <2>2. /\ req'[w].room = req[w].room /\ req'[w].user = req[w].user
          /\ req'[w].row = req[w].row /\ req'[w].step = s
          /\ \A v \in Workers : v # w => req'[v] = Idle
        BY <2>1, NextStep DEF At, IInv
    <2>3. RowIsFresh(w)'
        BY <1>1, <2>1, <2>2 DEF Calm, RowIsFresh, RowSteps, At
    <2>4. IsNew(w)'
        BY <1>1, <1>3, <2>2 DEF IsNew, ActiveOf
    <2> QED
        BY <1>1, <2>2, <2>3, <2>4, QuietStep
<1>4. CASE /\ ActiveOf(req[w].room, req[w].user) = {}
           /\ At(w, "send.lookup") /\ Goto(w, "send.enter")
    <2>1. /\ req'[w].room = req[w].room /\ req'[w].user = req[w].user
          /\ req'[w].step = "send.enter"
          /\ \A v \in Workers : v # w => req'[v] = Idle
        BY <1>4, NextStep DEF At, IInv
    <2>2. RowIsFresh(w)' /\ IsNew(w)'
        BY <1>1, <1>4, <2>1 DEF RowIsFresh, RowSteps, IsNew, ActiveOf
    <2> QED
        BY <1>1, <2>1, <2>2, QuietStep
<1>5. CASE \E e : SendAs(w, e)
    <2>1. req'[w].step = "send.insert" /\ \A v \in Workers : v # w => req'[v] = Idle
        BY <1>5 DEF SendAs, Go, IInv, TypeOK
    <2>2. RowIsFresh(w)' /\ IsNew(w)'
        BY <2>1 DEF RowIsFresh, RowSteps, IsNew
    <2> QED
        BY <1>1, <2>1, <2>2, QuietStep
<1>6. CASE JoinLookup(w)
    <2>1. PICK o \in Outcomes :
            /\ IF o = "ok" /\ ActiveOf(req[w].room, req[w].user) # {} THEN Done(w)
               ELSE Goto(w, IF req[w].row.host = req[w].user THEN "join.insert" ELSE "join.wait")
            /\ Note(o)
        BY <1>6 DEF JoinLookup
    <2>2. o = "ok"
        BY <2>1, NoteCalm
    <2> QED
        BY <1>2, <1>3, <1>6, <2>1, <2>2 DEF JoinLookup
<1>7. CASE SendLookup(w)
    <2>1. ~Note("failed")
        BY NoteCalm
    <2> QED
        BY <1>4, <1>5, <1>7, <2>1 DEF SendLookup
<1> QED
    BY <1>6, <1>7

LEMMA ContinueCalm ==
    ASSUME IInv, CalmInv, NEW w \in Workers, Continue(w), calm'
    PROVE  Calm'
<1>1. \E o : Note(o)
    BY DEF Continue, CreateAudit, UpdateWrite, DeleteRemove, InviteInsert, JoinLookup, JoinWait,
           JoinInsert, JoinPromote, LeaveMark, SendLookup, SendEnter, SendInsert, EditWrite,
           EraseWrite, TokenSign, Change, Insert
<1>2. Calm /\ \A v \in Workers : v # w => req[v] = Idle
    BY <1>1, NoteCalm, OthersIdle DEF CalmInv
<1>3. CASE CreateAudit(w) \/ InviteInsert(w) \/ JoinWait(w) \/ SendInsert(w) \/ TokenSign(w)
    BY <1>2, <1>3, QuietEnd DEF CreateAudit, InviteInsert, JoinWait, SendInsert, TokenSign, At
<1>4. CASE EditWrite(w) \/ EraseWrite(w)
    BY <1>2, <1>4, QuietEnd DEF EditWrite, EraseWrite, Change, At
<1> QED
    BY <1>2, <1>3, <1>4, UpdateCalm, LessCalm, JoinInsertCalm, SendEnterCalm, LookupCalm
    DEF Continue

LEMMA CalmHolds == Spec => []CalmInv
<1>1. Init => CalmInv
    <2> SUFFICES ASSUME Init PROVE Calm
        BY DEF CalmInv
    <2>1. DOMAIN rooms = {} /\ DOMAIN participants = {} /\ \A w \in Workers : req[w] = Idle
        BY DEF Init
    <2> QED
        BY <2>1 DEF Calm, Alone, RowIsFresh, IsNew, RowSteps, Idle, OneRow, ActiveOf
<1>2. IInv /\ CalmInv /\ Next => CalmInv'
    <2> SUFFICES ASSUME IInv, CalmInv, Next, calm' PROVE Calm'
        BY DEF CalmInv
    <2>1. ~Crash
        BY Zenon DEF Crash
    <2> QED
        BY <2>1, ArriveCalm, ContinueCalm DEF Next
<1>3. CalmInv /\ UNCHANGED vars => CalmInv'
    <2> SUFFICES ASSUME CalmInv, UNCHANGED <<rooms, participants, req, calm>> PROVE CalmInv'
        BY DEF vars
    <2>1. Calm => Calm'
        BY DEF Calm, Alone, RowIsFresh, IsNew, Promoted, HasHostRow, OneRow, ActiveOf, At
    <2> QED
        BY <2>1 DEF CalmInv
<1> QED
    BY InvariantHolds, <1>1, <1>2, <1>3, PTL DEF Spec

\* As long as requests do not overlap and nothing fails, whatever the host
\* changes does not undo that the room became active with the host's Join.
THEOREM PromotedApartHolds == Spec => []PromotedApart
<1>1. CalmInv => PromotedApart
    BY DEF CalmInv, Calm, Promoted, PromotedApart, At, Idle
<1> QED
    BY CalmHolds, <1>1, PTL

\* As long as requests do not overlap and nothing fails, one Leave takes a user
\* out of a room that Join or the first message brought them into.
THEOREM OneActiveRowHolds == Spec => []OneActiveRow
<1>1. CalmInv => OneActiveRow
    BY DEF CalmInv, Calm, OneRow, OneActiveRow
<1> QED
    BY CalmHolds, <1>1, PTL

-----------------------------------------------------------------------------
(* Create writes an entry about the room into the audit log, and the foreign *)
(* key of the log, which does not cascade, refuses the DELETE.               *)

\* What is logged stays in the log, and with it its room, whoever deletes what
\* and whatever fails.
LoggedRoomsStay == [][\A r \in audit : r \in audit' /\ r \in DOMAIN rooms']_vars

\* So the host of a room cannot delete it, although "Soft-delete the room" (API.md)
\* is what DELETE is to do: as long as requests do not overlap and nothing fails, a
\* room that was created is there for good.  (Only a Create whose entry is not
\* written, or not yet, leaves a room that DELETE can remove.)
CalmRoomsStay == [][calm' => DOMAIN rooms \subseteq DOMAIN rooms']_vars

\* What makes it inductive: the entry is written, or about to be.
Logged(r) == r \in audit \/ \E w \in Workers : At(w, "create.audit") /\ req[w].room = r
CalmLogged == calm => \A r \in DOMAIN rooms : Logged(r)

\* The rooms and the log of a step other than those that write them.
LEMMA RoomsOnly ==
    ASSUME NEW w \in Workers, Arrive(w) \/ Continue(w),
           ~CreateRoom(w), ~CreateAudit(w), ~DeleteRemove(w)
    PROVE  audit' = audit /\ DOMAIN rooms' = DOMAIN rooms
BY DEF Arrive, RoomRequest, ChatRequest, UpdateRead, DeleteRead, InviteRead, JoinRead,
       LeaveRead, SendRead, ChangeRead, TokenRead, Continue, UpdateWrite, InviteInsert,
       JoinLookup, JoinWait, JoinInsert, JoinPromote, LeaveMark, SendLookup, SendEnter,
       SendInsert, EditWrite, EraseWrite, TokenSign, Change, Overwrite, Write

\* A DELETE takes one room away at most, and none that the log refers to.
LEMMA DeleteTakes ==
    ASSUME NEW w \in Workers, DeleteRemove(w)
    PROVE  /\ audit' = audit
           /\ rooms' = rooms \/ DOMAIN rooms' = DOMAIN rooms \ {req[w].room}
           /\ req[w].room \in audit => rooms' = rooms
BY DEF DeleteRemove, Cascade, Without

LEMMA CreateTakes ==
    ASSUME NEW w \in Workers, CreateRoom(w)
    PROVE  audit' = audit /\ DOMAIN rooms \subseteq DOMAIN rooms'
BY DEF CreateRoom, Write

\* A room whose creation was logged is in the table for ever: no DELETE, retried,
\* late or racing, removes what the log refers to.
THEOREM LoggedRoomsStayHolds == Spec => LoggedRoomsStay
<1>1. ASSUME IInv, [Next]_vars, NEW r \in audit PROVE r \in audit' /\ r \in DOMAIN rooms'
    <2>1. r \in DOMAIN rooms
        BY <1>1 DEF IInv, NoOrphans
    <2>2. ASSUME NEW w \in Workers, Arrive(w) \/ Continue(w)
          PROVE  r \in audit' /\ r \in DOMAIN rooms'
        <3>1. CASE CreateAudit(w)
            BY <1>1, <2>1, <3>1 DEF CreateAudit, CreateLog
        <3>2. CASE DeleteRemove(w)
            BY <1>1, <2>1, <3>2, DeleteTakes
        <3>3. CASE CreateRoom(w)
            BY <1>1, <2>1, <3>3, CreateTakes
        <3> QED
            BY <1>1, <2>1, <2>2, <3>1, <3>2, <3>3, RoomsOnly
    <2>3. CASE Crash \/ UNCHANGED vars
        BY <1>1, <2>1, <2>3 DEF Crash, vars
    <2> QED
        BY <1>1, <2>2, <2>3 DEF Next
<1>2. IInv /\ [Next]_vars => [\A r \in audit : r \in audit' /\ r \in DOMAIN rooms']_vars
    BY <1>1
<1> QED
    BY InvariantHolds, <1>2, PTL DEF Spec, LoggedRoomsStay

LEMMA CalmLoggedStep ==
    ASSUME IInv, CalmInv, CalmLogged, NEW w \in Workers, Arrive(w) \/ Continue(w), calm'
    PROVE  /\ \A r \in DOMAIN rooms' : Logged(r)'
           /\ DOMAIN rooms \subseteq DOMAIN rooms'
<1>1. CASE Arrive(w)
    <2>1. PICK o : NoteBegin(o)
        BY <1>1 DEF Arrive, RoomRequest, ChatRequest, CreateRoom, UpdateRead, DeleteRead,
               InviteRead, JoinRead, LeaveRead, SendRead, ChangeRead, TokenRead
    <2>2. calm /\ \A v \in Workers : req[v] = Idle
        BY <2>1, NoteBeginCalm
    <2>3. DOMAIN rooms \subseteq audit
        BY <2>2 DEF CalmLogged, Logged, At, Idle
    <2>4. CASE CreateRoom(w)
        <3>1. PICK r \in Rooms \ used, u \in Users, t \in Titles, p \in Outcomes \ {"failed"} :
                /\ rooms' = Write(rooms, r, [host |-> u, title |-> t, status |-> "scheduled"])
                /\ IF p = "ok" THEN Go(w, [step |-> "create.audit", room |-> r, user |-> u])
                               ELSE UNCHANGED req
                /\ NoteBegin(p)
            BY <2>4 DEF CreateRoom
        <3>2. p = "ok" /\ Go(w, [step |-> "create.audit", room |-> r, user |-> u])
            BY <3>1, NoteBeginCalm
        <3>3. req'[w] = [step |-> "create.audit", room |-> r, user |-> u]
            BY <3>2 DEF Go, IInv, TypeOK
        <3>4. DOMAIN rooms' = DOMAIN rooms \cup {r} /\ audit' = audit
            BY <2>4, <3>1, CreateTakes DEF Write
        <3> QED
            BY <2>3, <3>3, <3>4 DEF Logged, At
    <2>5. CASE ~CreateRoom(w)
        <3>1. ~CreateAudit(w) /\ ~DeleteRemove(w)
            BY <2>2 DEF CreateAudit, DeleteRemove, At, Idle
        <3> QED
            BY <1>1, <2>3, <2>5, <3>1, RoomsOnly DEF Logged
    <2> QED
        BY <2>4, <2>5
<1>2. CASE Continue(w)
    <2>1. PICK o : Note(o)
        BY <1>2 DEF Continue, CreateAudit, UpdateWrite, DeleteRemove, InviteInsert, JoinLookup,
               JoinWait, JoinInsert, JoinPromote, LeaveMark, SendLookup, SendEnter, SendInsert,
               EditWrite, EraseWrite, TokenSign, Change, Insert
    <2>2. calm /\ \A v \in Workers : v # w => req[v] = Idle
        BY <1>2, <2>1, NoteCalm, OthersIdle DEF CalmInv
    <2>3. ASSUME ~At(w, "create.audit") PROVE DOMAIN rooms \subseteq audit
        BY <2>2, <2>3 DEF CalmLogged, Logged, At, Idle
    <2>4. CASE CreateAudit(w)
        <3>1. PICK p \in Outcomes : CreateLog(req[w].room, p) /\ Note(p)
            BY <2>4 DEF CreateAudit
        <3>2. p = "ok"
            BY <3>1, NoteCalm
        <3>3. audit' = audit \cup ({req[w].room} \cap DOMAIN rooms) /\ rooms' = rooms
            BY <2>4, <3>1, <3>2 DEF CreateAudit, CreateLog, Takes
        <3>4. DOMAIN rooms \subseteq audit \cup {req[w].room}
            BY <2>2 DEF CalmLogged, Logged, At, Idle
        <3> QED
            BY <3>3, <3>4 DEF Logged
    <2>5. CASE DeleteRemove(w)
        <3>1. DOMAIN rooms \subseteq audit
            BY <2>3, <2>5 DEF DeleteRemove, At
        <3>2. DOMAIN rooms' = DOMAIN rooms /\ audit' = audit
            BY <2>5, <3>1, DeleteTakes
        <3> QED
            BY <3>1, <3>2 DEF Logged
    <2>6. CASE ~CreateAudit(w) /\ ~DeleteRemove(w)
        <3>1. ~CreateRoom(w) /\ ~At(w, "create.audit")
            BY <1>2, <2>6 DEF CreateRoom, Continue, UpdateWrite, InviteInsert, JoinLookup,
                   JoinWait, JoinInsert, JoinPromote, LeaveMark, SendLookup, SendEnter,
                   SendInsert, EditWrite, EraseWrite, TokenSign, At, Idle
        <3> QED
            BY <1>2, <2>3, <2>6, <3>1, RoomsOnly DEF Logged
    <2> QED
        BY <2>4, <2>5, <2>6
<1> QED
    BY <1>1, <1>2

\* The room of a host who only ever does one thing at a time, in a server where
\* nothing fails, can be given another title but not be deleted.
THEOREM CalmRoomsStayHolds == Spec => CalmRoomsStay
<1>1. Init => CalmLogged
    BY DEF Init, CalmLogged
<1>2. ASSUME IInv, CalmInv, CalmLogged, [Next]_vars
      PROVE  CalmLogged' /\ (calm' => DOMAIN rooms \subseteq DOMAIN rooms')
    <2>1. CASE Crash
        BY <2>1, Zenon DEF Crash, CalmLogged
    <2>2. CASE UNCHANGED vars
        BY <1>2, <2>2 DEF CalmLogged, Logged, At, vars
    <2>3. ASSUME NEW w \in Workers, Arrive(w) \/ Continue(w)
          PROVE  CalmLogged' /\ (calm' => DOMAIN rooms \subseteq DOMAIN rooms')
        BY <1>2, <2>3, CalmLoggedStep DEF CalmLogged
    <2> QED
        BY <1>2, <2>1, <2>2, <2>3 DEF Next
<1>3. IInv /\ CalmInv /\ CalmLogged /\ [Next]_vars =>
        CalmLogged' /\ [calm' => DOMAIN rooms \subseteq DOMAIN rooms']_vars
    BY <1>2
<1> QED
    BY InvariantHolds, CalmHolds, <1>1, <1>3, PTL DEF Spec, CalmRoomsStay
=============================================================================
