------------------------------ MODULE WebClient ------------------------------
(***************************************************************************)
(* The pages of web/js over what RoomContract promises of the server: a    *)
(* browser enters a room (initRoom), keeps its id in the address, in       *)
(* localStorage and in sessionStorage, and leaves it by the button.        *)
(*                                                                         *)
(* A page is a tab of a browser; the tabs of a browser share its           *)
(* localStorage and with it the X-Participant-ID.  Between two awaits a    *)
(* page runs undisturbed.  Its requests are served in any order, also when *)
(* the page that sent them is gone.                                        *)
(***************************************************************************)
EXTENDS Naturals, FiniteSets

CONSTANTS
    Rooms,         \* room ids
    Participants,  \* browsers, by the participant_id in their localStorage
    Tabs,          \* tabs of each browser
    Guests,        \* participants elsewhere
    Calls,         \* bound: requests under way
    Visits,        \* bound: loads of the room page in one behaviour
    Nothing        \* no room, no tab

ASSUME ConstantsAssumption ==
    /\ Nothing \notin Rooms \cup Tabs
    /\ {"new", "any"} \cap Rooms = {}   \* what a user may ask for instead of a room
    /\ Participants \cap Guests = {}
    /\ Visits \in Nat

VARIABLES
    state, members,  \* the server, see RoomContract
    page,     \* what each tab shows: its address, sessionStorage and variables
    saved,    \* current_room_id in the localStorage of each browser
    call,     \* the requests under way
    visits,   \* loads of the room page so far
    stray,    \* auxiliary: <<p, r>> when something about p in r happened past the pages
    crowded   \* auxiliary: the browsers that had two tabs in rooms at once

server == <<state, members>>
aux == <<stray, crowded>>
vars == <<server, page, saved, call, visits, aux>>

\* Which tokens are out matters to no page.
Server == INSTANCE RoomContract WITH
    Participants <- Participants \cup Guests, tokens <- {}

Pages == Participants \X Tabs
SomeRoom == Rooms \cup {Nothing}

\* The states of initRoom, between its awaits.
RoomSteps == {"load", "joining", "creating", "token", "connecting", "in", "failed"}

\* room: currentRoomId.  media: there is a LiveKit room object.  asked:
\* auxiliary, the room the user wants to be in; "new" until there is a new one.
Page ==
    [step : {"menu"} \cup RoomSteps, url : SomeRoom, session : SomeRoom,
     room : SomeRoom, media : BOOLEAN,
     leave : {"no", "disconnecting", "sent"}, asked : Rooms \cup {"new", "any"}]

Call ==
    [op : {"create", "join", "token", "leave"}, who : Participants, tab : Tabs \cup {Nothing},
     room : SomeRoom, answer : {"pending", "ok", "refused", "failed"}]

Idle == [op |-> "none"]

TypeOK ==
    /\ state \in [Rooms -> {"none", "open", "closed"}]
    /\ members \in [Rooms -> SUBSET (Participants \cup Guests)]
    /\ page \in [Pages -> Page]
    /\ saved \in [Participants -> SomeRoom]
    /\ call \in [Calls -> Call \cup {Idle}]
    /\ visits \in 0 .. Visits
    /\ stray \subseteq Participants \X Rooms
    /\ crowded \subseteq Participants

-----------------------------------------------------------------------------
InRoomPage(g) == page[g].step \in RoomSteps

Waits(g, c) == call[c] # Idle /\ <<call[c].who, call[c].tab>> = g
Orphan(c) == call[c].tab = Nothing

\* The answers the page of a request may see; the connection may give up first.
Seen(c) == IF call[c].answer = "pending" THEN {"failed"} ELSE {call[c].answer}

Forsake(c) == IF call[c].answer = "pending" THEN [call[c] EXCEPT !.tab = Nothing] ELSE Idle
Taken(c) == [call EXCEPT ![c] = Forsake(c)]

\* A page is replaced: nobody waits for its requests any more.
Forsaken(g) == [c \in Calls |-> IF Waits(g, c) THEN Forsake(c) ELSE call[c]]

Send(c, g, op, r) ==
    call' = [call EXCEPT ![c] =
        [op |-> op, who |-> g[1], tab |-> g[2], room |-> r, answer |-> "pending"]]

\* The menu page, in a new tab or after a leave.
Menu ==
    [step |-> "menu", url |-> Nothing, session |-> Nothing, room |-> Nothing,
     media |-> FALSE, leave |-> "no", asked |-> "any"]
RoomPage(url, session, asked) ==
    [Menu EXCEPT !.step = "load", !.url = url, !.session = session, !.asked = asked]

Show(g, new) == page' = [page EXCEPT ![g] = new]

\* Bound: a room is asked for only while there is an id left for it.
Fresh == {r \in Rooms : state[r] = "none"}
MayCreate == Cardinality({c \in Calls : call[c] # Idle /\ call[c].op = "create"
                                        /\ call[c].answer = "pending"}) < Cardinality(Fresh)

Init ==
    /\ Server!Init
    /\ page = [g \in Pages |-> Menu]
    /\ saved = [p \in Participants |-> Nothing]
    /\ call = [c \in Calls |-> Idle]
    /\ visits = 0
    /\ stray = {} /\ crowded = {}

-----------------------------------------------------------------------------
(* The user, outside the rooms. *)

\* The room page is loaded; some other tab may be in a room already.
Visit(g) ==
    /\ visits < Visits /\ visits' = visits + 1
    /\ crowded' = IF \E t \in Tabs \ {g[2]} : InRoomPage(<<g[1], t>>)
               THEN crowded \cup {g[1]} ELSE crowded

\* Mutant: the saved room is not forgotten.
MenuCreateKeeping(g) ==
    /\ page[g].step = "menu"
    /\ Show(g, RoomPage(Nothing, page[g].session, "new"))
    /\ Visit(g)
    /\ UNCHANGED <<server, saved, call, stray>>

\* "Create a room" forgets the saved room.
MenuCreate(g) ==
    /\ page[g].step = "menu"
    /\ Show(g, RoomPage(Nothing, Nothing, "new"))
    /\ saved' = [saved EXCEPT ![g[1]] = Nothing]
    /\ Visit(g)
    /\ UNCHANGED <<server, call, stray>>

\* The older pages lead to room.html without forgetting it.
MenuRegister(g) ==
    /\ page[g].step = "menu"
    /\ Show(g, RoomPage(Nothing, page[g].session, "any"))
    /\ Visit(g)
    /\ UNCHANGED <<server, saved, call, stray>>

\* A room that exists, by its id or by a link.
MenuJoin(g) ==
    /\ page[g].step = "menu"
    /\ \E r \in Rooms \ Fresh : Show(g, RoomPage(r, page[g].session, r))
    /\ Visit(g)
    /\ UNCHANGED <<server, saved, call, stray>>

-----------------------------------------------------------------------------
(* initRoom *)

\* Mutant: the saved room goes before the one in the address.
TargetSavedFirst(g) ==
    IF saved[g[1]] # Nothing THEN saved[g[1]]
    ELSE IF page[g].session # Nothing THEN page[g].session
    ELSE page[g].url

\* The address, then localStorage, then sessionStorage.
Target(g) ==
    IF page[g].url # Nothing THEN page[g].url
    ELSE IF saved[g[1]] # Nothing THEN saved[g[1]]
    ELSE page[g].session

Failed(g) == Show(g, [page[g] EXCEPT !.step = "failed", !.asked = "any"])

\* The LiveKit library does not load; initRoom is never called.
LoadFailed(g) ==
    /\ page[g].step = "load"
    /\ Failed(g)
    /\ UNCHANGED <<server, saved, call, aux, visits>>

\* Mutant: currentRoomId is set when the room has been joined.
InitRoomLate(g) ==
    /\ page[g].step = "load"
    /\ \E c \in Calls :
        /\ call[c] = Idle
        /\ IF Target(g) # Nothing
           THEN /\ Show(g, [page[g] EXCEPT !.step = "joining"])
                /\ Send(c, g, "join", Target(g))
           ELSE /\ MayCreate
                /\ Show(g, [page[g] EXCEPT !.step = "creating"])
                /\ Send(c, g, "create", Nothing)
    /\ UNCHANGED <<server, saved, aux, visits>>

InitRoom(g) ==
    /\ page[g].step = "load"
    /\ \E c \in Calls :
        /\ call[c] = Idle
        /\ IF Target(g) # Nothing
           THEN /\ Show(g, [page[g] EXCEPT !.step = "joining", !.room = Target(g)])
                /\ Send(c, g, "join", Target(g))
           ELSE /\ MayCreate
                /\ Show(g, [page[g] EXCEPT !.step = "creating"])
                /\ Send(c, g, "create", Nothing)
    /\ UNCHANGED <<server, saved, aux, visits>>

\* The rooms a page goes from without telling the server: the one it is in, or is
\* going to be in, and one of whose creation it has not heard yet.
Unattended(g) ==
    {<<g[1], r>> : r \in Rooms \cap
        ({page[g].room}
            \cup (IF page[g].step \in {"load", "failed"} THEN {Target(g)} ELSE {})
            \cup {call[c].room : c \in {d \in Calls : Waits(g, d) /\ call[d].op = "create"}})}

\* saveRoomId and clearSavedRoomId: the address, sessionStorage and localStorage.
Entered(g, r, made) ==
    /\ Show(g, [page[g] EXCEPT !.step = "token", !.room = r, !.url = r, !.session = r,
                               !.asked = IF made \/ @ = "any" THEN r ELSE @])
    /\ saved' = [saved EXCEPT ![g[1]] = r]
Forget(g) == saved' = [saved EXCEPT ![g[1]] = Nothing]

GoHome(g) == Show(g, Menu) /\ Forget(g) /\ call' = Forsaken(g)

\* Mutant: the status of the answer is not looked at.
JoinAnsweredUnchecked(g) ==
    /\ page[g].step = "joining"
    /\ \E c \in Calls :
        /\ Waits(g, c) /\ call[c].op = "join" /\ call[c].answer # "pending"
        /\ Entered(g, call[c].room, FALSE)
        /\ Send(c, g, "token", call[c].room)
    /\ UNCHANGED <<server, aux, visits>>

\* A room that is not there or not active: back to the menu.  Any other failure
\* stays on the page and forgets the room; currentRoomId is kept.
JoinAnswered(g) ==
    /\ page[g].step = "joining"
    /\ \E c \in Calls :
        /\ Waits(g, c) /\ call[c].op = "join"
        /\ \/ /\ "ok" \in Seen(c)
              /\ Entered(g, call[c].room, FALSE)
              /\ Send(c, g, "token", call[c].room)
              /\ UNCHANGED stray
           \/ /\ "refused" \in Seen(c)
              /\ GoHome(g)
              /\ stray' = stray \cup Unattended(g)
           \/ /\ "failed" \in Seen(c)
              /\ Show(g, [page[g] EXCEPT !.step = "failed", !.url = Nothing, !.session = Nothing,
                                         !.asked = "any"])
              /\ Forget(g)
              /\ call' = Taken(c)
              /\ UNCHANGED stray
    /\ UNCHANGED <<server, crowded, visits>>

\* Mutant: the id is taken from any answer, whatever its status.
CreateAnsweredUnchecked(g) ==
    /\ page[g].step = "creating"
    /\ \E c \in Calls :
        /\ Waits(g, c) /\ call[c].op = "create" /\ call[c].answer # "pending"
        /\ Entered(g, call[c].room, TRUE)
        /\ Send(c, g, "token", call[c].room)
    /\ UNCHANGED <<server, aux, visits>>

CreateAnswered(g) ==
    /\ page[g].step = "creating"
    /\ \E c \in Calls :
        /\ Waits(g, c) /\ call[c].op = "create"
        /\ \/ /\ "ok" \in Seen(c)
              /\ Entered(g, call[c].room, TRUE)
              /\ Send(c, g, "token", call[c].room)
           \/ /\ "failed" \in Seen(c)
              /\ Failed(g)
              /\ call' = Taken(c)
              /\ UNCHANGED saved
    /\ UNCHANGED <<server, aux, visits>>

\* With a token it still takes the LiveKit library to get on.
TokenAnswered(g) ==
    /\ page[g].step = "token"
    /\ \E c \in Calls :
        /\ Waits(g, c) /\ call[c].op = "token"
        /\ \/ /\ "ok" \in Seen(c)
              /\ Show(g, [page[g] EXCEPT !.step = "connecting", !.media = TRUE])
           \/ Failed(g)
        /\ call' = Taken(c)
    /\ UNCHANGED <<server, saved, aux, visits>>

\* room.connect; the LiveKit room object stays when it fails.
Connected(g) ==
    /\ page[g].step = "connecting"
    /\ \/ Show(g, [page[g] EXCEPT !.step = "in"])
       \/ Failed(g)
    /\ UNCHANGED <<server, saved, call, aux, visits>>

-----------------------------------------------------------------------------
(* Leaving by the button, which works in every state of the page. *)

\* The server is told, if the page knows its room.
Notify(g) ==
    IF page[g].room = Nothing
    THEN GoHome(g) /\ stray' = stray \cup Unattended(g)
    ELSE /\ \E c \in Calls : call[c] = Idle /\ Send(c, g, "leave", page[g].room)
         /\ Show(g, [page[g] EXCEPT !.leave = "sent", !.media = FALSE])
         /\ UNCHANGED <<saved, stray>>

LeaveClick(g) ==
    /\ InRoomPage(g)
    /\ page[g].leave # "disconnecting"
    /\ IF page[g].media
       THEN /\ Show(g, [page[g] EXCEPT !.leave = "disconnecting"])
            /\ UNCHANGED <<saved, call, stray>>
       ELSE Notify(g)
    /\ UNCHANGED <<server, crowded, visits>>

\* The end of room.disconnect, and of the hangup before it.
LeaveDisconnected(g) ==
    /\ page[g].leave = "disconnecting"
    /\ Notify(g)
    /\ UNCHANGED <<server, crowded, visits>>

\* Whatever the answer, to one request or another, the page forgets the room and
\* goes to the menu.
LeaveAnswered(g) ==
    /\ \E c \in Calls :
        /\ Waits(g, c) /\ call[c].op = "leave"
        /\ GoHome(g)
        /\ stray' = IF Seen(c) = {"failed"} THEN stray \cup Unattended(g) ELSE stray
    /\ UNCHANGED <<server, crowded, visits>>

(* Leaving otherwise: the tab is closed (with its sessionStorage), taken     *)
(* elsewhere, or reloaded.  The pages have no handler for that.              *)
GoAway(g) ==
    /\ InRoomPage(g)
    /\ \E kept \in {Nothing, page[g].session} : Show(g, [Menu EXCEPT !.session = kept])
    /\ call' = Forsaken(g)
    /\ stray' = stray \cup Unattended(g)
    /\ UNCHANGED <<server, saved, crowded, visits>>

Reload(g) ==
    /\ InRoomPage(g)
    /\ Show(g, RoomPage(page[g].url, page[g].session, page[g].asked))
    /\ call' = Forsaken(g)
    /\ stray' = stray \cup {x \in Unattended(g) : x[2] # Target(g)}
    /\ Visit(g)
    /\ UNCHANGED <<server, saved>>

-----------------------------------------------------------------------------
(* The server, one step of RoomContract for a request. *)

\* An answer that nobody waits for is dropped.
Reply(c, answer, r) ==
    call' = [call EXCEPT ![c] = IF Orphan(c) THEN Idle
                                ELSE [@ EXCEPT !.answer = answer, !.room = r]]

\* Something happens that no page will account for.
Past(c, r, is) == stray' = IF is THEN stray \cup {<<call[c].who, r>>} ELSE stray

\* Executed; the answer may get lost.  (A host with an unusable name is not in
\* the room the answer speaks of.)
ServeCreate(c) ==
    /\ call[c].op = "create"
    /\ \E r \in Fresh, M \in {{call[c].who}, {}}, answer \in {"ok", "failed"} :
        /\ Server!Open(r, M)
        /\ Reply(c, answer, r)
        /\ Past(c, r, Orphan(c) \/ answer = "failed" \/ M = {})

ServeJoin(c) ==
    /\ call[c].op = "join"
    /\ LET r == call[c].room IN
       IF state[r] = "open"
       THEN \E answer \in {"ok", "failed"} :
            /\ Server!Enter(r, call[c].who)
            /\ Reply(c, answer, r)
            /\ Past(c, r, Orphan(c) \/ page[<<call[c].who, call[c].tab>>].leave # "no")
       ELSE Reply(c, "refused", r) /\ UNCHANGED <<server, stray>>

ServeToken(c) ==
    /\ call[c].op = "token"
    /\ Reply(c, IF state[call[c].room] = "open" THEN "ok" ELSE "refused", call[c].room)
    /\ UNCHANGED <<server, stray>>

ServeLeave(c) ==
    /\ call[c].op = "leave"
    /\ Server!Depart(call[c].room, call[c].who)
    /\ Reply(c, "ok", call[c].room)
    /\ stray' = IF Orphan(c) THEN stray \cup {<<call[c].who, call[c].room>>}
                ELSE stray \ {<<call[c].who, call[c].room>>}

Serve(c) ==
    /\ call[c] # Idle /\ call[c].answer = "pending"
    /\ ServeCreate(c) \/ ServeJoin(c) \/ ServeToken(c) \/ ServeLeave(c)
    /\ UNCHANGED <<page, saved, crowded, visits>>

\* The request has no effect.  (Join answers "room not found" to any error of
\* its first statement.)
Fail(c) ==
    /\ call[c] # Idle /\ call[c].answer = "pending"
    /\ \E answer \in IF call[c].op = "join" THEN {"refused", "failed"} ELSE {"failed"} :
        Reply(c, answer, call[c].room)
    /\ UNCHANGED <<server, page, saved, aux, visits>>

\* Participants elsewhere.  Bound: the browsers meet them in rooms of theirs.
Elsewhere ==
    /\ \E o \in Guests, r \in Rooms :
        \/ MayCreate /\ Cardinality(Fresh) > 1 /\ Server!Open(r, {o})
        \/ o \in members[r] /\ Server!Depart(r, o)
    /\ UNCHANGED <<page, saved, call, visits, aux>>

-----------------------------------------------------------------------------
User(g) ==
    \/ MenuCreate(g) \/ MenuRegister(g) \/ MenuJoin(g)
    \/ LeaveClick(g) \/ GoAway(g) \/ Reload(g)

Script(g) ==
    \/ LoadFailed(g) \/ InitRoom(g) \/ JoinAnswered(g) \/ CreateAnswered(g)
    \/ TokenAnswered(g) \/ Connected(g) \/ LeaveDisconnected(g) \/ LeaveAnswered(g)

Next ==
    \/ \E g \in Pages : User(g) \/ Script(g)
    \/ \E c \in Calls : Serve(c) \/ Fail(c)
    \/ Elsewhere

Spec == Init /\ [][Next]_vars

-----------------------------------------------------------------------------
\* Who has gone from their rooms by the button, whatever state the page was in
\* and whichever answers got lost on the way in, is in none of them; exempt are
\* rooms that were left otherwise, or by a request served out of turn.
LeaversAreOut ==
    \A p \in Participants, r \in Rooms :
        /\ \A t \in Tabs : ~InRoomPage(<<p, t>>)
        /\ \A c \in Calls : call[c] # Idle => call[c].who # p
        /\ p \notin crowded /\ <<p, r>> \notin stray
        => p \notin members[r]

\* Who is connected to the media of a room is among its participants, as long as
\* the browser has one tab in rooms and no request was served out of turn.
ConnectedAreMembers ==
    \A g \in Pages :
        /\ page[g].step = "in" /\ page[g].media /\ page[g].leave = "no"
        /\ g[1] \notin crowded /\ <<g[1], page[g].room>> \notin stray
        => g[1] \in members[page[g].room]

\* A page enters the room that its user asked for, also after a reload, whatever
\* other tabs have saved meanwhile; who asked for a new room and has no other
\* tab in a room gets a new one.
RightRoom ==
    \A g \in Pages : page[g].step \in {"token", "connecting", "in"} =>
        /\ page[g].asked \in Rooms => page[g].room = page[g].asked
        /\ page[g].asked = "new" => g[1] \in crowded
=============================================================================
