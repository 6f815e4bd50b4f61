# Vibemeet in TLA+

Models of the Vibemeet server (Go, PostgreSQL, Redis, LiveKit), the runs that
check them with TLC, and theorems about them checked by TLAPS. Every definition
is translated from the source; `PROJECT.json` gives, definition by definition,
the lines it stands for.

## 1. What the system is

A video-conference server. A browser talks JSON over HTTP to a Gin server; media
goes from browser to LiveKit, which trusts tokens the server signs. The server
keeps no state of its own between requests except that of the screen share:
everything else is rows in PostgreSQL and keys in Redis. No handler opens a
transaction. A handler is therefore a sequence of autocommitted statements, and
whatever it has to guarantee it must guarantee against the statements of every
other request, against the failure of any statement, and against a crash between
any two. That is the subject of nearly every module.

| Component | State | Operations | Interacts with | What makes it correct |
|---|---|---|---|---|
| Anonymous rooms (`service/anonymous_room.go`) | `anonymous_rooms.status`; `anonymous_participants` rows with role and `left_at` | Create, Join, Leave, reads | tokens, chat (by room id only), web client | one host; a room ends when and only when it is empty; an ended room stays closed; a participant can always leave |
| Anonymous media (`service/anonymous_media.go`) | none; creates missing rooms | GetToken | anonymous rooms, LiveKit | no token for an ended room, no resurrection of a room |
| Anonymous chat (`repository/anonymous_chat.go`) | Redis sorted set per room, 6 h sliding expiry | SendMessage, GetMessages, DeleteMessage | nothing checks the room | a deleted message stays deleted, history expires as a whole |
| Rate limiter (`middleware/rate_limit.go`) | Redis counter per client address, expiry | GET, INCR, EXPIRE | in front of register and login | bounded overshoot; nobody locked out for ever |
| Accounts and sessions (`service/auth.go`) | `users`, `user_sessions` | Register, Login, RefreshToken, ValidateToken (Logout is not routed) | settings, middleware | one account per email; a rotated refresh token is dead; a login is not lost by a refresh |
| Profile and settings (`service/user.go`) | `users`, `user_settings` | UpdateMe, GetSettings (creates defaults), UpdateSettings | whole-row updates shared with Login | no lost update, one settings row |
| Persistent rooms (`service/room.go`) | `rooms`, `room_participants`, `room_invites`, `waiting_room_entries` | List, Update, Delete, CreateInvite are routed; Create, Join, Leave are not | audit log, chat, media | only the host changes a room; no update overwrites a promotion |
| Media tokens of persistent rooms (`service/media.go`) | none | GetToken (reads the room, signs); not routed | persistent rooms | no token for a room that is gone |
| Persistent chat (`service/chat.go`) | `chat_messages` | Send, Get, Edit, Delete | persistent rooms | only the author edits, deleted stays deleted |
| Server screen share (`handler/screen_share.go`, `service/screen_capture.go`, `service/webrtc_service.go`) | maps of peer connections and ICE candidates under a mutex; a registry of connections; an unsynchronised singleton stream | HandleOffer, HandleICE, GetICE, HandleHangup, callbacks of Pion | web client polls it | each peer's stream lives as long as the peer, nothing leaks |
| Web client: entering and leaving (`web/js`) | address, room id and participant id in browser storage, page variables | create, join, connect, leave | rooms and their tokens | the server's view and the client's agree after every leave |
| Web client: screen button (`web/js/room.js`) | a peer connection, the id of its session, a LiveKit track, a flag | start, stop, whatever ends a share | server screen share, LiveKit | what the button shows as stopped has stopped |
| Web client: microphone, camera, chat panel, layout | LiveKit's publications | | LiveKit, chat | |
| Statistics, audit log | append-only tables | insert, read | | single statements |
| Configuration, migrations, wiring, middleware, deployment | | | | no state that requests share |

Hard behaviours, and where they bite, are the `hazards` of `PROJECT.json`.

## 2. Modules

### AnonymousRoom: rooms without accounts, and their media tokens

State. `status` is the column of `anonymous_rooms` (with `"none"` for "no row"),
`rows` is the table `anonymous_participants` in insertion order, `tokens` the
LiveKit tokens handed out, and `req[w]` the request goroutine `w` is serving: the
statement it executes next and the ids it carries. Display names, titles and
timestamps are left out; `left_at` is the Boolean "not NULL".

Actions. One per statement:

| Handler | Actions | Code |
|---|---|---|
| Create | `CreateRoom`, `CreateHost` | `service/anonymous_room.go` 38-85 |
| Join | `JoinStatus`, `JoinLookup`, `JoinInsert` | 91-125 |
| Leave | `LeaveMark`, `LeaveCount`, `LeaveEnd` | 127-150 |
| GetToken | `TokenRead`, `TokenInsert`, `TokenSign` | `service/anonymous_media.go` 36-104 |
| process death | `Crash` | |

`Outcomes` says how a statement may end when `Faults` is TRUE: executed,
failed without effect, or executed with its answer lost, in which case the
handler takes its error path although the table has changed. A participant
INSERT can be refused even without faults (`InsertOutcomes`), because
`normalizeDisplayName` cuts the name at 50 bytes and may leave half a character.
`LeftAtCollides` is the one constraint of the schema that matters:
`UNIQUE (room_id, participant_id, left_at)` accepts several active rows (NULLs
are distinct) but not the common timestamp `MarkParticipantLeft` gives them.

Clients know a room id from the answer to Create, so no other request names a
room while its Create is still at the host INSERT (`Unannounced`), but GetToken
may be called with any id, and creates the room.

### RoomContract, AnonymousRoomRefinement: what a room promises

`RoomContract` has one step per request: open a room with its host in it, enter
an open room, depart (the last one closes the room), grant a token in an open
room. `AnonymousRoomRefinement` maps the tables to it: a Leave that has marked
the last participant but has not yet written the status has closed the room
already (`Closing`), and a room whose Create is under way is not there yet.

Two auxiliary variables observe the behaviour: `alone` remembers whether requests
have ever overlapped, `faultless` whether every step so far was one the handlers
could take where nothing fails (a step of the same module with `Faults` FALSE,
`WithoutFaults`). While both hold the behaviour is `Undisturbed`:
`RefinesContract` says that every such step is a step of the contract or none,
`LeaveStaysPossible` that nobody has two active rows. What happens after the first
overlap or failure is left open, and the two violations of the rooms are exactly
what concurrency takes away from the contract.

### RateLimit: the limiter in front of register and login

State: `counter[k]` and `ttl[k]` are a Redis key and whether it has an expiry;
`faulted` records that some command failed. `Check` is GET and the comparison,
`Increment` is INCR with up to `Retries` repetitions (go-redis repeats a command
whose answer it lost), `Expire` is EXPIRE, whose error the code ignores,
`WindowEnds` the expiry by Redis. GET failing answers 500 and changes nothing,
so it is not a step. All executions of one INCR are a single step, although
other commands may come between them on the server. Nothing is lost by it: a GET
in between that let its client through would have done so before the first
execution, and one that refused it would have after the last; another INCR gets
an answer above 1 there, as it does after the last; and after an expiry in
between only the executions that follow it are left to count.

### Accounts: registration, login, refresh tokens, profile, settings

State. `users`, `settings` and `sessions` are the three tables, functions from
their keys; a refresh token is identified with its hash. `req[w]` is the request
of goroutine `w`: the next statement and what the handler has read so far.
Two variables are auxiliary: `from` in a session (the token a refresh exchanged
for it) and `faulted` (some statement has failed, or the process has crashed),
which lets a property speak of the behaviours without faults.

| Handler | Actions | Code |
|---|---|---|
| Register | `RegisterLookup`, `RegisterInsert`, then the settings as a GET | `service/auth.go`, `repository/user.go` |
| Login | `LoginRead`, `LoginSession`, `LoginUpdate` | `service/auth.go` |
| RefreshToken | `RefreshLookup`, `RefreshRevoke`, `RefreshSession` | `service/auth.go`, `repository/session.go` |
| UpdateMe | `ProfileRead`, `ProfileWrite` | `service/user.go` |
| GET, PUT settings | `SettingsRequest`, `SettingsRead`, `SettingsInsert`, `SettingsWrite` | `service/user.go` |
| process death | `Crash` | |

Login and UpdateMe write the whole row of users they read before (`row` in their
request), whatever has happened to it since. Passwords, expiry of tokens and
`is_active` only add refusals that change nothing and are left out;
`last_login_at` is no field because nothing reads it. Access tokens are checked by
signature alone, so `Authenticated(u)` only asks that one was ever issued. Logout
is not routed and not modelled.

### AnonymousChat: the messages of one anonymous room

State. `history` is the sorted set of the room's key, `expires` whether the key
has a time to live, `author` who wrote each message, `req[w]` the request of
goroutine `w` with the command it executes next. A message is a number: its
place in the order of the set, which is the millisecond of the server's wall
clock and then the bytes of its JSON. Numbers are taken in any order, because
neither of the two has to grow. `deleted`, `doubtful` and `faulted` are auxiliary:
messages answered as deleted, messages whose ZADD was not answered at first,
and whether anything has failed.

| Handler | Actions | Code |
|---|---|---|
| SendMessage | `SendBegin`, `SendAdd` (ZADD), `SendExpire` (EXPIRE) | `handler/anonymous_chat.go` 39-100, `repository/anonymous_chat.go` 62-93 |
| DeleteMessage | `DeleteCheck` (the author, among the newest), `DeleteFind` (ZRANGE), `DeleteRemove` (ZREM) | `handler/anonymous_chat.go` 132-186, `repository/anonymous_chat.go` 162-194 |
| GetMessages | `Newest`, read by `DeleteCheck` | `repository/anonymous_chat.go` 95-125 |
| Redis | `KeyExpires`; `Remove` drops an empty key with its time to live | |
| process death | `Crash`: the requests end, Redis keeps the set | |

Texts and names are left out. The room is only asked for its existence, and its
row is never deleted, so that the status of the room plays no part. Requests that
are refused (403, 404, an error of the first read) change nothing and are no
steps. A command that fails may be repeated by go-redis or given up
(`RepeatOrGiveUp`), also when only its answer was lost.

### ScreenShare: the server's own screen

State. `peers` and `candidates` are the two maps of the handler, `registered` the
registry of the WebRTC service, `open` the connections not closed, `gathering`
those of which Pion may still report candidates. `cancel` and `stream` are the two
fields of the one capture service; `running` the captures that have neither been
cancelled nor closed. An offer gives its name to its capture and its connection.
Auxiliary: `begun`, `answered`, `unheard` (the answer got lost, so that nobody
knows the id), `hungup` and `early` (hung up while candidates were being gathered),
and `apart` (no session has overlapped another, and no stray hangup has come during
one). A hangup is stray when it ends no session: HandleHangup asks of the id only
that it is well formed, so a client may repeat a hangup, or name an id that was
never given out (`Unknown`), and StopCapture is called all the same. Ids are
random: the id of an offer whose answer has not arrived is named by nobody, and
which of the unused ones an offer gets (`NewId`) makes no difference.

| Handler | Actions | Code |
|---|---|---|
| HandleOffer | `OfferCapture`, `OfferStream` (the capture service), `OfferConnect` with `Create` (the registry), `OfferTracks`, `OfferNegotiate`, `OfferAnswer` | `handler/screen_share.go` 66-319, `service/screen_capture.go` 39-168, `service/webrtc_service.go` |
| HandleHangup | `Hangup`, of any id, then the cleanup | `handler/screen_share.go` 376-386 |
| cleanup | `CleanupForget` (under the mutex), `CleanupClose`, `CleanupTracks`, `CleanupCancel`, `CleanupStop` | `handler/screen_share.go` 394-423, `service/screen_capture.go` 170-180 |
| callbacks of Pion | `Candidate`, `GatheringComplete`; `Closed`, `Failed`, which take the connection out of the registry | `handler/screen_share.go` 158-171, `service/webrtc_service.go` |

The steps between two accesses of shared state are one action: everything from
the remote to the local description either succeeds or runs into the same
cleanup. No driver is registered for `GetDisplayMedia`, so every capture is the
custom one; audio of the server always answers an error. HandleICE and GetICE
only read the maps and are no actions; that they find the connection of a viewer
is `ViewersAreKnown`. A connection that fails leaves the registry and nothing else:
the id still leads to it and the capture runs on until somebody hangs up. All
state is in memory, so a crash of the process is the initial state again and is
left out.

### ScreenSessions, ScreenShareRefinement: what a session of the screen share is

`ScreenSessions` is the abstract specification, one state per offer: none, opening
(the server has a connection the client has no id of), live, ending (a hangup has
named it), over. `ScreenShareRefinement` reads it off the maps, the connections and
the requests (`Session`); `RefinesSessions` needs no exemption: it holds whatever
overlaps and fails, because each offer has a connection and an id of its own. What
sessions do share, the capture service, is not part of it, and
`ViewersAreServed` is violated there.

### ScreenClient: the screen button of the room page

Composes the button with `ScreenSessions`, the server of which a page sees no
more. State. `pc`, `peerId`, `track` and `sharing` are the page's variables
`serverScreenSharePC`, `serverScreenSharePeerId`, `screenTrack` and
`isScreenSharing`. `start[o]` is the await at which the click handler of start `o`
is suspended, `stop[s]` a stop that waits for the answer to its hangup; several of
both may be suspended at once. `open`, `remote`, `viewed` say of the connections
whether the page has closed them, whether they have the server's answer, whether
their picture has not ended; `captured` the screens the browser shares over
LiveKit; `place` how far the page is (before the LiveKit room, in it, leaving,
left, gone). Auxiliary: `tangled` (a handler began while another was suspended),
`lost` (a hangup did not reach the server), `strayed` (the page was left without
the code that ends a share).

| Code | Actions |
|---|---|
| the click | `ClickAgain`, `ClickStart`, `ClickStop` |
| `startServerScreenShare` | `Created`, `Served` (the server), `OfferFailed`, `OfferAnswered`, `Described`, with `Catch` for its errors |
| `startLiveKitScreenShare` | `Asked`, `Published`, with `GiveUp` for its errors |
| `stopAllScreenSharing`, and its like in the leave button | `BeginStop`, `HangupServed`, `ResumeStop`, `FinishStop` |
| what else stops a share | `ConnectionLost`, `TrackEnded`, `BrowserStops` |
| the page | `EnterRoom`, `LeaveClick`, `Disconnected`, `GoAway` |

The polling of candidates only reads: the function that would add them does not
exist, and the error is caught. The click handler returns early on errors about the
room or the authentication (`room.js` 1860-1863), which nothing behind an offer
answers: the routes have no middleware of that kind; it is left out. What the
exemptions stand for:

* `tangled`. While the browser's picker is open or the share is being published,
  the button still says "not sharing" and there is no connection, so a second
  click starts a second share; two screens are captured and only the later is
  remembered. A click, or a picture that ends, during a start may also stop the
  server's share under it, and the start then falls back to LiveKit although the
  user has stopped.
* `strayed`. Going to the menu by the browser, or closing the tab, sends no hangup;
  and the leave button of a page without a LiveKit room (media failed) does not
  either, although the click had started a session.
* `lost`. The hangup is sent once and its error is only logged.

### PersistentRoom: rooms of accounts, and their chat

State. `rooms`, `participants` and `messages` are the tables, functions from the
ids they hold; `waiting` and `invites` are sets of pairs of a room and a user
(with `tokens` they are `admission`: who waits, is invited, may enter the call);
`audit` the rooms `audit_log` refers to; `req[w]` the request of goroutine `w`.
`tokens` are the media tokens ever signed. Auxiliary: `used` (ids are random and
never given twice) and `calm` (no two requests have overlapped and no statement has
failed).

| Operation | Actions | Code |
|---|---|---|
| Create | `CreateRoom`, `CreateAudit` | `service/room.go`, `repository/room.go` |
| Update, Delete, CreateInvite | `UpdateRead`, `UpdateWrite`; `DeleteRead`, `DeleteRemove`; `InviteRead`, `InviteInsert` | the same |
| Join | `JoinRead`, `JoinLookup`, then `JoinWait`, or `JoinInsert` and `JoinPromote` | the same |
| Leave | `LeaveRead`, `LeaveMark` | the same |
| SendMessage | `SendRead`, `SendLookup`, `SendEnter` (makes the sender a participant), `SendInsert` | `service/chat.go`, `repository/chat.go` |
| EditMessage, DeleteMessage | `ChangeRead`, `EditWrite`, `EraseWrite` | the same |
| GetToken | `TokenRead`, `TokenSign` | `service/media.go` |
| process death | `Crash` | |

Only List, Update, Delete and CreateInvite have routes; the rest are the services
as they are written, which the chat and media handlers would sit on. The waiting
room is on in every room Create makes and nothing turns it off, so a guest who
joins waits and only the host enters by Join; a guest gets a participant's row by
the first message. The foreign keys are part of the actions: `Cascade` is ON
DELETE CASCADE, an INSERT whose room or sender is gone is refused, and a room the
audit log refers to cannot be deleted. The two reads of an edit (the message, the
row of its sender) are one, since neither ever changes owner. A token is signed
without the database, for whoever asks about a room that exists, and nothing
takes it back. Texts and settings of a room other than its title are left out.

### WebClient: a browser enters and leaves rooms

Composes the pages of `web/js` with `RoomContract`, the server of which they see
one step for each request. State. `page[<<p, t>>]` is tab `t` of browser `p`: where
`initRoom` waits (`step`), the room in its address, in its `sessionStorage` and in
`currentRoomId`, whether it has a LiveKit room object, how far the leave button has
got, and which room its user asked for (auxiliary). `saved[p]` is `current_room_id`
in the `localStorage` the tabs share, as they share the `X-Participant-ID`. `call[c]`
is a request under way with its answer; a request whose page is gone has no tab and
is served all the same. Auxiliary: `crowded`, browsers that had two tabs in rooms
at once, and `stray`, pairs of a browser and a room where something happened that
no page accounts for: the tab was closed, the request or answer of a Leave or
Create was lost, a request was served after its page had begun to leave.

| Code | Actions |
|---|---|
| `MainMenu.js`, `CreateRoom.js` | `MenuCreate`, `MenuJoin`; `MenuRegister` |
| `initRoom` | `LoadFailed`, `InitRoom`, `JoinAnswered`, `CreateAnswered`, `TokenAnswered`, `Connected` |
| leave button | `LeaveClick`, `LeaveDisconnected`, `LeaveAnswered` |
| the browser | `GoAway`, `Reload`; `Fail` |
| the server | `ServeCreate`, `ServeJoin`, `ServeToken`, `ServeLeave` |
| other browsers | `Elsewhere` |

Between two awaits a page runs undisturbed. Which tokens are out plays no part, so
the contract is instantiated without them. A second click while the media
connection is being closed has the effect of one right after it. The screen
button is `ScreenClient`; the other tracks and the chat are left out.

## 3. Runs

| Run | Instance | Result |
|---|---|---|
| `rooms` | 1 room, 2 participants, 2 goroutines, 4 rows, faults, fairness | passes |
| `rooms_ended_empty` | 2 goroutines, no faults | violated |
| `rooms_leave_possible` | 2 goroutines, no faults | violated |
| `rate_limit` | 2 clients, 3 goroutines, limit 2, 1 repetition | passes |
| `accounts` | 1 address, 2 user ids, 2 names, 3 tokens, 3 goroutines, faults, symmetry | passes |
| `accounts_login` | 1 address, 1 user, 2 names, 2 tokens, 2 goroutines | violated |
| `chat` | 2 messages, 2 participants, page of 1, 3 goroutines, faults, fairness | passes |
| `persistent` | 1 room, 2 users, 2 titles, 2 rows, 1 message, 2 goroutines, faults, symmetry | passes |
| `screen` | 2 offers, 1 unknown id, 2 goroutines, fairness | passes |
| `screen_others` | 2 offers, no unknown ids, 2 goroutines | violated |
| `screen_button` | 2 starts, 2 stops that wait at once, symmetry | passes |
| `web_client` | 2 rooms, 1 browser with 2 tabs, 1 participant elsewhere, 2 requests under way, 3 loads of the room page, symmetry | passes |

Bounds. `MaxRows` caps the rows of a behaviour: a request that may insert starts
only while the inserts under way leave room. Four rows suffice for a host, a
participant, a duplicate and a return. In `rooms` two goroutines are enough: every
property there relates the statements of two requests, whole requests of third
parties may run between any two statements of a suspended one, and the theorems
hold for any number. Rooms do not interact (every statement names one room), so
one room is enough, for the contract too. Participants are compared for equality
only: two distinguish "mine" from "theirs". In `rate_limit` a limit of 2 makes
counters below, at and above the limit, with three requests in flight. In
`accounts` one address with two ids is what a double registration takes, three
tokens are a login and two refreshes of it (racing, or one after the other), and
the third goroutine may register, or write a row it read long ago, meanwhile. In
`chat` two messages with a page of one make a message that GET does not list any
more; three goroutines let two deletes race with each other and with the ZADD and
EXPIRE of a send. In `screen` two offers are two viewers, or a viewer and an offer
that fails; the requests of an id are few (its offer and its hangups), so two
goroutines reach every pair of them; one unknown id, named any number of times,
stands for all, since nothing is ever kept under one. `screen_others` leaves it out,
to find two viewers rather than one viewer and a stray hangup. In `screen_button` two starts are a share and
the one that follows it, or two that get into each other's way; a second stop may
wait beside the first, by button, ended picture or leave. In `persistent` two rows
are a host and a guest, two of one user, or a row and the one that follows it;
every property about two requests is already about the statements of two
goroutines. In `web_client` three loads are a room entered in each tab and one of
the tabs reloaded, or a room left, left late and entered again; two requests are a
Join and the Leave that is sent before its answer. The participant elsewhere opens
rooms that outlast a leave and can close them under a page. The five runs `chat`,
`persistent`, `screen_others`, `screen_button` and `web_client` switch
the deadlock check off because a behaviour that has used up its ids, messages,
offers or loads, with nothing under way, stops.

What the passing runs show.

* `OneHost`: no combination of failing INSERTs, crashes and returns makes a
  second host row.
* `EmptyWhenCounted`: when a Leave is about to end a room, all who are in it came
  in after its count; nobody who was in the room at the count is put out by it.
* `NoEntryAfterEnd`: an ended room is never reopened, though GetToken creates
  rooms on any error of its SELECT; after the requests that saw the room active
  are through, nobody enters and no token is handed out.
* `EmptiedRoomEnds`: as long as nothing fails an emptied room is ended, even when
  the last two leave at once (each counts after its own mark, so the later count
  is zero).
* `RefinesContract`, `LeaveStaysPossible`: until two requests overlap or something
  fails, the handlers do what the contract says, and nobody has two active rows.
* `OneAccountPerEmail`: the unique index, not the lookup, keeps racing
  registrations apart, and no whole-row write brings an address back.
* `SpentTokenIsDead`, `RotatedIsRevoked`, `RotationKeepsLogin`: a refresh kills the
  token it was given and no other. Two refreshes racing with one token both
  succeed (the lookup and the UPDATE are two statements), which is why a token
  counts as spent only when no refresh that found it alive is under way.
* `DefaultsNeverOverwrite`: the creation of default settings never undoes a PUT.
* `HistoryHasWindow`, `Evaporates`: without faults every chat gets its six hours,
  although deletes and expiry take the key away between ZADD and EXPIRE.
* `DeletedIsGone`: three commands make up a DELETE, and nothing that happens
  between them or in other requests brings the deleted message back, except the
  repetition of a ZADD that was not answered.
* `NothingIsLeft`: wherever an offer fails, however often and by whom it is hung
  up, neither a connection nor an id that leads to one outlives the session.
  One thing does: a candidate that Pion reports after the cleanup has deleted the
  entry and before it has closed the connection makes the entry again (`early`).
* `HangupEnds`: whatever races with it, a hangup ends its session for good, in the
  maps, the connections and the registry: the id leaves the map under the mutex
  before the connection is closed, and only who found it closes it.
* `RefinesSessions`: an answered session ends by a hangup of its own id and by
  nothing else, and none comes back. A session whose answer got lost stays
  "opening" for ever: the model shows the leak, which no code prevents.
* `ServedApart`, `NoCaptureLeftApart`: for one session at a time the capture
  singleton does its work, also when offers fail on any of their paths, and
  whatever stray hangups come before and after it. One that comes during a session
  stops its capture, also that of a lone viewer: that is the same line of code as
  the finding on `ViewersAreServed`, and why `apart` ends with it.
* `DeletedIsOver`: a room that was deleted between the statements of any request
  does not come back with a row that is written late, gets no row of any table,
  and no token but the one that was being signed.
* `ActiveHasHost`, `PromotedApart`, `OneActiveRow`: whole-row updates of a room may
  take back its promotion, but only when requests overlap or a statement fails;
  they never promote a room its host has not entered.
* `MessagesKept`: an edit written after a delete does not bring the message back.
* `LeaversAreOut`: whoever has left by the button is out of every room, from
  whatever state of the page, whether or not the answer to the Join arrived:
  `initRoom` sets `currentRoomId` before it sends the Join. The exemptions
  (`stray`) are the cases in which the button does not help: the Leave was lost,
  or served before the Join it was meant to undo.
* `ConnectedAreMembers`: media is connected only for participants, while a browser
  has one tab in rooms and no request was served out of turn.
* `RightRoom`: the shared storage never leads a page into another room than its
  user asked for, because the address goes first, and "create" finds an old room
  only if another tab has one.
* `AtRestMeansEnded`: when the button says "not sharing" and no handler is
  suspended, no connection is open, no screen captured and no session live at the
  server, through every failure of a start, a lost connection (which leaves the id
  and the flag, so that the next click still hangs up), ended pictures, fallback.
* `LeaversShareNothing`: the leave button of a connected page ends the session.
* `OvershootBounded`, `WindowOwned`, `RejectionEnds`: see section 5 and the
  comments of the module.

Stated in the proof modules and proved, but not among the runs' properties:
`EndedIsFinal` (the status of an ended room stays), `LeftIsFinal` (the history of a
room is only extended), `EmptiedIsClosing`, `OnlyOpenRoomsAreEntered`,
`EndedRoomsStayEmpty`, `OnlyAuthorsDelete`, `NoOrphans`, `ViewersAreKnown` (ICE
candidates that are posted or polled find the connection), `ExchangesBounded`, and
what is so for good once it is: `StuckForGood`, `HeldForGood`, `LockedOutForGood`,
`UnheardIsKept`, `LostCapturesRun`, `LoggedRoomsStay`, `CalmRoomsStay` (section 5).

What the violations show (`findings`).

* `EndedRoomsAreEmpty`: Join succeeds between Leave's count and its status
  update; the participant sits in an ended room and gets no token.
* `LeaveIsPossible`: two concurrent Joins of one participant make two active
  rows; from then on every Leave of theirs is a 500.
* `LoginKeepsProfile`: a Login that read the row before an UpdateMe writes the old
  name back when it stores the time of the login.
* `ViewersAreServed`: the hangup of one viewer stops the capture of another,
  since StopCapture ends whatever the one capture service remembers. (With unknown
  ids one viewer is enough.)

One more disagreement is a theorem instead of a run. `docs/API.md:176` says of
`DELETE /api/v1/rooms/:id`: "Soft-delete the room." The code executes a DELETE, and
since Create has logged the room in `audit_log`, whose foreign key does not cascade
(`00001_initial_schema.sql:248`), the database refuses it: `CalmRoomsStay`.

## 4. Fairness

The fairness of every module is weak fairness of
`Continue(w)`: the Go scheduler runs a goroutine until its handler returns. No
fairness is assumed of clients (nothing obliges them to send a request) nor of
faults. `RateLimit` and `AnonymousChat` also assume that Redis drops an expired
key (`WindowEnds`, `KeyExpires`), `ScreenShare` that Pion reports a connection that
was closed (`Closed`): its goroutine is scheduled like any other. `PersistentRoom`,
`WebClient` and `ScreenClient` need none: they state no liveness.

`RejectionEnds` holds only while no command has failed: an INCR without its EXPIRE
(the process dies between the two, EXPIRE fails, or go-redis repeats an INCR whose
answer was lost) leaves a counter that never expires.

`Evaporates` is about a chat whose messages have stopped (every message gives the
chat six more hours), which the bound on messages makes the case in every
behaviour. It is stated for behaviours without faults only; a single lost EXPIRE
leaves a chat for ever. `EmptiedRoomEnds` asks for `faultless`, because a failed
count ends the request with 200 and nothing ever repeats it (`CleanupInactiveRooms`
has no caller and `expires_at` is never set).

## 5. Theorems

`AnonymousRoomProofs` proves, for any sets of rooms, participants and goroutines,
any bound and with or without faults: `TypeOK`, `OneHost`, `EmptyWhenCounted`,
`EndedIsFinal`, `LeftIsFinal`, `NoEntryAfterEnd`, and what the last parts of this
section describe. Assumption: `MaxRows` is a natural number and `Faults` a
Boolean, nothing else.

The inductive invariant is

    IInv == TypeOK /\ RowsHaveRooms /\ CreatorAlone /\ OneHost /\ SeenIsPast /\ EmptyWhenCounted

`OneHost` is not inductive: a second host could come from a Create that has its
room but not its host yet, so `CreatorAlone` says such a room has no host row and
no second creator; that holds because a Create picks a fresh id, and freshness
needs `RowsHaveRooms` (the foreign key). `EmptyWhenCounted` needs that rows are
only appended and that a count never lies in the future (`SeenIsPast`). Two
lemmas carry most steps: `QuietStep` (steps that leave the participants alone)
and `InsertStep` (an INSERT that ends its request). The action properties follow
from what a step does to one row (`RowStep`) or to one status (`StatusStep`).

The same module proves `LeaveStaysPossible` and `RefinesContract`, from

    RInv == IInv /\ (Undisturbed => Settled)

`Settled` is what a request served alone may rely on between its statements: the
room it found active is active, the room it counted empty is empty, the
participant it looked for in vain has no row. The contract's steps come out of it
because a step of an undisturbed behaviour is a `CleanSteps` step: each statement
executed and answered. One lemma per kind of step shows both that it keeps
`Settled` and that it maps to a step of the contract or to none.

`RateLimitProofs` proves `TypeOK`, `OvershootBounded` and `WindowOwned` for any
clients, any finite number of goroutines, any limit and any number of
repetitions. The overshoot is not inductive: a request that read a counter below
the limit will add to it whatever it is by then. `Charged` books the cost of
every such request in advance; the induction then needs only that a set of
pending requests is finite and that one request releases its cost when it
counts itself.

`AccountsProofs` proves, for any sets of addresses, ids, names, tokens and
goroutines, without assumptions on them: `TypeOK`, `OneAccountPerEmail`,
`RotatedIsRevoked`, `RotationKeepsLogin`, `SpentTokenIsDead`,
`DefaultsNeverOverwrite` (and `ExchangesBounded`, see below, for finitely many
goroutines). Rows are never deleted and addresses never change
(`Preserved`), so what a request holds stays valid: `RequestsRefer` says the row
it is going to write has the address of the account in the table and the token it
is going to revoke exists. With it every step changes at most one account, and a
new one only under a free address (`UsersChange`), which makes
`OneAccountPerEmail` inductive. `RotatedIsRevoked` is not: between the UPDATE and
the INSERT of a refresh nothing in the tables remembers that the token was
revoked; `RevokedFirst` says so of the request. `SessionsChange` and
`RefreshRequests` say what a step does to a session and which requests may come
to hold a token; the remaining properties follow from them.

`AnonymousChatProofs` proves, for any messages, participants, goroutines and page:
`TypeOK`, `HistoryHasWindow`, `DeletedIsGone`, `OnlyAuthorsDelete`. Assumption:
messages are natural numbers (they are ordered) and the page is at least one.
`DeletedIsGone` is not inductive: a ZADD under way could be the one of a message
already deleted. `FirstTry` says that a message whose ZADD has not been tried yet
is nowhere to be found, and that no other request has it; a later try makes the
message `doubtful`.
`RequestsRefer` says that a DELETE under way is its author's, from the check to
the ZREM: authors never change.

`ScreenShareProofs` proves, for any offers and goroutines: `TypeOK`,
`ViewersAreKnown`, `NothingIsLeft`, `RefinesSessions`, `ServedApart`,
`NoCaptureLeftApart`, `HangupEnds`. Assumptions: no offer is the value that stands
for "no capture", nor an unknown id. `RequestsRefer` ties each request to its connection: an offer
under way has its id for itself and unknown to any client; while it negotiates,
the id is in the map and the connection open; a hangup names an id that was hung
up, or an unknown one; past its first step a cleanup works on an id that has left the map.
`NothingIsLeft` is about sessions at rest and says nothing of the steps that lead
there: `Attended` says of every session nobody can hang up (any more) that
whatever there is of it, some request is going to remove it or to answer the
offer. `RefinesSessions` is proved step by step: a step of a request changes at
most the session of its own offer (`OthersSessions`), and that one as the abstract
specification allows. For `ServedApart` and `NoCaptureLeftApart`, `OneSession` says
what `apart` means in a state: at most one request is under way and one id in the
map, both of the latest capture, which is the one the capture service remembers;
or the request is a stray hangup, and there is nothing it could stop (`Stray`).

`PersistentRoomProofs` proves, for any rooms, users, titles, ids and goroutines,
without assumptions on them: `TypeOK`, `NoOrphans`, `DeletedIsOver`, `ActiveHasHost`,
`MessagesKept`, `PromotedApart`, `OneActiveRow`, `LoggedRoomsStay`, `CalmRoomsStay`.
`NoOrphans` alone is nearly inductive, except that a message is inserted as a row
read long before, which must still be one of the same room (`SenderIsRead`).
`ActiveHasHost` needs to know what stale rows may say: an Update that read
"active" writes it back later, so the request must know that the host has entered
and that the host's row goes only with the room (`ActivityIsRead`), and a Join
promotes with the row it read, whose host must still be the room's
(`HostIsRead`). `Preserved` is what all statements have in common: ids are
never given twice, no row changes what it refers to, and rows go only with their
room. One lemma for each table shows it, `ReferStays` derives from it that the
requests that take no step keep what they hold, and `StepKeeps` leaves three
obligations for each operation. `MessagesKept` follows from what a step does to one
message (`MessageStep`), `DeletedIsOver` from what it does to the tables of a room
that is gone. `PromotedApart` and `OneActiveRow` rest on a second invariant,
`CalmInv == calm => Calm`: one request is under way, the row it read still has the
status of the table (`RowIsFresh`), whom it is going to give a row has none
(`IsNew`), and a room whose host has entered is active or the Join is just about to
make it so (`Promoted`).

`WebClientProofs` proves, for any rooms, browsers, tabs, participants elsewhere
and bounds: `TypeOK`, `RightRoom`, `LeaversAreOut`, `ConnectedAreMembers`.
Assumptions: the value for "no room, no tab" is neither, "new" and "any" are not
rooms, nobody is both a browser of the model and elsewhere, and the number of
loads is natural. The invariant has a part for each page (`PageOK`) and four that
relate pages and server:

    IInv == TypeOK /\ CallsHaveRooms /\ NoneIsEmpty /\ CrowdsAreSeen /\ Attended
            /\ \A g \in Pages : PageOK(g)

For `RightRoom`: a page that has not run waits for nothing (`Blank`), the room asked
for is in the address (`AsAsked`), and who asked for a new one finds nothing old
in the storage unless another tab has put it there (`NothingOld`), which makes the
browser `crowded` (`CrowdsAreSeen`). For the other two, `Attended` is the heart:
whoever the server has in a room has a page that would leave it when its button is
pressed, or falls under an exemption. Around it, `CallsFit` and `RoomFits` say which
answers a page waits for and what it knows of its room, `MadeFor` that a room made
for a page gets known to it, `IsMember` and `IsOut` what an answer will prove. A step
of a page leaves what the others know alone (`PageStep`), a step of the server
changes one room and one answer (`ServerStep`, `EnterKeeps`, `ServeLeaveKeeps`).

`ScreenClientProofs` proves, for any number of starts and of waiting stops: `TypeOK`,
`AtRestMeansEnded`, `LeaversShareNothing`. Assumption: no start is null. The
invariant is

    IInv == TypeOK /\ OneConnection /\ (~tangled => Orderly)

because the page never has a connection open that it does not remember
(`OneConnection`), while the rest holds only until handlers get in each other's way.
`Orderly` says that one handler at most is suspended (`OneAtATime`), that what it may
still do finds the state it was begun in (`NoneYet`: a start has no session before
its answer; `OneScreen`; `StopsFit`: a stop that waits has named the session the
page knows), that the server serves no session but that one (`OneSession`), and
what is left when no handler is suspended (`Quiet`, `Left`). Five lemmas carry the
steps: a start goes on (`GoesOn`) or fails (`CatchStep`), a hangup is sent
(`HangsUp`), a share is over (`Finished`), a stop begins (`BeginStep`).

### Liveness

`EmptiedRoomEnds`, `HangupEnds`, `RejectionEnds` and `Evaporates` are proved for any
values of the constants, but not from `Fairness` as the modules state it: weak
fairness contains ENABLED, which the prover does not know. The theorems take what
fairness says here with ENABLED written out:

    Scheduled == [](\A w \in Workers : <>(req[w] = Idle) \/ <><<Continue(w)>>_vars)

A request can always go on, because each of its statements has an outcome (and
`Continue` a disjunct) for whatever it finds; so `Continue(w)` is enabled exactly
while `w` serves a request, and `Scheduled` is `WF_vars(Continue(w))` of every
`w`. In the same way `TimePasses` is the fairness of `WindowEnds` and `KeyExpires`
(enabled while the key has a time to live) and `CalledBack` the one of `Closed`
(enabled while a closed connection is registered). That these equivalences hold is
the one thing the theorems leave to the reader; TLC checks the four properties
under the fairness itself. `MessagesStop` (from some moment on nothing is added to
the chat) holds in every behaviour of the run without faults, by its bound on
messages; the theorem assumes it, because there `Messages` may be infinite.

Each proof finds the request that is responsible and shows that it stays so until
it has done its work. `EmptiedRoomEnds` needs to know that there is one:

    EmptiedIsClosing == faultless => \A r \in Rooms : Emptied(r) => Closing(r)

an invariant of its own, however requests overlap: of several Leaves that finish
together, whichever marks its row last finds nobody left. From there the one Leave
counts zero and ends the room, unless somebody enters (`LeavingStep`). For
`RejectionEnds` and `Evaporates` it is the request at its EXPIRE (`WindowOwned`,
`HistoryHasWindow`), and then the key's time to live; for `HangupEnds` the
cleanup, and then the callback.

### What does not come back

The findings are about states that go wrong; these theorems say that they stay so,
whatever anybody does and whatever fails. They are action properties of the form
`[][P => P']_vars`, or invariants.

* `StuckForGood`: two active rows of a participant in a room are there for ever;
  `HeldForGood`: so an active room with such a participant, and no Leave at its last
  statement, is never ended (after `LeaveIsPossible`).
* `LostCapturesRun`: a capture that the service has forgotten, and whose offer is
  through, runs as long as the process (after `ViewersAreServed`);
  `UnheardIsKept`: an offer whose answer was lost keeps its id and connection.
* `LockedOutForGood`: a counter at the limit without a time to live, and nobody about
  to give it one, stays there: why `RejectionEnds` excepts faults.
* `LoggedRoomsStay`: a room in the audit log stays; `CalmRoomsStay`: while requests do
  not overlap and nothing fails no room is deleted at all (`CalmLogged`: each room is
  logged, or its Create is about to log it and is alone).

On the other side, what takes overlap or a failure to go wrong: while neither has
occurred nobody is in a room that is not open, and so nobody in an ended one
(`OnlyOpenRoomsAreEntered`, `EndedRoomsStayEmpty`). They are proved of the contract
(`OnlyOpenRoomsHaveMembers`) and carried over by the refinement. And
`ExchangesBounded` says how far the race of two refreshes goes: while nothing fails
one token becomes at most as many sessions as there are goroutines, for any finite
number of them; `ExchangesReserved` books a session for each request under way with
the token, and `RotatedIsRevoked` shows that none begins once there is one session.

### What is not proved

That `Fairness` and `Scheduled`, with its like, are the same: it needs ENABLED and
is argued above; under `Fairness` itself the liveness properties are only
model-checked. Every property of the passing runs is stated by a theorem. No module declares a
RECURSIVE operator, and no theorem needs an induction over data.

## 6. Not modelled

See also the notes of the components in `PROJECT.json`.

* In the rooms: texts, titles, the LiveKit side of a token, `max_participants`
  (stored, never compared), and the repository's operations nothing calls
  (`CleanupInactiveRooms` among them).
* Accounts: a name is cut at 50 bytes, which may split a character; PostgreSQL then
  refuses the INSERT, which is one of the outcomes "failed".
* Statistics: inserts and reads of one statement each, on rows nothing else writes.
* Configuration, migration, start-up: sequential. A shutdown waits ten seconds while
  a response may take fifteen, and then exits; for the requests still under way that
  is the `Crash` of the other modules.
* Middleware, wiring, read-only lists, deployment, pages: no state of their own.
* Microphone and camera buttons: their state is LiveKit's list of publications,
  which a model would have to guess. Chat panel: it appends what it polls. Layout.

## 7. Plan

`AnonymousRoom`, `RoomContract`, `AnonymousRoomRefinement`, `RateLimit`,
`Accounts`, `AnonymousChat`, `PersistentRoom`, `ScreenShare`, `ScreenSessions`,
`ScreenShareRefinement`, `WebClient` and `ScreenClient` are modelled and checked,
and every property of the passing runs is proved, the liveness properties from the
assumptions section 5 describes. Left to prove: that the server steps inside
`WebClient` and `ScreenClient` are steps of the contracts the server modules
refine, which now holds by the INSTANCE they are built from. Left to model: the
buttons over the LiveKit SDK, once the client keeps state of its own for them.
