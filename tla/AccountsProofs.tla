--------------------------- MODULE AccountsProofs ---------------------------
(***************************************************************************)
(* Theorems about Accounts, for any addresses, users, tokens and           *)
(* goroutines, whatever statement fails and whenever the process crashes.  *)
(***************************************************************************)
EXTENDS Accounts, FiniteSetTheorems, TLAPS

-----------------------------------------------------------------------------
(* Types.  The foreign key user_settings.user_id makes them depend on what  *)
(* the requests under way refer to.                                         *)

\* Rows are never deleted, so what a handler has read exists; and nothing
\* changes the address of an account, so the row a handler holds has the
\* address of its account although its name may be stale.
RequestsRefer ==
    \A w \in Workers :
        /\ req[w].step \in {"settings.read", "settings.insert", "settings.write",
                            "login.session", "login.update", "profile.write"}
             => req[w].user \in DOMAIN users
        /\ req[w].step = "settings.write" => req[w].user \in DOMAIN settings
        /\ req[w].step \in {"login.session", "login.update", "profile.write"}
             => req[w].row.email = users[req[w].user].email
        /\ req[w].step \in {"refresh.revoke", "refresh.session"}
             => req[w].token \in DOMAIN sessions

\* The requests by the step they are at.
LEMMA RequestAt ==
    ASSUME TypeOK, NEW w \in Workers
    PROVE  /\ req[w] \in Request \cup {Idle}
           /\ At(w, "register.insert") => req[w].email \in Emails
           /\ req[w].step \in {"settings.read", "settings.insert"} =>
                /\ req[w] = [step |-> req[w].step, user |-> req[w].user, put |-> req[w].put]
                /\ req[w].user \in Users /\ req[w].put \in BOOLEAN
           /\ At(w, "settings.write") => req[w].user \in Users /\ req[w].read \in Setting
           /\ req[w].step \in {"login.session", "login.update", "profile.write"} =>
                /\ req[w] = [step |-> req[w].step, user |-> req[w].user, row |-> req[w].row]
                /\ req[w].user \in Users /\ req[w].row \in User
           /\ req[w].step \in {"refresh.revoke", "refresh.session"} =>
                /\ req[w] = [step |-> req[w].step, token |-> req[w].token]
                /\ req[w].token \in Tokens
<1>1. req[w] \in Request \cup {Idle}
    BY DEF TypeOK
<1>2. req[w] = Idle \/ req[w] \in Request
    BY <1>1
<1> QED
    BY <1>1, <1>2 DEF At, Request, Idle

LEMMA TypeInit == Init => TypeOK /\ RequestsRefer
<1> SUFFICES ASSUME Init PROVE TypeOK /\ RequestsRefer
    OBVIOUS
<1>1. faulted \in BOOLEAN
    BY Zenon DEF Init
<1> QED
    BY <1>1 DEF Init, TypeOK, RequestsRefer, Idle

\* The tables keep their types, grow only, and keep the address of each account.
Preserved ==
    /\ TypeOK'
    /\ DOMAIN users \subseteq DOMAIN users'
    /\ \A u \in DOMAIN users : users'[u].email = users[u].email
    /\ DOMAIN settings \subseteq DOMAIN settings'
    /\ DOMAIN sessions \subseteq DOMAIN sessions'

LEMMA NoteType == ASSUME NEW o \in Outcomes, faulted \in BOOLEAN, Note(o)
                  PROVE  faulted' \in BOOLEAN /\ (~faulted' => ~faulted /\ o = "ok")
BY Zenon DEF Note

\* How a request may go on: every next request is of its type.
LEMMA NextRequest ==
    ASSUME TypeOK, NEW w \in Workers, NEW r \in Request \cup {Idle}, Go(w, r)
    PROVE  /\ req' \in [Workers -> Request \cup {Idle}]
           /\ req'[w] = r
           /\ \A v \in Workers : v # w => req'[v] = req[v]
BY DEF TypeOK, Go

LEMMA NextStep ==
    ASSUME TypeOK, NEW w \in Workers, NEW s, Goto(w, s),
           \/ req[w].step = "settings.read" /\ s = "settings.insert"
           \/ req[w].step = "login.session" /\ s = "login.update"
           \/ req[w].step = "refresh.revoke" /\ s = "refresh.session"
    PROVE  /\ req' \in [Workers -> Request \cup {Idle}]
           /\ req'[w] = [req[w] EXCEPT !.step = s]
           /\ req'[w].step = s
           /\ s = "settings.insert" => req'[w].user = req[w].user /\ req'[w].put = req[w].put
           /\ s = "login.update" => req'[w].user = req[w].user /\ req'[w].row = req[w].row
           /\ s = "refresh.session" => req'[w].token = req[w].token
           /\ \A v \in Workers : v # w => req'[v] = req[v]
<1>1. req'[w] = [req[w] EXCEPT !.step = s] /\ \A v \in Workers : v # w => req'[v] = req[v]
    BY DEF TypeOK, Goto
<1>2. CASE req[w].step = "settings.read" /\ s = "settings.insert"
    <2>1. req'[w] = [step |-> s, user |-> req[w].user, put |-> req[w].put]
        BY <1>1, <1>2, RequestAt
    <2> QED
        BY <1>1, <1>2, <2>1, RequestAt DEF TypeOK, Goto, Request
<1>3. CASE req[w].step = "login.session" /\ s = "login.update"
    <2>1. req'[w] = [step |-> s, user |-> req[w].user, row |-> req[w].row]
        BY <1>1, <1>3, RequestAt
    <2> QED
        BY <1>1, <1>3, <2>1, RequestAt DEF TypeOK, Goto, Request
<1>4. CASE req[w].step = "refresh.revoke" /\ s = "refresh.session"
    <2>1. req'[w] = [step |-> s, token |-> req[w].token]
        BY <1>1, <1>4, RequestAt
    <2> QED
        BY <1>1, <1>4, <2>1, RequestAt DEF TypeOK, Goto, Request
<1> QED
    BY <1>2, <1>3, <1>4

\* What the request that takes a step must refer to afterwards; the others
\* refer to rows that are still there.
LEMMA ReferStep ==
    ASSUME RequestsRefer, Preserved, NEW w \in Workers,
           \A v \in Workers : v # w => req'[v] = req[v],
           req'[w].step \in {"settings.read", "settings.insert", "settings.write",
                             "login.session", "login.update", "profile.write"}
             => req'[w].user \in DOMAIN users',
           req'[w].step = "settings.write" => req'[w].user \in DOMAIN settings',
           req'[w].step \in {"login.session", "login.update", "profile.write"}
             => req'[w].row.email = users'[req'[w].user].email,
           req'[w].step \in {"refresh.revoke", "refresh.session"}
             => req'[w].token \in DOMAIN sessions'
    PROVE  RequestsRefer'
<1> SUFFICES ASSUME NEW v \in Workers, v # w
             PROVE  /\ req'[v].step \in {"settings.read", "settings.insert", "settings.write",
                                         "login.session", "login.update", "profile.write"}
                         => req'[v].user \in DOMAIN users'
                    /\ req'[v].step = "settings.write" => req'[v].user \in DOMAIN settings'
                    /\ req'[v].step \in {"login.session", "login.update", "profile.write"}
                         => req'[v].row.email = users'[req'[v].user].email
                    /\ req'[v].step \in {"refresh.revoke", "refresh.session"}
                         => req'[v].token \in DOMAIN sessions'
    BY DEF RequestsRefer
<1>1. req'[v] = req[v]
    OBVIOUS
<1> QED
    BY <1>1 DEF RequestsRefer, Preserved

\* A request that ends refers to nothing.
LEMMA DoneStep ==
    ASSUME TypeOK, RequestsRefer, NEW w \in Workers, Done(w)
    PROVE  /\ req' \in [Workers -> Request \cup {Idle}]
           /\ req'[w] = Idle
           /\ \A v \in Workers : v # w => req'[v] = req[v]
           /\ Preserved => RequestsRefer'
<1>1. /\ req' \in [Workers -> Request \cup {Idle}]
      /\ req'[w] = Idle
      /\ \A v \in Workers : v # w => req'[v] = req[v]
    BY NextRequest DEF Done
<1>2. Preserved => RequestsRefer'
    BY <1>1, ReferStep DEF Idle
<1> QED
    BY <1>1, <1>2

\* Tables that stay as they are are preserved.
LEMMA SameTables ==
    ASSUME TypeOK, UNCHANGED <<users, settings, sessions>>,
           req' \in [Workers -> Request \cup {Idle}], faulted' \in BOOLEAN
    PROVE  Preserved
BY DEF TypeOK, Preserved

LEMMA UsersWritten ==
    ASSUME TypeOK, NEW u \in Users, NEW row \in User,
           u \in DOMAIN users => row.email = users[u].email,
           users' = Write(users, u, row) \/ users' = users,
           UNCHANGED <<settings, sessions>>,
           req' \in [Workers -> Request \cup {Idle}], faulted' \in BOOLEAN
    PROVE  Preserved
<1>1. CASE users' = users
    BY <1>1, SameTables
<1>2. CASE users' = Write(users, u, row)
    <2>1. DOMAIN users \subseteq Users /\ users \in [DOMAIN users -> User]
        BY DEF TypeOK
    <2>2. /\ DOMAIN users' = DOMAIN users \cup {u}
          /\ users' \in [DOMAIN users' -> User]
          /\ users'[u] = row
          /\ \A k \in DOMAIN users : k # u => users'[k] = users[k]
        BY <1>2, <2>1 DEF Write
    <2> QED
        BY <2>1, <2>2 DEF TypeOK, Preserved
<1> QED
    BY <1>1, <1>2

LEMMA SettingsWritten ==
    ASSUME TypeOK, NEW u \in DOMAIN users, NEW row \in Setting,
           settings' = Write(settings, u, row) \/ settings' = settings,
           UNCHANGED <<users, sessions>>,
           req' \in [Workers -> Request \cup {Idle}], faulted' \in BOOLEAN
    PROVE  Preserved
<1>1. CASE settings' = settings
    BY <1>1, SameTables
<1>2. CASE settings' = Write(settings, u, row)
    <2>1. DOMAIN settings \subseteq DOMAIN users /\ settings \in [DOMAIN settings -> Setting]
        BY DEF TypeOK
    <2>2. /\ DOMAIN settings' = DOMAIN settings \cup {u}
          /\ settings' \in [DOMAIN settings' -> Setting]
        BY <1>2, <2>1 DEF Write
    <2> QED
        BY <2>1, <2>2 DEF TypeOK, Preserved
<1> QED
    BY <1>1, <1>2

LEMMA SessionsWritten ==
    ASSUME TypeOK, NEW t \in Tokens, NEW row \in Session,
           sessions' = Write(sessions, t, row) \/ sessions' = sessions,
           UNCHANGED <<users, settings>>,
           req' \in [Workers -> Request \cup {Idle}], faulted' \in BOOLEAN
    PROVE  Preserved
<1>1. CASE sessions' = sessions
    BY <1>1, SameTables
<1>2. CASE sessions' = Write(sessions, t, row)
    <2>1. DOMAIN sessions \subseteq Tokens /\ sessions \in [DOMAIN sessions -> Session]
        BY DEF TypeOK
    <2>2. /\ DOMAIN sessions' = DOMAIN sessions \cup {t}
          /\ sessions' \in [DOMAIN sessions' -> Session]
        BY <1>2, <2>1 DEF Write
    <2> QED
        BY <2>1, <2>2 DEF TypeOK, Preserved
<1> QED
    BY <1>1, <1>2

\* A request creates a session, or fails to.
LEMMA IssueStep ==
    ASSUME TypeOK, NEW u \in Users, NEW from \in SUBSET Tokens, NEW o \in Outcomes,
           Issue(u, from, o), req' \in [Workers -> Request \cup {Idle}]
    PROVE  Preserved
<1>1. PICK t \in Tokens \ DOMAIN sessions :
        sessions' = IF Takes(o)
            THEN Write(sessions, t, [user |-> u, from |-> from, revoked |-> FALSE])
            ELSE sessions
    BY DEF Issue, GenerateRefreshToken
<1>2. UNCHANGED <<users, settings>> /\ faulted' \in BOOLEAN
    BY NoteType DEF Issue, TypeOK
<1>3. [user |-> u, from |-> from, revoked |-> FALSE] \in Session
    BY DEF Session
<1> QED
    BY <1>1, <1>2, <1>3, SessionsWritten

\* The request of w writes a whole row of users (or fails to) and ends.
LEMMA UpdateStep ==
    ASSUME TypeOK, RequestsRefer, NEW w \in Workers, NEW row \in User,
           req[w].user \in DOMAIN users, row.email = users[req[w].user].email,
           UpdateUser(w, row)
    PROVE  Preserved /\ RequestsRefer'
<1>1. PICK o \in Outcomes :
        /\ users' = IF Takes(o) THEN Write(users, req[w].user, row) ELSE users
        /\ Note(o)
    BY DEF UpdateUser
<1>2. UNCHANGED <<settings, sessions>> /\ Done(w)
    BY DEF UpdateUser
<1>3. faulted' \in BOOLEAN
    BY <1>1, NoteType DEF TypeOK
<1>4. req' \in [Workers -> Request \cup {Idle}]
    BY <1>2, DoneStep
<1>5. req[w].user \in Users
    BY DEF TypeOK
<1>6. Preserved
    BY <1>1, <1>2, <1>3, <1>4, <1>5, UsersWritten
<1> QED
    BY <1>2, <1>6, DoneStep

\* The registration and the reads that begin the other requests.
LEMMA BeginStep ==
    ASSUME TypeOK, RequestsRefer, NEW w \in Workers,
           RegisterLookup(w) \/ LoginRead(w) \/ RefreshLookup(w) \/ ProfileRead(w)
               \/ SettingsRequest(w)
    PROVE  Preserved /\ RequestsRefer'
<1>1. CASE RegisterLookup(w)
    <2>1. PICK e \in Emails, o \in Outcomes :
            Go(w, [step |-> "register.insert", email |-> e]) /\ Note(o)
        BY <1>1 DEF RegisterLookup
    <2>2. [step |-> "register.insert", email |-> e] \in Request
        BY DEF Request
    <2>3. faulted' \in BOOLEAN
        BY <2>1, NoteType DEF TypeOK
    <2>4. Preserved
        BY <1>1, <2>1, <2>2, <2>3, NextRequest, SameTables DEF RegisterLookup
    <2> QED
        BY <2>1, <2>2, <2>4, NextRequest, ReferStep
<1>2. CASE LoginRead(w) \/ ProfileRead(w)
    <2>1. PICK s \in {"login.session", "profile.write"}, u \in DOMAIN users :
            Go(w, [step |-> s, user |-> u, row |-> users[u]])
        BY <1>2 DEF LoginRead, ProfileRead, GetByEmail, GetByID
    <2>2. [step |-> s, user |-> u, row |-> users[u]] \in Request
        BY DEF Request, TypeOK
    <2>3. UNCHANGED <<users, settings, sessions, faulted>>
        BY <1>2 DEF LoginRead, ProfileRead
    <2>4. Preserved
        BY <2>1, <2>2, <2>3, NextRequest, SameTables DEF TypeOK
    <2>5. req'[w] = [step |-> s, user |-> u, row |-> users[u]]
        BY <2>1, <2>2, NextRequest
    <2> QED
        BY <2>1, <2>2, <2>3, <2>4, <2>5, NextRequest, ReferStep
<1>3. CASE RefreshLookup(w)
    <2>1. PICK t \in DOMAIN sessions : Go(w, [step |-> "refresh.revoke", token |-> t])
        BY <1>3 DEF RefreshLookup, GetSessionByTokenHash
    <2>2. [step |-> "refresh.revoke", token |-> t] \in Request
        BY DEF Request, TypeOK
    <2>3. UNCHANGED <<users, settings, sessions, faulted>>
        BY <1>3 DEF RefreshLookup
    <2>4. Preserved
        BY <2>1, <2>2, <2>3, NextRequest, SameTables DEF TypeOK
    <2> QED
        BY <2>1, <2>2, <2>3, <2>4, NextRequest, ReferStep
<1>4. CASE SettingsRequest(w)
    <2>1. PICK u \in DOMAIN users, put \in BOOLEAN :
            Go(w, [step |-> "settings.read", user |-> u, put |-> put])
        BY <1>4 DEF SettingsRequest
    <2>2. [step |-> "settings.read", user |-> u, put |-> put] \in Request
        BY DEF Request, TypeOK
    <2>3. UNCHANGED <<users, settings, sessions, faulted>>
        BY <1>4 DEF SettingsRequest
    <2>4. Preserved
        BY <2>1, <2>2, <2>3, NextRequest, SameTables DEF TypeOK
    <2> QED
        BY <2>1, <2>2, <2>3, <2>4, NextRequest, ReferStep
<1> QED
    BY <1>1, <1>2, <1>3, <1>4

LEMMA RegisterStep ==
    ASSUME TypeOK, RequestsRefer, NEW w \in Workers, RegisterInsert(w)
    PROVE  Preserved /\ RequestsRefer'
<1>1. CASE Done(w) /\ UNCHANGED <<users, faulted>>
    <2>1. Preserved
        BY <1>1, DoneStep, SameTables DEF RegisterInsert, TypeOK
    <2> QED
        BY <1>1, <2>1, DoneStep
<1>2. ASSUME NEW u \in Users \ DOMAIN users, NEW n \in Names, NEW o \in Outcomes,
             users' = IF Takes(o) THEN Write(users, u, [email |-> req[w].email, name |-> n])
                                  ELSE users,
             IF o = "ok" THEN Go(w, [step |-> "settings.read", user |-> u, put |-> FALSE])
                         ELSE Done(w),
             Note(o)
      PROVE  Preserved /\ RequestsRefer'
    <2> DEFINE next == [step |-> "settings.read", user |-> u, put |-> FALSE]
    <2>1. next \in Request
        BY DEF Request
    <2>2. [email |-> req[w].email, name |-> n] \in User
        BY RequestAt DEF RegisterInsert, User
    <2>3. faulted' \in BOOLEAN
        BY <1>2, NoteType DEF TypeOK
    <2>4. UNCHANGED <<settings, sessions>>
        BY DEF RegisterInsert
    <2>5. req' \in [Workers -> Request \cup {Idle}]
        BY <1>2, <2>1, NextRequest, DoneStep
    <2>6. Preserved
        BY <1>2, <2>2, <2>3, <2>4, <2>5, UsersWritten
    <2>7. CASE o = "ok"
        <3>1. Go(w, next) /\ users' = Write(users, u, [email |-> req[w].email, name |-> n])
            BY <1>2, <2>7 DEF Takes
        <3>2. u \in DOMAIN users'
            BY <3>1 DEF Write
        <3> HIDE DEF next
        <3>3. req'[w] = next /\ \A v \in Workers : v # w => req'[v] = req[v]
            BY <2>1, <3>1, NextRequest
        <3> QED
            BY <2>6, <3>2, <3>3, ReferStep DEF next
    <2>8. CASE o # "ok"
        BY <1>2, <2>6, <2>8, DoneStep
    <2> QED
        BY <2>7, <2>8
<1> QED
    BY <1>1, <1>2 DEF RegisterInsert, Create

LEMMA SessionStep ==
    ASSUME TypeOK, RequestsRefer, NEW w \in Workers,
           LoginSession(w) \/ RefreshRevoke(w) \/ RefreshSession(w)
    PROVE  Preserved /\ RequestsRefer'
<1>1. CASE LoginSession(w)
    <2>1. PICK o \in Outcomes :
            /\ Issue(req[w].user, {}, o)
            /\ IF o = "ok" THEN Goto(w, "login.update") ELSE Done(w)
        BY <1>1 DEF LoginSession
    <2>2. req[w].step = "login.session"
        BY <1>1 DEF LoginSession, At
    <2>2a. req' \in [Workers -> Request \cup {Idle}]
        BY <2>1, <2>2, NextStep, DoneStep
    <2>3. Preserved
        BY <2>1, <2>2, <2>2a, RequestAt, IssueStep
    <2>4. CASE Goto(w, "login.update")
        <3>1. /\ req'[w].step = "login.update"
              /\ req'[w].user = req[w].user /\ req'[w].row = req[w].row
              /\ \A v \in Workers : v # w => req'[v] = req[v]
            BY <2>2, <2>4, NextStep
        <3>2. req[w].user \in DOMAIN users /\ req[w].row.email = users[req[w].user].email
            BY <2>2 DEF RequestsRefer
        <3>3. req[w].user \in DOMAIN users' /\ req[w].row.email = users'[req[w].user].email
            BY <2>3, <3>2 DEF Preserved
        <3> QED
            BY <2>3, <3>1, <3>3, ReferStep
    <2> QED
        BY <2>1, <2>3, <2>4, DoneStep
<1>2. CASE RefreshRevoke(w)
    <2>1. req[w].step = "refresh.revoke" /\ Goto(w, "refresh.session")
        BY <1>2 DEF RefreshRevoke, At
    <2>2. /\ req' \in [Workers -> Request \cup {Idle}]
          /\ req'[w].step = "refresh.session" /\ req'[w].token = req[w].token
          /\ \A v \in Workers : v # w => req'[v] = req[v]
        BY <2>1, NextStep
    <2>3. PICK o \in Outcomes :
            /\ sessions' = IF Takes(o) THEN [sessions EXCEPT ![req[w].token].revoked = TRUE]
                                       ELSE sessions
            /\ Note(o)
        BY <1>2 DEF RefreshRevoke, RevokeSession
    <2>4. UNCHANGED <<users, settings>> /\ faulted' \in BOOLEAN
        BY <1>2, <2>3, NoteType DEF RefreshRevoke, TypeOK
    <2>5. DOMAIN sessions' = DOMAIN sessions /\ sessions' \in [DOMAIN sessions' -> Session]
        BY <2>3 DEF TypeOK, Session
    <2>6. Preserved
        BY <2>2, <2>4, <2>5 DEF TypeOK, Preserved
    <2>7. req[w].token \in DOMAIN sessions
        BY <2>1 DEF RequestsRefer
    <2> QED
        BY <2>2, <2>5, <2>6, <2>7, ReferStep
<1>3. CASE RefreshSession(w)
    <2>1. PICK o \in Outcomes : Issue(sessions[req[w].token].user, {req[w].token}, o)
        BY <1>3 DEF RefreshSession
    <2>2. Done(w) /\ req[w].step = "refresh.session"
        BY <1>3 DEF RefreshSession, At
    <2>2a. sessions[req[w].token].user \in Users /\ req[w].token \in Tokens
        BY <2>2 DEF RequestsRefer, TypeOK, Session
    <2>3. Preserved
        BY <2>1, <2>2, <2>2a, DoneStep, IssueStep
    <2> QED
        BY <2>2, <2>3, DoneStep
<1> QED
    BY <1>1, <1>2, <1>3

LEMMA WholeRowStep ==
    ASSUME TypeOK, RequestsRefer, NEW w \in Workers, LoginUpdate(w) \/ ProfileWrite(w)
    PROVE  Preserved /\ RequestsRefer'
<1>1. /\ req[w].user \in DOMAIN users /\ req[w].row \in User
      /\ req[w].row.email = users[req[w].user].email
    BY RequestAt DEF RequestsRefer, LoginUpdate, ProfileWrite, At
<1>2. CASE LoginUpdate(w)
    BY <1>1, <1>2, UpdateStep DEF LoginUpdate
<1>3. CASE ProfileWrite(w)
    <2>1. PICK n \in Names : UpdateUser(w, [req[w].row EXCEPT !.name = n])
        BY <1>3 DEF ProfileWrite
    <2>2. /\ [req[w].row EXCEPT !.name = n] \in User
          /\ [req[w].row EXCEPT !.name = n].email = req[w].row.email
        BY <1>1 DEF User
    <2> QED
        BY <1>1, <2>1, <2>2, UpdateStep
<1> QED
    BY <1>2, <1>3

\* Once its settings are there, a request has a row to write or is over.
LEMMA HaveSettingsStep ==
    ASSUME TypeOK, RequestsRefer, Preserved, NEW w \in Workers, NEW row \in Setting,
           req[w].step \in {"settings.read", "settings.insert"},
           req[w].user \in DOMAIN settings', HaveSettings(w, row)
    PROVE  RequestsRefer'
<1>1. req[w].user \in DOMAIN users'
    BY DEF RequestsRefer, Preserved
<1>2. CASE Done(w)
    BY <1>2, DoneStep
<1>3. CASE ~Done(w)
    <2> DEFINE next == [step |-> "settings.write", user |-> req[w].user, read |-> row]
    <2>1. Go(w, next)
        BY <1>3 DEF HaveSettings
    <2>2. next \in Request
        BY RequestAt DEF Request
    <2>3. next.step = "settings.write" /\ next.user = req[w].user
        OBVIOUS
    <2> HIDE DEF next
    <2>4. req'[w] = next /\ \A v \in Workers : v # w => req'[v] = req[v]
        BY <2>1, <2>2, NextRequest
    <2> QED
        BY <1>1, <2>3, <2>4, ReferStep
<1> QED
    BY <1>2, <1>3

LEMMA HaveSettingsType ==
    ASSUME TypeOK, RequestsRefer, NEW w \in Workers, NEW row \in Setting,
           req[w].step \in {"settings.read", "settings.insert"}, HaveSettings(w, row)
    PROVE  req' \in [Workers -> Request \cup {Idle}]
<1>1. [step |-> "settings.write", user |-> req[w].user, read |-> row] \in Request
    BY RequestAt DEF Request
<1> QED
    BY <1>1, NextRequest, DoneStep DEF HaveSettings

LEMMA SettingsStep ==
    ASSUME TypeOK, RequestsRefer, NEW w \in Workers,
           SettingsRead(w) \/ SettingsInsert(w) \/ SettingsWrite(w)
    PROVE  Preserved /\ RequestsRefer'
<1>0. /\ req[w].user \in DOMAIN users
      /\ DefaultSetting \in Setting
    BY DEF SettingsRead, SettingsInsert, SettingsWrite, At, RequestsRefer, DefaultSetting, Setting
<1>1. CASE SettingsRead(w)
    <2>1. PICK o \in Outcomes :
            /\ IF o # "ok" THEN Done(w)
               ELSE IF req[w].user \in DOMAIN settings
                    THEN HaveSettings(w, settings[req[w].user])
                    ELSE Goto(w, "settings.insert")
            /\ Note(o)
        BY <1>1 DEF SettingsRead
    <2>2. UNCHANGED <<users, settings, sessions>> /\ faulted' \in BOOLEAN
          /\ req[w].step = "settings.read"
        BY <1>1, <2>1, NoteType DEF SettingsRead, TypeOK, At
    <2>3. CASE Done(w)
        BY <2>2, <2>3, DoneStep, SameTables
    <2>4. CASE req[w].user \in DOMAIN settings /\ HaveSettings(w, settings[req[w].user])
        <3>1. settings[req[w].user] \in Setting
            BY <2>4 DEF TypeOK
        <3>2. Preserved
            BY <2>2, <2>4, <3>1, HaveSettingsType, SameTables
        <3> QED
            BY <2>2, <2>4, <3>1, <3>2, HaveSettingsStep
    <2>5. CASE Goto(w, "settings.insert")
        <3>1. /\ req' \in [Workers -> Request \cup {Idle}]
              /\ req'[w].step = "settings.insert" /\ req'[w].user = req[w].user
              /\ \A v \in Workers : v # w => req'[v] = req[v]
            BY <2>2, <2>5, NextStep
        <3>2. Preserved
            BY <2>2, <3>1, SameTables
        <3> QED
            BY <1>0, <2>2, <3>1, <3>2, ReferStep
    <2> QED
        BY <2>1, <2>3, <2>4, <2>5
<1>2. CASE SettingsInsert(w)
    <2>1. req[w].step = "settings.insert" /\ UNCHANGED <<users, sessions>>
        BY <1>2 DEF SettingsInsert, At
    <2>2. CASE Done(w) /\ UNCHANGED <<settings, faulted>>
        <3>1. Preserved
            BY <2>1, <2>2, DoneStep, SameTables DEF TypeOK
        <3> QED
            BY <2>2, <3>1, DoneStep
    <2>3. ASSUME NEW o \in Outcomes,
                 settings' = IF Takes(o) THEN Write(settings, req[w].user, DefaultSetting)
                                         ELSE settings,
                 IF o = "ok" THEN HaveSettings(w, DefaultSetting) ELSE Done(w),
                 Note(o)
          PROVE  Preserved /\ RequestsRefer'
        <3>1. faulted' \in BOOLEAN
            BY <2>3, NoteType DEF TypeOK
        <3>2. req' \in [Workers -> Request \cup {Idle}]
            BY <1>0, <2>1, <2>3, HaveSettingsType, DoneStep
        <3>3. Preserved
            BY <1>0, <2>1, <2>3, <3>1, <3>2, SettingsWritten
        <3>4. CASE o = "ok"
            <4>1. settings' = Write(settings, req[w].user, DefaultSetting)
                BY <2>3, <3>4 DEF Takes
            <4>2. req[w].user \in DOMAIN settings'
                BY <4>1 DEF Write
            <4> QED
                BY <1>0, <2>1, <2>3, <3>3, <3>4, <4>2, HaveSettingsStep
        <3>5. CASE o # "ok"
            BY <2>3, <3>3, <3>5, DoneStep
        <3> QED
            BY <3>4, <3>5
    <2> QED
        BY <1>2, <2>2, <2>3 DEF SettingsInsert
<1>3. CASE SettingsWrite(w)
    <2>1. PICK theme \in {req[w].read.theme, "dark"}, mute \in BOOLEAN, o \in Outcomes :
            /\ settings' = IF Takes(o)
                  THEN Write(settings, req[w].user, [theme |-> theme, mute |-> mute])
                  ELSE settings
            /\ Note(o)
        BY <1>3 DEF SettingsWrite
    <2>2. UNCHANGED <<users, sessions>> /\ Done(w) /\ faulted' \in BOOLEAN
        BY <1>3, <2>1, NoteType DEF SettingsWrite, TypeOK
    <2>3. [theme |-> theme, mute |-> mute] \in Setting
        BY <1>3, RequestAt DEF SettingsWrite, Setting
    <2>4. Preserved
        BY <1>0, <2>1, <2>2, <2>3, DoneStep, SettingsWritten
    <2> QED
        BY <2>2, <2>4, DoneStep
<1> QED
    BY <1>1, <1>2, <1>3

LEMMA CrashStep ==
    ASSUME TypeOK, RequestsRefer, Crash
    PROVE  Preserved /\ RequestsRefer'
<1>1. req' \in [Workers -> Request \cup {Idle}] /\ \A v \in Workers : req'[v] = Idle
    BY DEF Crash
<1>2. Preserved
    BY <1>1, SameTables DEF Crash
<1> QED
    BY <1>1 , <1>2 DEF RequestsRefer, Idle

LEMMA TypeStep == TypeOK /\ RequestsRefer /\ [Next]_vars => Preserved /\ RequestsRefer'
<1> SUFFICES ASSUME TypeOK, RequestsRefer, [Next]_vars PROVE Preserved /\ RequestsRefer'
    OBVIOUS
<1>1. CASE UNCHANGED vars
    BY <1>1 DEF vars, TypeOK, RequestsRefer, Preserved
<1> QED
    BY <1>1, BeginStep, RegisterStep, SessionStep, WholeRowStep, SettingsStep, CrashStep
    DEF Next, AuthRequest

\* The tables and the requests keep their types, and settings only belong to
\* accounts that exist.
THEOREM TypeCorrect == Spec => []TypeOK
<1>1. TypeOK /\ RequestsRefer /\ [Next]_vars => TypeOK' /\ RequestsRefer'
    BY TypeStep DEF Preserved
<1> QED
    BY <1>1, TypeInit, PTL DEF Spec

-----------------------------------------------------------------------------
(* One account per address. *)

\* A step writes an account that is there with its own address, or makes one
\* under an address nobody has, or leaves the table alone.
LEMMA UsersChange ==
    ASSUME TypeOK, RequestsRefer, [Next]_vars
    PROVE  \/ users' = users
           \/ \E u \in DOMAIN users, row \in User :
                row.email = users[u].email /\ users' = Write(users, u, row)
           \/ \E u \in Users \ DOMAIN users, row \in User :
                ~Registered(row.email) /\ users' = Write(users, u, row)
<1>1. ASSUME NEW w \in Workers, NEW row \in User, UpdateUser(w, row),
             req[w].user \in DOMAIN users, row.email = users[req[w].user].email
      PROVE  \/ users' = users
             \/ \E u \in DOMAIN users, r \in User :
                  r.email = users[u].email /\ users' = Write(users, u, r)
    BY <1>1 DEF UpdateUser
<1>2. ASSUME NEW w \in Workers, LoginUpdate(w)
      PROVE  \/ users' = users
             \/ \E u \in DOMAIN users, r \in User :
                  r.email = users[u].email /\ users' = Write(users, u, r)
    BY <1>1, <1>2, RequestAt DEF LoginUpdate, RequestsRefer, At
<1>3. ASSUME NEW w \in Workers, ProfileWrite(w)
      PROVE  \/ users' = users
             \/ \E u \in DOMAIN users, r \in User :
                  r.email = users[u].email /\ users' = Write(users, u, r)
    <2>1. PICK n \in Names : UpdateUser(w, [req[w].row EXCEPT !.name = n])
        BY <1>3 DEF ProfileWrite
    <2>2. /\ [req[w].row EXCEPT !.name = n] \in User
          /\ [req[w].row EXCEPT !.name = n].email = users[req[w].user].email
          /\ req[w].user \in DOMAIN users
        BY <1>3, RequestAt DEF User, ProfileWrite, At, RequestsRefer
    <2> QED
        BY <1>1, <2>1, <2>2
<1>4. ASSUME NEW w \in Workers, RegisterInsert(w)
      PROVE  \/ users' = users
             \/ \E u \in Users \ DOMAIN users, row \in User :
                  ~Registered(row.email) /\ users' = Write(users, u, row)
    <2>1. req[w].email \in Emails
        BY <1>4, RequestAt DEF RegisterInsert
    <2> QED
        BY <1>4, <2>1 DEF RegisterInsert, User, Create
<1> QED
    BY <1>2, <1>3, <1>4
       DEF Next, vars, RegisterLookup, LoginRead, LoginSession, Issue, RefreshLookup,
           RefreshRevoke, RefreshSession, ProfileRead, SettingsRequest, SettingsRead,
           SettingsInsert, SettingsWrite, Crash, AuthRequest

\* An address never gets a second account, however registrations race and
\* however late a stale row is written back.
THEOREM OneAccountHolds == Spec => []OneAccountPerEmail
<1>1. Init => OneAccountPerEmail
    BY DEF Init, OneAccountPerEmail
<1>2. ASSUME TypeOK, RequestsRefer, OneAccountPerEmail, [Next]_vars
      PROVE  OneAccountPerEmail'
    <2>1. CASE users' = users
        BY <1>2, <2>1 DEF OneAccountPerEmail
    <2>2. CASE \E u \in DOMAIN users, row \in User :
                row.email = users[u].email /\ users' = Write(users, u, row)
        BY <1>2, <2>2 DEF OneAccountPerEmail, Write
    <2>3. CASE \E u \in Users \ DOMAIN users, row \in User :
                ~Registered(row.email) /\ users' = Write(users, u, row)
        BY <1>2, <2>3 DEF OneAccountPerEmail, Write, Registered, GetByEmail
    <2> QED
        BY <1>2, <2>1, <2>2, <2>3, UsersChange
<1>3. TypeOK /\ RequestsRefer /\ [Next]_vars => TypeOK' /\ RequestsRefer'
    BY TypeStep DEF Preserved
<1> QED
    BY <1>1, <1>2, <1>3, TypeInit, PTL DEF Spec

-----------------------------------------------------------------------------
(* Refresh tokens. *)

\* What a step does to the sessions: rows keep where they came from and stay
\* revoked, and a new one comes from a login or from a refresh about to make it.
LEMMA SessionsChange ==
    ASSUME TypeOK, RequestsRefer, [Next]_vars
    PROVE  /\ \A t \in DOMAIN sessions :
                /\ t \in DOMAIN sessions'
                /\ sessions'[t].from = sessions[t].from
                /\ sessions[t].revoked => sessions'[t].revoked
           /\ \A t \in DOMAIN sessions' : t \notin DOMAIN sessions =>
                \/ sessions'[t].from = {}
                \/ \E w \in Workers :
                    At(w, "refresh.session") /\ sessions'[t].from = {req[w].token}
<1>1. CASE sessions' = sessions
    BY <1>1
<1>2. ASSUME NEW u, NEW from, NEW o \in Outcomes, Issue(u, from, o),
             from = {} \/ \E w \in Workers : At(w, "refresh.session") /\ from = {req[w].token}
      PROVE  /\ \A t \in DOMAIN sessions :
                /\ t \in DOMAIN sessions'
                /\ sessions'[t] = sessions[t]
             /\ \A t \in DOMAIN sessions' : t \notin DOMAIN sessions =>
                sessions'[t].from = from
    BY <1>2 DEF Issue, GenerateRefreshToken, Write
<1>3. ASSUME NEW w \in Workers, LoginSession(w) \/ RefreshSession(w)
      PROVE  /\ \A t \in DOMAIN sessions :
                /\ t \in DOMAIN sessions'
                /\ sessions'[t] = sessions[t]
             /\ \A t \in DOMAIN sessions' : t \notin DOMAIN sessions =>
                \/ sessions'[t].from = {}
                \/ \E v \in Workers :
                    At(v, "refresh.session") /\ sessions'[t].from = {req[v].token}
    <2>1. CASE LoginSession(w)
        BY <1>2, <2>1 DEF LoginSession
    <2>2. CASE RefreshSession(w)
        <3>1. PICK o \in Outcomes : Issue(sessions[req[w].token].user, {req[w].token}, o)
            BY <2>2 DEF RefreshSession
        <3> QED
            BY <1>2, <2>2, <3>1 DEF RefreshSession
    <2> QED
        BY <1>3, <2>1, <2>2
<1>4. ASSUME NEW w \in Workers, RefreshRevoke(w)
      PROVE  /\ DOMAIN sessions' = DOMAIN sessions
             /\ \A t \in DOMAIN sessions :
                /\ sessions'[t].from = sessions[t].from
                /\ sessions[t].revoked => sessions'[t].revoked
    BY <1>4 DEF RefreshRevoke, TypeOK, Session, RevokeSession
<1> QED
    BY <1>1, <1>3, <1>4
       DEF Next, vars, RegisterLookup, RegisterInsert, LoginRead, LoginUpdate, UpdateUser,
           RefreshLookup, ProfileRead, ProfileWrite, SettingsRequest, SettingsRead,
           SettingsInsert, SettingsWrite, Crash, AuthRequest

Refreshing(w) == req[w].step \in {"refresh.revoke", "refresh.session"}

\* A request comes to refresh a token only if it finds the token not revoked,
\* and to make the new session only by way of the UPDATE that revokes it.
LEMMA RefreshRequests ==
    ASSUME TypeOK, RequestsRefer, [Next]_vars, NEW w \in Workers
    PROVE  /\ Refreshing(w)' =>
                \/ Refreshing(w) /\ req'[w].token = req[w].token
                \/ /\ req'[w].step = "refresh.revoke"
                   /\ req'[w].token \in DOMAIN sessions
                   /\ ~sessions[req'[w].token].revoked
           /\ req'[w].step = "refresh.session" =>
                \/ req[w].step = "refresh.session" /\ req'[w].token = req[w].token
                \/ RefreshRevoke(w) /\ req'[w].token = req[w].token
           /\ req[w].step = "refresh.session" =>
                \/ req'[w] = req[w]
                \/ RefreshSession(w)
                \/ faulted'
<1> DEFINE Outside == /\ req[w].step \notin {"refresh.revoke", "refresh.session"}
                      /\ req'[w].step \notin {"refresh.revoke", "refresh.session"}
<1>1. ASSUME NEW r, Go(w, r), r.step \notin {"refresh.revoke", "refresh.session"},
             req[w].step \notin {"refresh.revoke", "refresh.session"}
      PROVE  Outside
    BY <1>1 DEF Go, TypeOK
<1>2. ASSUME Done(w), req[w].step \notin {"refresh.revoke", "refresh.session"}
      PROVE  Outside
    BY <1>1, <1>2 DEF Done, Idle
<1>3. ASSUME NEW row, HaveSettings(w, row),
             req[w].step \notin {"refresh.revoke", "refresh.session"}
      PROVE  Outside
    <2>1. CASE Done(w)
        BY <1>2, <1>3, <2>1
    <2>2. CASE Go(w, [step |-> "settings.write", user |-> req[w].user, read |-> row])
        BY <1>1, <1>3, <2>2
    <2> QED
        BY <1>3, <2>1, <2>2 DEF HaveSettings
<1>4. CASE RegisterLookup(w) \/ LoginRead(w) \/ ProfileRead(w) \/ SettingsRequest(w)
    <2>1. req[w].step \notin {"refresh.revoke", "refresh.session"}
        BY <1>4 DEF RegisterLookup, LoginRead, ProfileRead, SettingsRequest, Idle
    <2>2. Outside
        BY <1>1, <1>4, <2>1 DEF RegisterLookup, LoginRead, ProfileRead, SettingsRequest
    <2> QED
        BY <2>2 DEF Refreshing
<1>5. CASE RegisterInsert(w)
    <2>1. req[w].step \notin {"refresh.revoke", "refresh.session"}
        BY <1>5 DEF RegisterInsert, At
    <2>2. \/ Done(w)
          \/ \E u \in Users : Go(w, [step |-> "settings.read", user |-> u, put |-> FALSE])
        BY <1>5 DEF RegisterInsert
    <2>3. Outside
        BY <1>1, <1>2, <2>1, <2>2
    <2> QED
        BY <2>3 DEF Refreshing
<1>6. CASE LoginSession(w)
    <2>1. req[w].step = "login.session" /\ (Goto(w, "login.update") \/ Done(w))
        BY <1>6 DEF LoginSession, At
    <2>2. CASE Goto(w, "login.update")
        <3>1. req'[w].step = "login.update"
            BY <2>1, <2>2, NextStep
        <3> QED
            BY <2>1, <3>1 DEF Refreshing
    <2>3. CASE Done(w)
        BY <1>2, <2>1, <2>3 DEF Refreshing
    <2> QED
        BY <2>1, <2>2, <2>3
<1>7. CASE LoginUpdate(w) \/ ProfileWrite(w) \/ SettingsWrite(w)
    <2>1. req[w].step \notin {"refresh.revoke", "refresh.session"} /\ Done(w)
        BY <1>7 DEF LoginUpdate, ProfileWrite, SettingsWrite, UpdateUser, At
    <2> QED
        BY <1>2, <2>1 DEF Refreshing
<1>8. CASE RefreshLookup(w)
    BY <1>8 DEF RefreshLookup, Go, TypeOK, Idle, Refreshing, GetSessionByTokenHash
<1>9. CASE RefreshRevoke(w)
    <2>1. req[w].step = "refresh.revoke" /\ Goto(w, "refresh.session")
        BY <1>9 DEF RefreshRevoke, At
    <2>2. req'[w].step = "refresh.session" /\ req'[w].token = req[w].token
        BY <2>1, NextStep
    <2> QED
        BY <1>9, <2>1, <2>2 DEF Refreshing
<1>10. CASE RefreshSession(w)
    <2>1. req'[w] = Idle
        BY <1>10, DoneStep DEF RefreshSession
    <2> QED
        BY <1>10, <2>1 DEF Refreshing, Idle
<1>11. CASE SettingsRead(w)
    <2>1. req[w].step = "settings.read"
          /\ (Done(w) \/ Goto(w, "settings.insert")
                \/ HaveSettings(w, settings[req[w].user]))
        BY <1>11 DEF SettingsRead, At
    <2>2. CASE Goto(w, "settings.insert")
        <3>1. req'[w].step = "settings.insert"
            BY <2>1, <2>2, NextStep
        <3> QED
            BY <2>1, <3>1 DEF Refreshing
    <2>3. CASE Done(w) \/ HaveSettings(w, settings[req[w].user])
        BY <1>2, <1>3, <2>1, <2>3 DEF Refreshing
    <2> QED
        BY <2>1, <2>2, <2>3
<1>12. CASE SettingsInsert(w)
    <2>1. req[w].step = "settings.insert" /\ (Done(w) \/ HaveSettings(w, DefaultSetting))
        BY <1>12 DEF SettingsInsert, At
    <2> QED
        BY <1>2, <1>3, <2>1 DEF Refreshing
<1>13. CASE Crash
    BY <1>13 DEF Crash, Refreshing, Idle
<1>14. CASE req'[w] = req[w]
    BY <1>14 DEF Refreshing
<1>15. ASSUME NEW v \in Workers, v # w,
              \/ RegisterLookup(v) \/ RegisterInsert(v)
              \/ LoginRead(v) \/ LoginSession(v) \/ LoginUpdate(v)
              \/ RefreshLookup(v) \/ RefreshRevoke(v) \/ RefreshSession(v)
              \/ ProfileRead(v) \/ ProfileWrite(v)
              \/ SettingsRequest(v) \/ SettingsRead(v) \/ SettingsInsert(v) \/ SettingsWrite(v)
       PROVE  req'[w] = req[w]
    BY <1>15 DEF RegisterLookup, RegisterInsert, LoginRead, LoginSession, LoginUpdate,
        UpdateUser, RefreshLookup, RefreshRevoke, RefreshSession, ProfileRead, ProfileWrite,
        SettingsRequest, SettingsRead, SettingsInsert, SettingsWrite, HaveSettings,
        Go, Goto, Done, TypeOK
<1> QED
    BY <1>4, <1>5, <1>6, <1>7, <1>8, <1>9, <1>10, <1>11, <1>12, <1>13, <1>14, <1>15
    DEF Next, vars, AuthRequest

\* A token that was revoked, with no refresh left that found it alive, never
\* yields another session, whatever fails afterwards.
THEOREM SpentTokenIsDeadHolds == Spec => SpentTokenIsDead
<1>1. ASSUME TypeOK, RequestsRefer, [Next]_vars, NEW p \in Tokens, Spent(p)
      PROVE  /\ Spent(p)'
             /\ \A t \in Tokens :
                t \in DOMAIN sessions' /\ p \in sessions'[t].from => t \in DOMAIN sessions
    <2>1. p \in DOMAIN sessions' /\ sessions'[p].revoked
        BY <1>1, SessionsChange DEF Spent
    <2>2. ASSUME NEW w \in Workers, Refreshing(w)' PROVE req'[w].token # p
        BY <1>1, <2>2, RefreshRequests DEF Spent, Refreshing
    <2>3. Spent(p)'
        BY <2>1, <2>2 DEF Spent, Refreshing
    <2>4. ASSUME NEW t \in DOMAIN sessions', p \in sessions'[t].from, t \notin DOMAIN sessions
          PROVE  FALSE
        BY <1>1, <2>4, SessionsChange DEF Spent, At
    <2> QED
        BY <2>3, <2>4
<1>2. TypeOK /\ RequestsRefer /\ [Next]_vars =>
        [\A p \in Tokens : Spent(p) =>
            /\ Spent(p)'
            /\ \A t \in Tokens :
                t \in DOMAIN sessions' /\ p \in sessions'[t].from => t \in DOMAIN sessions]_vars
    BY <1>1
<1>3. TypeOK /\ RequestsRefer /\ [Next]_vars => TypeOK' /\ RequestsRefer'
    BY TypeStep DEF Preserved
<1> QED
    BY <1>2, <1>3, TypeInit, PTL DEF Spec, SpentTokenIsDead

\* What makes RotatedIsRevoked and RotationKeepsLogin inductive: while nothing
\* has failed, a request about to make the new session has revoked the old one.
RevokedFirst ==
    ~faulted => \A w \in Workers :
        At(w, "refresh.session") => sessions[req[w].token].revoked

\* A fault is never forgotten.
LEMMA FaultsStay == [Next]_vars => (faulted => faulted')
BY DEF Next, vars, Note, RegisterLookup, RegisterInsert, LoginRead, LoginSession, LoginUpdate,
       UpdateUser, Issue, RefreshLookup, RefreshRevoke, RefreshSession, ProfileRead,
       ProfileWrite, SettingsRequest, SettingsRead, SettingsInsert, SettingsWrite, Crash, AuthRequest

\* An UPDATE that did not fail has revoked its session.
LEMMA RevokeTakes ==
    ASSUME TypeOK, RequestsRefer, NEW w \in Workers, RefreshRevoke(w), ~faulted'
    PROVE  /\ req[w].token \in DOMAIN sessions
           /\ sessions' = [sessions EXCEPT ![req[w].token].revoked = TRUE]
           /\ sessions'[req[w].token].revoked
<1>1. PICK o \in Outcomes :
        /\ sessions' = IF Takes(o) THEN [sessions EXCEPT ![req[w].token].revoked = TRUE]
                                   ELSE sessions
        /\ Note(o)
    BY DEF RefreshRevoke, RevokeSession
<1>2. o = "ok"
    BY <1>1, NoteType DEF TypeOK
<1>3. req[w].token \in DOMAIN sessions
    BY DEF RefreshRevoke, At, RequestsRefer
<1> QED
    BY <1>1, <1>2, <1>3 DEF Takes, TypeOK, Session

LEMMA RevokedFirstStep ==
    ASSUME TypeOK, RequestsRefer, RevokedFirst, [Next]_vars
    PROVE  RevokedFirst'
<1> SUFFICES ASSUME ~faulted', NEW w \in Workers, req'[w].step = "refresh.session"
             PROVE  sessions'[req'[w].token].revoked
    BY DEF RevokedFirst, At
<1>1. ~faulted
    BY FaultsStay
<1>2. CASE req[w].step = "refresh.session" /\ req'[w].token = req[w].token
    BY <1>1, <1>2, SessionsChange DEF RevokedFirst, At, RequestsRefer
<1>3. CASE RefreshRevoke(w) /\ req'[w].token = req[w].token
    BY <1>3, RevokeTakes
<1> QED
    BY <1>2, <1>3, RefreshRequests

\* While nothing fails, a token that was exchanged for another is revoked.
THEOREM RotatedIsRevokedHolds == Spec => []RotatedIsRevoked
<1>1. Init => RevokedFirst /\ RotatedIsRevoked
    BY DEF Init, RevokedFirst, RotatedIsRevoked, At, Idle
<1>2. ASSUME TypeOK, RequestsRefer, RevokedFirst, RotatedIsRevoked, [Next]_vars
      PROVE  RotatedIsRevoked'
    <2> SUFFICES ASSUME ~faulted', NEW t \in DOMAIN sessions', NEW p \in sessions'[t].from
                 PROVE  p \in DOMAIN sessions' /\ sessions'[p].revoked
        BY DEF RotatedIsRevoked
    <2>1. ~faulted
        BY <1>2, FaultsStay
    <2>2. p \in DOMAIN sessions /\ sessions[p].revoked
        <3>1. CASE t \in DOMAIN sessions
            BY <1>2, <2>1, <3>1, SessionsChange DEF RotatedIsRevoked
        <3>2. CASE t \notin DOMAIN sessions
            <4>1. PICK w \in Workers :
                    At(w, "refresh.session") /\ sessions'[t].from = {req[w].token}
                BY <1>2, <3>2, SessionsChange
            <4> QED
                BY <1>2, <2>1, <4>1 DEF RevokedFirst, RequestsRefer, At
        <3> QED
            BY <3>1, <3>2
    <2> QED
        BY <1>2, <2>2, SessionsChange
<1>3. TypeOK /\ RequestsRefer /\ [Next]_vars => TypeOK' /\ RequestsRefer'
    BY TypeStep DEF Preserved
<1> QED
    BY <1>1, <1>2, <1>3, TypeInit, RevokedFirstStep, PTL DEF Spec

-----------------------------------------------------------------------------
(* How many sessions one refresh token can yield. *)

\* The sessions a token was exchanged for, and the requests about to exchange it.
Heirs(p) == {t \in DOMAIN sessions : p \in sessions[t].from}
Exchanging(p) == {w \in Workers : Refreshing(w) /\ req[w].token = p}

\* "The previous refresh token is revoked" (API.md) does not make it good for one
\* session only, since lookup and UPDATE are two statements; but as long as nothing
\* fails it yields no more of them than there are requests that can race with it.
ExchangesBounded ==
    ~faulted => \A p \in Tokens : Cardinality(Heirs(p)) <= Cardinality(Workers)

\* What makes it inductive: every request under way for a token may still add
\* one, and none begins once the token is revoked.
ExchangesReserved ==
    ~faulted => \A p \in Tokens :
        /\ IsFiniteSet(Heirs(p))
        /\ Cardinality(Heirs(p)) + Cardinality(Exchanging(p)) <= Cardinality(Workers)

\* A refresh adds one session at most to those of its token, and is over then.
LEMMA OneHeir ==
    ASSUME TypeOK, RequestsRefer, [Next]_vars, NEW p \in Tokens,
           NEW w \in Workers, RefreshSession(w)
    PROVE  /\ \E t : Heirs(p)' \subseteq Heirs(p) \cup {t}
           /\ req[w].token # p => Heirs(p)' = Heirs(p)
           /\ Exchanging(p)' = Exchanging(p) \ {w}
           /\ req[w].token = p => w \in Exchanging(p)
<1>1. PICK o \in Outcomes : Issue(sessions[req[w].token].user, {req[w].token}, o)
    BY DEF RefreshSession
<1>2. PICK t \in Tokens \ DOMAIN sessions :
        sessions' = IF Takes(o)
            THEN Write(sessions, t, [user |-> sessions[req[w].token].user,
                                     from |-> {req[w].token}, revoked |-> FALSE])
            ELSE sessions
    BY <1>1 DEF Issue, GenerateRefreshToken
<1>3. /\ Heirs(p)' \subseteq Heirs(p) \cup {t}
      /\ req[w].token # p => Heirs(p)' = Heirs(p)
    BY <1>2 DEF Heirs, Write
<1>4. req[w].step = "refresh.session" /\ req'[w] = Idle
      /\ \A v \in Workers : v # w => req'[v] = req[v]
    BY DoneStep DEF RefreshSession, At
<1>5. Exchanging(p)' = Exchanging(p) \ {w}
    BY <1>4 DEF Exchanging, Refreshing, Idle
<1> QED
    BY <1>3, <1>4, <1>5 DEF Exchanging, Refreshing

\* No other step adds one, and a revoked token finds no new request.
LEMMA NoHeir ==
    ASSUME TypeOK, RequestsRefer, [Next]_vars, NEW p \in Tokens,
           \A w \in Workers : ~RefreshSession(w)
    PROVE  /\ Heirs(p)' = Heirs(p)
           /\ p \in DOMAIN sessions /\ sessions[p].revoked =>
                Exchanging(p)' \subseteq Exchanging(p)
<1>1. ASSUME NEW t \in DOMAIN sessions', t \notin DOMAIN sessions
      PROVE  sessions'[t].from = {}
    <2>1. ASSUME NEW w \in Workers, LoginSession(w) PROVE sessions'[t].from = {}
        BY <1>1, <2>1 DEF LoginSession, Issue, GenerateRefreshToken, Write
    <2>2. ASSUME NEW w \in Workers, RefreshRevoke(w) PROVE FALSE
        BY <1>1, <2>2 DEF RefreshRevoke, RevokeSession
    <2> QED
        BY <1>1, <2>1, <2>2
           DEF Next, vars, RegisterLookup, RegisterInsert, LoginRead, LoginUpdate, UpdateUser,
               RefreshLookup, ProfileRead, ProfileWrite, SettingsRequest, SettingsRead,
               SettingsInsert, SettingsWrite, Crash, AuthRequest
<1>2. Heirs(p)' = Heirs(p)
    BY <1>1, SessionsChange DEF Heirs
<1>3. ASSUME p \in DOMAIN sessions, sessions[p].revoked, NEW w \in Exchanging(p)'
      PROVE  w \in Exchanging(p)
    BY <1>3, RefreshRequests DEF Exchanging
<1> QED
    BY <1>2, <1>3

LEMMA ExchangesReservedStep ==
    ASSUME IsFiniteSet(Workers), TypeOK, RequestsRefer, RotatedIsRevoked,
           ExchangesReserved, [Next]_vars
    PROVE  ExchangesReserved'
<1> SUFFICES ASSUME ~faulted', NEW p \in Tokens
             PROVE  /\ IsFiniteSet(Heirs(p)')
                    /\ Cardinality(Heirs(p)') + Cardinality(Exchanging(p)')
                         <= Cardinality(Workers)
    BY DEF ExchangesReserved
<1>1. ~faulted
    BY FaultsStay
<1>2. /\ IsFiniteSet(Heirs(p)) /\ Cardinality(Heirs(p)) \in Nat
      /\ Cardinality(Heirs(p)) + Cardinality(Exchanging(p)) <= Cardinality(Workers)
    BY <1>1, FS_CardinalityType DEF ExchangesReserved
<1>3. ASSUME NEW S \in SUBSET Workers
      PROVE  /\ IsFiniteSet(S) /\ Cardinality(S) \in Nat
             /\ Cardinality(S) <= Cardinality(Workers) /\ Cardinality(Workers) \in Nat
    BY <1>3, FS_Subset, FS_CardinalityType
<1>4. Exchanging(p) \in SUBSET Workers /\ Exchanging(p)' \in SUBSET Workers
    BY DEF Exchanging
<1>5. ASSUME NEW w \in Workers, RefreshSession(w)
      PROVE  /\ IsFiniteSet(Heirs(p)')
             /\ Cardinality(Heirs(p)') + Cardinality(Exchanging(p)') <= Cardinality(Workers)
    <2>1. PICK t : Heirs(p)' \subseteq Heirs(p) \cup {t}
        BY <1>5, OneHeir
    <2>2. /\ IsFiniteSet(Heirs(p)') /\ Cardinality(Heirs(p)') \in Nat
          /\ Cardinality(Heirs(p)') <= Cardinality(Heirs(p)) + 1
        <3>1. /\ IsFiniteSet(Heirs(p) \cup {t})
              /\ Cardinality(Heirs(p) \cup {t}) \in Nat
              /\ Cardinality(Heirs(p) \cup {t}) <= Cardinality(Heirs(p)) + 1
            <4> DEFINE S == Heirs(p)
            <4>1. IsFiniteSet(S) /\ Cardinality(S) \in Nat
                BY <1>2
            <4> HIDE DEF S
            <4>2. /\ IsFiniteSet(S \cup {t})
                  /\ Cardinality(S \cup {t}) = IF t \in S THEN Cardinality(S) ELSE Cardinality(S) + 1
                BY <4>1, FS_AddElement
            <4>3. Cardinality(S \cup {t}) \in Nat /\ Cardinality(S \cup {t}) <= Cardinality(S) + 1
                BY <4>1, <4>2
            <4> QED
                BY <4>2, <4>3 DEF S
        <3>2. IsFiniteSet(Heirs(p)') /\ Cardinality(Heirs(p)') <= Cardinality(Heirs(p) \cup {t})
            BY <2>1, <3>1, FS_Subset
        <3>3. Cardinality(Heirs(p)') \in Nat
            BY <3>2, FS_CardinalityType
        <3> QED
            BY <1>2, <3>1, <3>2, <3>3
    <2>3. CASE req[w].token = p
        <3>1. Cardinality(Exchanging(p)') = Cardinality(Exchanging(p)) - 1
            BY <1>3, <1>4, <1>5, <2>3, OneHeir, FS_RemoveElement
        <3> QED
            BY <1>2, <1>3, <1>4, <2>2, <3>1
    <2>4. CASE req[w].token # p
        <3>1. Heirs(p)' = Heirs(p) /\ Exchanging(p)' = Exchanging(p) \ {w}
            BY <1>5, <2>4, OneHeir
        <3>2. Cardinality(Exchanging(p)') <= Cardinality(Exchanging(p))
            BY <1>3, <1>4, <3>1, FS_Subset, Exchanging(p)' \in SUBSET Exchanging(p)
        <3> QED
            BY <1>2, <1>3, <1>4, <3>1, <3>2
    <2> QED
        BY <2>3, <2>4
<1>6. ASSUME \A w \in Workers : ~RefreshSession(w)
      PROVE  /\ IsFiniteSet(Heirs(p)')
             /\ Cardinality(Heirs(p)') + Cardinality(Exchanging(p)') <= Cardinality(Workers)
    <2>1. Heirs(p)' = Heirs(p)
        BY <1>6, NoHeir
    <2>2. CASE p \in DOMAIN sessions /\ sessions[p].revoked
        <3>1. Exchanging(p)' \in SUBSET Exchanging(p)
            BY <1>6, <2>2, NoHeir
        <3>2. Cardinality(Exchanging(p)') <= Cardinality(Exchanging(p))
            BY <1>3, <1>4, <3>1, FS_Subset
        <3> QED
            BY <1>2, <1>3, <1>4, <2>1, <3>2
    <2>3. CASE ~(p \in DOMAIN sessions /\ sessions[p].revoked)
        <3>1. Heirs(p) = {}
            BY <1>1, <2>3 DEF RotatedIsRevoked, Heirs
        <3>2. IsFiniteSet(Heirs(p)') /\ Cardinality(Heirs(p)') = 0
            BY <2>1, <3>1, FS_EmptySet
        <3> QED
            BY <1>3, <1>4, <3>2
    <2> QED
        BY <2>2, <2>3
<1> QED
    BY <1>5, <1>6

\* With n request goroutines, one refresh token ends up in n sessions at most
\* while nothing fails; a failed UPDATE is what takes the bound away.
THEOREM ExchangesBoundedHolds == ASSUME IsFiniteSet(Workers) PROVE Spec => []ExchangesBounded
<1>1. Init => ExchangesReserved
    <2> SUFFICES ASSUME Init, NEW p \in Tokens
                 PROVE  /\ IsFiniteSet(Heirs(p))
                        /\ Cardinality(Heirs(p)) + Cardinality(Exchanging(p))
                             <= Cardinality(Workers)
        BY DEF ExchangesReserved
    <2>1. Heirs(p) = {} /\ Exchanging(p) = {}
        BY DEF Init, Heirs, Exchanging, Refreshing, Idle
    <2>2. Cardinality(Workers) \in Nat
        BY FS_CardinalityType
    <2> QED
        BY <2>1, <2>2, FS_EmptySet
<1>2. TypeOK /\ RequestsRefer /\ RotatedIsRevoked /\ ExchangesReserved /\ [Next]_vars
        => ExchangesReserved'
    BY ExchangesReservedStep
<1>3. ExchangesReserved => ExchangesBounded
    <2> SUFFICES ASSUME ExchangesReserved, ~faulted, NEW p \in Tokens
                 PROVE  Cardinality(Heirs(p)) <= Cardinality(Workers)
        BY DEF ExchangesBounded
    <2>1. /\ IsFiniteSet(Heirs(p))
          /\ Cardinality(Heirs(p)) + Cardinality(Exchanging(p)) <= Cardinality(Workers)
        BY DEF ExchangesReserved
    <2>2. Exchanging(p) \in SUBSET Workers
        BY DEF Exchanging
    <2>3. Cardinality(Heirs(p)) \in Nat /\ Cardinality(Exchanging(p)) \in Nat
          /\ Cardinality(Workers) \in Nat
        BY <2>1, <2>2, FS_Subset, FS_CardinalityType
    <2> QED
        BY <2>1, <2>3
<1>4. TypeOK /\ RequestsRefer /\ [Next]_vars => TypeOK' /\ RequestsRefer'
    BY TypeStep DEF Preserved
<1> QED
    BY <1>1, <1>2, <1>3, <1>4, TypeInit, RotatedIsRevokedHolds, PTL DEF Spec

\* Only the UPDATE of a refresh revokes a session.
LEMMA RevokedBy ==
    ASSUME TypeOK, RequestsRefer, [Next]_vars, NEW p \in DOMAIN sessions', sessions'[p].revoked
    PROVE  \/ p \in DOMAIN sessions /\ sessions[p].revoked
           \/ \E w \in Workers : RefreshRevoke(w) /\ req[w].token = p
<1>1. CASE sessions' = sessions
    BY <1>1
<1>2. ASSUME NEW u, NEW from, NEW o \in Outcomes, Issue(u, from, o)
      PROVE  p \in DOMAIN sessions /\ sessions[p].revoked
    BY <1>2 DEF Issue, GenerateRefreshToken, Write
<1>3. ASSUME NEW w \in Workers, LoginSession(w) \/ RefreshSession(w)
      PROVE  p \in DOMAIN sessions /\ sessions[p].revoked
    BY <1>2, <1>3 DEF LoginSession, RefreshSession
<1>4. ASSUME NEW w \in Workers, RefreshRevoke(w), req[w].token # p
      PROVE  p \in DOMAIN sessions /\ sessions[p].revoked
    BY <1>4 DEF RefreshRevoke, TypeOK, Session, RevokeSession
<1> QED
    BY <1>1, <1>3, <1>4
       DEF Next, vars, RegisterLookup, RegisterInsert, LoginRead, LoginUpdate, UpdateUser,
           RefreshLookup, ProfileRead, ProfileWrite, SettingsRequest, SettingsRead,
           SettingsInsert, SettingsWrite, Crash, AuthRequest

\* While nothing fails, a refresh never leaves its user without a live token:
\* each revoked one has a successor, or a request about to make it.
THEOREM RotationKeepsLoginHolds == Spec => []RotationKeepsLogin
<1>1. Init => RotationKeepsLogin
    BY DEF Init, RotationKeepsLogin
<1>2. ASSUME TypeOK, RequestsRefer, RotationKeepsLogin, [Next]_vars
      PROVE  RotationKeepsLogin'
    <2> SUFFICES ASSUME ~faulted', NEW p \in DOMAIN sessions', sessions'[p].revoked
                 PROVE  \/ \E t \in DOMAIN sessions' : p \in sessions'[t].from
                        \/ \E w \in Workers : At(w, "refresh.session")' /\ req'[w].token = p
        BY DEF RotationKeepsLogin
    <2>1. ~faulted
        BY <1>2, FaultsStay
    <2>2. ASSUME NEW t \in DOMAIN sessions, p \in sessions[t].from
          PROVE  \E s \in DOMAIN sessions' : p \in sessions'[s].from
        BY <1>2, <2>2, SessionsChange
    <2>3. ASSUME NEW w \in Workers, At(w, "refresh.session"), req[w].token = p
          PROVE  \/ \E t \in DOMAIN sessions' : p \in sessions'[t].from
                 \/ At(w, "refresh.session")' /\ req'[w].token = p
        <3>1. CASE req'[w] = req[w]
            BY <2>3, <3>1 DEF At
        <3>2. CASE RefreshSession(w)
            <4>1. PICK o \in Outcomes : Issue(sessions[req[w].token].user, {req[w].token}, o)
                BY <3>2 DEF RefreshSession
            <4>2. o = "ok"
                BY <1>2, <4>1, NoteType DEF Issue, TypeOK
            <4> QED
                BY <2>3, <4>1, <4>2 DEF Issue, GenerateRefreshToken, Takes, Write
        <3> QED
            BY <1>2, <2>3, <3>1, <3>2, RefreshRequests DEF At
    <2>4. ASSUME NEW w \in Workers, RefreshRevoke(w), req[w].token = p
          PROVE  At(w, "refresh.session")' /\ req'[w].token = p
        <3>1. req[w].step = "refresh.revoke" /\ Goto(w, "refresh.session")
            BY <2>4 DEF RefreshRevoke, At
        <3> QED
            BY <1>2, <2>4, <3>1, NextStep DEF At
    <2> QED
        BY <1>2, <2>1, <2>2, <2>3, <2>4, RevokedBy DEF RotationKeepsLogin
<1>3. TypeOK /\ RequestsRefer /\ [Next]_vars => TypeOK' /\ RequestsRefer'
    BY TypeStep DEF Preserved
<1> QED
    BY <1>1, <1>2, <1>3, TypeInit, PTL DEF Spec

-----------------------------------------------------------------------------
(* Settings. *)

\* A row of settings, once there, is changed by the UPDATE of a PUT only: the
\* late creation of defaults by a GET or a Register never touches it.
THEOREM DefaultsNeverOverwriteHolds == Spec => DefaultsNeverOverwrite
<1>1. ASSUME TypeOK, RequestsRefer, [Next]_vars, NEW u \in DOMAIN settings
      PROVE  /\ u \in DOMAIN settings'
             /\ settings'[u] # settings[u] =>
                    \E w \in Workers : At(w, "settings.write") /\ req[w].user = u
    <2>1. u \in DOMAIN settings'
        BY <1>1, TypeStep DEF Preserved
    <2>2. CASE settings' = settings
        BY <2>2
    <2>3. ASSUME NEW w \in Workers, SettingsInsert(w) PROVE settings'[u] = settings[u]
        BY <2>3 DEF SettingsInsert, Write
    <2>4. ASSUME NEW w \in Workers, SettingsWrite(w), req[w].user # u
          PROVE  settings'[u] = settings[u]
        BY <2>4 DEF SettingsWrite, Write
    <2>5. ASSUME NEW w \in Workers, SettingsWrite(w) PROVE At(w, "settings.write")
        BY <2>5 DEF SettingsWrite
    <2> QED
        BY <1>1, <2>1, <2>2, <2>3, <2>4, <2>5
           DEF Next, vars, RegisterLookup, RegisterInsert, LoginRead, LoginSession, LoginUpdate,
               UpdateUser, Issue, RefreshLookup, RefreshRevoke, RefreshSession, ProfileRead,
               ProfileWrite, SettingsRequest, SettingsRead, Crash, AuthRequest
<1>2. TypeOK /\ RequestsRefer /\ [Next]_vars =>
        [\A u \in DOMAIN settings :
            /\ u \in DOMAIN settings'
            /\ settings'[u] # settings[u] =>
                \E w \in Workers : At(w, "settings.write") /\ req[w].user = u]_vars
    BY <1>1
<1>3. TypeOK /\ RequestsRefer /\ [Next]_vars => TypeOK' /\ RequestsRefer'
    BY TypeStep DEF Preserved
<1> QED
    BY <1>2, <1>3, TypeInit, PTL DEF Spec, DefaultsNeverOverwrite
=============================================================================
