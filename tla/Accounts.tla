------------------------------ MODULE Accounts ------------------------------
(***************************************************************************)
(* Accounts, their refresh tokens, profiles and settings: the handlers of  *)
(* /api/v1/auth and /api/v1/users over the tables users, user_sessions and *)
(* user_settings.  As everywhere in the server a handler is a sequence of  *)
(* autocommitted statements, and two of them (Login and UpdateMe) write a  *)
(* whole row they have read before.                                        *)
(***************************************************************************)
EXTENDS Naturals, FiniteSets

CONSTANTS
    Emails,   \* addresses, already trimmed and in lower case
    Users,    \* user ids the server may come up with
    Names,    \* display names
    Tokens,   \* bound: refresh tokens the server may issue in one behaviour
    Workers   \* request goroutines that may run at the same time

VARIABLES
    users,     \* the rows of users, by id
    settings,  \* the rows of user_settings, by user id
    sessions,  \* the rows of user_sessions, by (the hash of) their token
    req,       \* the request each goroutine is serving
    faulted    \* auxiliary: some statement has failed, or the process crashed

vars == <<users, settings, sessions, req, faulted>>

User == [email : Emails, name : Names]

Setting == [theme : {"system", "dark"}, mute : BOOLEAN]
DefaultSetting == [theme |-> "system", mute |-> FALSE]

\* from is an auxiliary of the specification: the token a refresh exchanged for
\* this one, {} for a session that a login began.
Session == [user : Users, from : SUBSET Tokens, revoked : BOOLEAN]

\* The statement a request executes next, with what the handler holds by then.
Request ==
    [step : {"register.insert"}, email : Emails]
        \cup [step : {"settings.read", "settings.insert"}, user : Users, put : BOOLEAN]
        \cup [step : {"settings.write"}, user : Users, read : Setting]
        \cup [step : {"login.session", "login.update", "profile.write"},
              user : Users, row : User]
        \cup [step : {"refresh.revoke", "refresh.session"}, token : Tokens]

Idle == [step |-> "idle"]

TypeOK ==
    /\ DOMAIN users \subseteq Users /\ users \in [DOMAIN users -> User]
    /\ DOMAIN settings \subseteq DOMAIN users /\ settings \in [DOMAIN settings -> Setting]
    /\ DOMAIN sessions \subseteq Tokens /\ sessions \in [DOMAIN sessions -> Session]
    /\ req \in [Workers -> Request \cup {Idle}]
    /\ faulted \in BOOLEAN

-----------------------------------------------------------------------------
At(w, s) == req[w].step = s
Go(w, next) == req' = [req EXCEPT ![w] = next]
Goto(w, s) == req' = [req EXCEPT ![w].step = s]
Done(w) == Go(w, Idle)

\* INSERT or UPDATE of the row under a key.
Write(table, key, row) ==
    [k \in DOMAIN table \cup {key} |-> IF k = key THEN row ELSE table[k]]

\* A statement is executed and answered, fails, or is executed with its answer lost.
Outcomes == {"ok", "failed", "lost"}
Takes(o) == o # "failed"
Note(o) == faulted' = (faulted \/ o # "ok")

\* SELECT: the rows that are found, one at most.
GetByEmail(e) == {u \in DOMAIN users : users[u].email = e}
GetByID(u) == {users[v] : v \in DOMAIN users \cap {u}}
GetSessionByTokenHash(t) == {p \in DOMAIN sessions \cap {t} : ~sessions[p].revoked}

Registered(e) == GetByEmail(e) # {}

\* The tables after an INSERT of a user, and an UPDATE of a session.
Create(u, e, n) == Write(users, u, [email |-> e, name |-> n])
RevokeSession(t) == [sessions EXCEPT ![t].revoked = TRUE]

\* A client holds an access token of u: some login or refresh has issued it.
\* (Access tokens are checked by their signature, not against the sessions.)
Authenticated(u) == \E t \in DOMAIN sessions : sessions[t].user = u

\* Bounds: a request that may create an account, or a session, starts only
\* while the ids, or the tokens, suffice for all such requests under way.
MayRegister ==
    Cardinality(DOMAIN users) + Cardinality({w \in Workers : At(w, "register.insert")})
        < Cardinality(Users)

MayIssue ==
    Cardinality(DOMAIN sessions)
        + Cardinality({w \in Workers : req[w].step \in
              {"login.session", "refresh.revoke", "refresh.session"}})
        < Cardinality(Tokens)

-----------------------------------------------------------------------------
Init ==
    /\ users = [u \in {} |-> {}]
    /\ settings = [u \in {} |-> {}]
    /\ sessions = [t \in {} |-> {}]
    /\ req = [w \in Workers |-> Idle]
    /\ faulted = FALSE

(* Register: look the address up (an error counts as "not found"), INSERT  *)
(* the user, then create the settings the way a GET of them does.          *)
RegisterLookup(w) ==
    /\ req[w] = Idle
    /\ MayRegister
    /\ \E e \in Emails, o \in Outcomes :
        /\ o # "ok" \/ ~Registered(e)
        /\ Go(w, [step |-> "register.insert", email |-> e])
        /\ Note(o)
    /\ UNCHANGED <<users, settings, sessions>>

\* Mutant: no unique index, only the lookup before.
RegisterInsertUnindexed(w) ==
    /\ At(w, "register.insert")
    /\ \E u \in Users \ DOMAIN users, n \in Names :
        /\ users' = Create(u, req[w].email, n)
        /\ Go(w, [step |-> "settings.read", user |-> u, put |-> FALSE])
    /\ UNCHANGED <<settings, sessions, faulted>>

\* Mutant: the error of the INSERT is not looked at.
RegisterInsertUnchecked(w) ==
    /\ At(w, "register.insert")
    /\ \E u \in Users \ DOMAIN users, n \in Names, o \in Outcomes :
        /\ users' = IF Takes(o) /\ ~Registered(req[w].email)
                    THEN Create(u, req[w].email, n) ELSE users
        /\ Go(w, [step |-> "settings.read", user |-> u, put |-> FALSE])
        /\ Note(o)
    /\ UNCHANGED <<settings, sessions>>

\* The address is unique in the table: a second INSERT answers 409.
RegisterInsert(w) ==
    /\ At(w, "register.insert")
    /\ \/ /\ Registered(req[w].email)
          /\ Done(w)
          /\ UNCHANGED <<users, faulted>>
       \/ /\ ~Registered(req[w].email)
          /\ \E u \in Users \ DOMAIN users, n \in Names, o \in Outcomes :
              /\ users' = IF Takes(o) THEN Create(u, req[w].email, n) ELSE users
              /\ IF o = "ok" THEN Go(w, [step |-> "settings.read", user |-> u, put |-> FALSE])
                             ELSE Done(w)
              /\ Note(o)
    /\ UNCHANGED <<settings, sessions>>

(* Login: read the user, INSERT a session, write the user back with the    *)
(* time of the login.  (Wrong passwords and unknown addresses change       *)
(* nothing; no code makes an account inactive.)                            *)
LoginRead(w) ==
    /\ req[w] = Idle
    /\ MayIssue
    /\ \E e \in Emails : \E u \in GetByEmail(e) :
        Go(w, [step |-> "login.session", user |-> u, row |-> users[u]])
    /\ UNCHANGED <<users, settings, sessions, faulted>>

\* An id of its own in every token makes it differ from all others.
GenerateRefreshToken == Tokens \ DOMAIN sessions

\* INSERT a session under a token made for it.
Issue(u, from, o) ==
    /\ \E t \in GenerateRefreshToken :
        sessions' = IF Takes(o)
            THEN Write(sessions, t, [user |-> u, from |-> from, revoked |-> FALSE])
            ELSE sessions
    /\ Note(o)
    /\ UNCHANGED <<users, settings>>

LoginSession(w) ==
    /\ At(w, "login.session")
    /\ \E o \in Outcomes :
        /\ Issue(req[w].user, {}, o)
        /\ IF o = "ok" THEN Goto(w, "login.update") ELSE Done(w)

\* UPDATE of all columns of the row read before; an error is only logged.
UpdateUser(w, row) ==
    /\ \E o \in Outcomes :
        /\ users' = IF Takes(o) THEN Write(users, req[w].user, row) ELSE users
        /\ Note(o)
    /\ Done(w)
    /\ UNCHANGED <<settings, sessions>>

LoginUpdate(w) == At(w, "login.update") /\ UpdateUser(w, req[w].row)

\* Mutant: the lookup does not ask for revoked_at IS NULL.
RefreshLookupAny(w) ==
    /\ req[w] = Idle
    /\ MayIssue
    /\ \E t \in DOMAIN sessions : Go(w, [step |-> "refresh.revoke", token |-> t])
    /\ UNCHANGED <<users, settings, sessions, faulted>>

(* Refresh: find the session that is not revoked (nor expired, which only  *)
(* adds refusals) and its user, revoke it, INSERT a new one.               *)
RefreshLookup(w) ==
    /\ req[w] = Idle
    /\ MayIssue
    /\ \E t \in Tokens :
        /\ GetSessionByTokenHash(t) # {}
        /\ Go(w, [step |-> "refresh.revoke", token |-> t])
    /\ UNCHANGED <<users, settings, sessions, faulted>>

\* Mutant: the UPDATE is left out.
RefreshRevokeNothing(w) ==
    /\ At(w, "refresh.revoke")
    /\ Goto(w, "refresh.session")
    /\ UNCHANGED <<users, settings, sessions, faulted>>

\* Mutant: the UPDATE names the user instead of the session.
RefreshRevokeUser(w) ==
    /\ At(w, "refresh.revoke")
    /\ LET mine(t) == sessions[t].user = sessions[req[w].token].user
       IN  sessions' = [t \in DOMAIN sessions |->
                          IF mine(t) THEN [sessions[t] EXCEPT !.revoked = TRUE] ELSE sessions[t]]
    /\ Goto(w, "refresh.session")
    /\ UNCHANGED <<users, settings, faulted>>

\* An error of the UPDATE is only logged.
RefreshRevoke(w) ==
    /\ At(w, "refresh.revoke")
    /\ \E o \in Outcomes :
        /\ sessions' = IF Takes(o) THEN RevokeSession(req[w].token) ELSE sessions
        /\ Note(o)
    /\ Goto(w, "refresh.session")
    /\ UNCHANGED <<users, settings>>

RefreshSession(w) ==
    /\ At(w, "refresh.session")
    /\ \E o \in Outcomes : Issue(sessions[req[w].token].user, {req[w].token}, o)
    /\ Done(w)

(* UpdateMe: read the row, set the name, write the row. *)
ProfileRead(w) ==
    /\ req[w] = Idle
    /\ \E u \in Users : \E row \in GetByID(u) :
        /\ Authenticated(u)
        /\ Go(w, [step |-> "profile.write", user |-> u, row |-> row])
    /\ UNCHANGED <<users, settings, sessions, faulted>>

ProfileWrite(w) ==
    /\ At(w, "profile.write")
    /\ \E n \in Names : UpdateUser(w, [req[w].row EXCEPT !.name = n])

(* GET and PUT of the settings: authenticate, SELECT the row, INSERT the   *)
(* defaults when there is none, and for a PUT write the row back with the  *)
(* supplied fields changed.  A Boolean that is not supplied counts as      *)
(* FALSE.                                                                  *)
SettingsRequest(w) ==
    /\ req[w] = Idle
    /\ \E u \in DOMAIN users, put \in BOOLEAN :
        /\ Authenticated(u)
        /\ Go(w, [step |-> "settings.read", user |-> u, put |-> put])
    /\ UNCHANGED <<users, settings, sessions, faulted>>

\* The settings have been read, or created: a PUT goes on to write.
HaveSettings(w, row) ==
    IF req[w].put THEN Go(w, [step |-> "settings.write", user |-> req[w].user, read |-> row])
                  ELSE Done(w)

SettingsRead(w) ==
    /\ At(w, "settings.read")
    /\ \E o \in Outcomes :
        /\ IF o # "ok" THEN Done(w)
           ELSE IF req[w].user \in DOMAIN settings THEN HaveSettings(w, settings[req[w].user])
           ELSE Goto(w, "settings.insert")
        /\ Note(o)
    /\ UNCHANGED <<users, settings, sessions>>

\* Mutant: INSERT ... ON CONFLICT DO UPDATE.
SettingsUpsert(w) ==
    /\ At(w, "settings.insert")
    /\ settings' = Write(settings, req[w].user, DefaultSetting)
    /\ HaveSettings(w, DefaultSetting)
    /\ UNCHANGED <<users, sessions, faulted>>

\* The primary key refuses a second row: an error answer, no change.
SettingsInsert(w) ==
    /\ At(w, "settings.insert")
    /\ \/ /\ req[w].user \in DOMAIN settings
          /\ Done(w)
          /\ UNCHANGED <<settings, faulted>>
       \/ /\ req[w].user \notin DOMAIN settings
          /\ \E o \in Outcomes :
              /\ settings' = IF Takes(o) THEN Write(settings, req[w].user, DefaultSetting)
                                         ELSE settings
              /\ IF o = "ok" THEN HaveSettings(w, DefaultSetting) ELSE Done(w)
              /\ Note(o)
    /\ UNCHANGED <<users, sessions>>

SettingsWrite(w) ==
    /\ At(w, "settings.write")
    /\ \E theme \in {req[w].read.theme, "dark"}, mute \in BOOLEAN, o \in Outcomes :
        /\ settings' = IF Takes(o)
              THEN Write(settings, req[w].user, [theme |-> theme, mute |-> mute])
              ELSE settings
        /\ Note(o)
    /\ Done(w)
    /\ UNCHANGED <<users, sessions>>

(* The process dies with the requests under way; the tables stay. *)
Crash ==
    /\ \E w \in Workers : req[w] # Idle
    /\ req' = [w \in Workers |-> Idle]
    /\ faulted' = TRUE
    /\ UNCHANGED <<users, settings, sessions>>

-----------------------------------------------------------------------------
AuthRequest(w) == RegisterLookup(w) \/ LoginRead(w) \/ RefreshLookup(w)

Next ==
    \/ \E w \in Workers :
        \/ AuthRequest(w) \/ RegisterInsert(w)
        \/ LoginSession(w) \/ LoginUpdate(w)
        \/ RefreshRevoke(w) \/ RefreshSession(w)
        \/ ProfileRead(w) \/ ProfileWrite(w)
        \/ SettingsRequest(w) \/ SettingsRead(w) \/ SettingsInsert(w) \/ SettingsWrite(w)
    \/ Crash

Spec == Init /\ [][Next]_vars

-----------------------------------------------------------------------------
\* Two Registers of one address that both find it free make one account, also
\* when the lookup fails and when the writes of whole rows by Login and
\* UpdateMe come late.
OneAccountPerEmail ==
    \A u, v \in DOMAIN users : users[u].email = users[v].email => u = v

\* "The previous refresh token is revoked" (API.md), as long as nothing fails:
\* a token that was exchanged for another is no longer accepted once the other
\* exists, also when several refreshes race with the same token.
RotatedIsRevoked ==
    ~faulted => \A t \in DOMAIN sessions : \A p \in sessions[t].from :
        p \in DOMAIN sessions /\ sessions[p].revoked

\* A refresh does not log its user out: as long as nothing fails, a revoked
\* token has been exchanged for another one, or is about to be.
RotationKeepsLogin ==
    ~faulted => \A p \in DOMAIN sessions : sessions[p].revoked =>
        \/ \E t \in DOMAIN sessions : p \in sessions[t].from
        \/ \E w \in Workers : At(w, "refresh.session") /\ req[w].token = p

\* A token is spent when it is revoked and no refresh that found it alive is
\* still under way.
Spent(p) ==
    /\ p \in DOMAIN sessions
    /\ sessions[p].revoked
    /\ \A w \in Workers :
        req[w].step \in {"refresh.revoke", "refresh.session"} => req[w].token # p

\* A spent token stays spent and yields no session any more, whatever fails.
SpentTokenIsDead ==
    [][\A p \in Tokens : Spent(p) =>
        /\ Spent(p)'
        /\ \A t \in Tokens :
            t \in DOMAIN sessions' /\ p \in sessions'[t].from => t \in DOMAIN sessions]_vars

\* Settings that a PUT has written are not taken back by a GET, or a Register,
\* that found no row and comes to create the defaults late.
DefaultsNeverOverwrite ==
    [][\A u \in DOMAIN settings :
        /\ u \in DOMAIN settings'
        /\ settings'[u] # settings[u] =>
            \E w \in Workers : At(w, "settings.write") /\ req[w].user = u]_vars

-----------------------------------------------------------------------------
\* "Update last login time" (service Login): a login changes nothing else of
\* the account, so only UpdateMe changes a name; at least when nothing fails.
LoginKeepsProfile ==
    [][\A u \in DOMAIN users : ~faulted /\ users'[u].name # users[u].name =>
        \E w \in Workers : At(w, "profile.write") /\ req[w].user = u]_vars
=============================================================================
