------------------------- MODULE ScreenClientProofs -------------------------
(***************************************************************************)
(* Theorems about ScreenClient, for any number of starts and of stops that *)
(* wait at the same time.                                                  *)
(***************************************************************************)
EXTENDS ScreenClient, TLAPS

-----------------------------------------------------------------------------
(* The invariant. *)

\* The page has no connection open but the one it remembers.
OneConnection == open = {pc} \ {None}

Free == \A o \in Offers : ~Starting(o)
NoStop == \A s \in Stops : stop[s] = Idle

\* At most one handler is suspended.
OneAtATime ==
    /\ \A o, p \in Offers : Starting(o) /\ Starting(p) => o = p
    /\ \A o \in Offers, s \in Stops : Starting(o) => stop[s] = Idle
    /\ \A s, t \in Stops : stop[s] # Idle /\ stop[t] # Idle => s = t

\* The page remembers the screen it captures, and captures none before it is asked.
OneScreen ==
    /\ captured \subseteq {track}
    /\ \A o \in Offers : Starting(o) /\ start[o] # "publishing" => captured = {}

\* Nothing is kept between the handlers while nothing is shared.
Quiet ==
    place \in {"lobby", "room"} /\ Free /\ NoStop /\ ~sharing =>
        pc = None /\ peerId = None /\ captured = {}

\* Until its answer comes, a start has no session.
NoneYet == \A o \in Offers : start[o] \in {"creating", "offering"} => peerId = None

\* The page knows the session that the server serves.
OneSession == ~lost => \A o \in Offers : session[o] = "live" => peerId = o

\* A stop that waits has named the session, and its answer means that it is over.
StopsFit ==
    \A s \in Stops : stop[s] # Idle =>
        /\ stop[s].offer = peerId
        /\ stop[s].answered /\ ~lost => session[peerId] # "live"

\* The leave button has come to an end of all that.
Left ==
    ~strayed /\ place \in {"leaving", "left", "gone"} => Free /\ NoStop /\ peerId = None

Orderly ==
    /\ OneAtATime /\ OneScreen /\ Quiet /\ NoneYet
    /\ OneSession /\ StopsFit /\ Left

IInv == TypeOK /\ OneConnection /\ (~tangled => Orderly)

-----------------------------------------------------------------------------
(* Types. *)

\* What a step of a handler may do to the variables of the page.
ShownType ==
    /\ pc \in Offers \cup {None} /\ peerId \in Offers \cup {None} /\ track \in Offers \cup {None}
    /\ open \subseteq Offers /\ captured \subseteq Offers

StartType == start \in [Offers -> StartSteps]
StopType == stop \in [Stops -> Stop \cup {Idle}]

LEMMA TypeParts ==
    TypeOK <=> /\ session \in [Offers -> Server!States]
               /\ place \in Places /\ StartType /\ StopType /\ ShownType
               /\ viewed \subseteq remote /\ remote \subseteq Offers
               /\ sharing \in BOOLEAN /\ tangled \in BOOLEAN
               /\ lost \in BOOLEAN /\ strayed \in BOOLEAN
BY DEF TypeOK, ShownType, StartType, StopType

LEMMA TypeNext ==
    TypeOK' <=> /\ session' \in [Offers -> Server!States]
                /\ place' \in Places /\ StartType' /\ StopType' /\ ShownType'
                /\ viewed' \subseteq remote' /\ remote' \subseteq Offers
                /\ sharing' \in BOOLEAN /\ tangled' \in BOOLEAN
                /\ lost' \in BOOLEAN /\ strayed' \in BOOLEAN
BY DEF TypeOK, ShownType, StartType, StopType

LEMMA StartGoesTo ==
    ASSUME StartType, NEW o \in Offers, NEW step \in StartSteps, StartGoes(o, step)
    PROVE  /\ StartType'
           /\ start'[o] = step
           /\ \A p \in Offers \ {o} : start'[p] = start[p]
BY DEF StartType, StartGoes

LEMMA ConnectionCloses ==
    ASSUME ShownType, CloseConnection
    PROVE  pc' \in Offers \cup {None} /\ open' \subseteq Offers
BY DEF ShownType, CloseConnection

LEMMA Finishes ==
    ASSUME TypeOK, NEW leave \in BOOLEAN, FinishStop(leave)
    PROVE  /\ ShownType' /\ place' \in Places /\ sharing' \in BOOLEAN
           /\ pc' = None /\ peerId' = None /\ open' = open \ {pc}
           /\ captured' \subseteq captured
           /\ leave => place' = "leaving" /\ UNCHANGED <<track, captured>>
           /\ ~leave => /\ place' = place /\ captured' = captured \ {track}
                        /\ track' = None /\ ~sharing'
<1>1. CASE leave
    BY <1>1, TypeParts DEF FinishStop, EndServerShare, CloseConnection, ShownType, Places
<1>2. CASE ~leave
    BY <1>2, TypeParts
       DEF FinishStop, EndServerShare, EndLiveKitShare, CloseConnection, ShownType, Places
<1> QED
    BY <1>1, <1>2

LEMMA SendsHangup ==
    ASSUME TypeOK, NEW id \in Offers, NEW leave \in BOOLEAN, SendHangup(id, leave)
    PROVE  /\ StopType'
           /\ \E s \in Stops :
                /\ stop[s] = Idle
                /\ stop'[s] = [offer |-> id, leave |-> leave, answered |-> FALSE]
                /\ \A t \in Stops \ {s} : stop'[t] = stop[t]
<1>1. PICK s \in Stops :
        /\ stop[s] = Idle
        /\ stop' = [stop EXCEPT ![s] = [offer |-> id, leave |-> leave, answered |-> FALSE]]
    BY DEF SendHangup
<1>2. [offer |-> id, leave |-> leave, answered |-> FALSE] \in Stop
    BY DEF Stop
<1> QED
    BY <1>1, <1>2, TypeParts DEF StopType

\* What a stop begins with: a hangup, or its end.
LEMMA Begins ==
    ASSUME TypeOK, NEW leave \in BOOLEAN, BeginStop(leave)
    PROVE  /\ ShownType' /\ StopType' /\ place' \in Places /\ sharing' \in BOOLEAN
           /\ \/ /\ peerId \in Offers /\ SendHangup(peerId, leave)
                 /\ UNCHANGED <<place, pc, peerId, track, sharing, open, captured>>
              \/ peerId = None /\ FinishStop(leave) /\ UNCHANGED stop
<1>1. CASE peerId # None
    <2>1. peerId \in Offers /\ SendHangup(peerId, leave)
        BY <1>1, TypeParts DEF BeginStop, ShownType
    <2>2. UNCHANGED <<place, pc, peerId, track, sharing, open, captured>>
        BY <1>1 DEF BeginStop
    <2> QED
        BY <2>1, <2>2, SendsHangup, TypeParts DEF ShownType
<1>2. CASE peerId = None
    <2>1. FinishStop(leave) /\ UNCHANGED stop
        BY <1>2 DEF BeginStop
    <2> QED
        BY <1>2, <2>1, Finishes, TypeParts DEF StopType
<1> QED
    BY <1>1, <1>2

\* The three ends of a start that failed.
LEMMA Catches ==
    ASSUME TypeOK, NEW o \in Offers, NEW id \in Offers \cup {None}, Catch(o, id)
    PROVE  /\ StartType' /\ StopType' /\ ShownType'
           /\ place' \in Places /\ sharing' \in BOOLEAN
<1>1. \A step \in {"asking", "done"} : StartGoes(o, step) => StartType'
    BY StartGoesTo, TypeParts DEF StartSteps
<1>2. CASE /\ StartGoes(o, "asking")
           /\ peerId' = id /\ CloseConnection
           /\ UNCHANGED <<place, stop, track, sharing, captured>>
    BY <1>1, <1>2, ConnectionCloses, TypeParts DEF ShownType, StopType
<1>3. CASE StartGoes(o, "done") /\ FinishStop(FALSE) /\ UNCHANGED stop
    BY <1>1, <1>3, Finishes, TypeParts DEF StopType
<1>4. CASE /\ id # None /\ StartGoes(o, "done")
           /\ SendHangup(id, FALSE)
           /\ peerId' = id /\ CloseConnection
           /\ UNCHANGED <<place, track, sharing, captured>>
    BY <1>1, <1>4, SendsHangup, ConnectionCloses, TypeParts DEF ShownType
<1> QED
    BY <1>2, <1>3, <1>4 DEF Catch

LEMMA ServerSteps ==
    ASSUME TypeOK, NEW o \in Offers,
           \/ Server!Open(o) \/ Server!Refuse(o) \/ Server!Tell(o)
           \/ Server!Hangup(o) \/ Server!End(o)
    PROVE  /\ session' \in [Offers -> Server!States]
           /\ \A p \in Offers \ {o} : session'[p] = session[p]
BY DEF TypeOK, Server!Open, Server!Refuse, Server!Tell, Server!Hangup, Server!End,
       Server!Becomes, Server!States

LEMMA TypeInit == Init => TypeOK
BY DEF Init, TypeOK, Server!Init, Server!States, Places, StartSteps

LEMMA TypeClick ==
    ASSUME TypeOK, ClickAgain \/ ClickStop \/ ConnectionLost
    PROVE  TypeOK'
<1>1. CASE ClickAgain
    BY <1>1, TypeParts, TypeNext DEF ClickAgain, page, aux, StartType, StopType, ShownType
<1>2. CASE ConnectionLost
    BY <1>2, TypeParts, TypeNext, ConnectionCloses
       DEF ConnectionLost, page, aux, StartType, StopType, ShownType
<1>3. CASE ClickStop
    BY <1>3, TypeParts, TypeNext, Begins DEF ClickStop, StopNow, StartType
<1> QED
    BY <1>1, <1>2, <1>3

LEMMA TypeStart ==
    ASSUME TypeOK, NEW o \in Offers,
           \/ ClickStart(o) \/ Created(o) \/ Served(o) \/ OfferFailed(o)
           \/ OfferAnswered(o) \/ Described(o)
    PROVE  TypeOK'
<1>1. CASE Created(o)
    BY <1>1, TypeParts, TypeNext, StartGoesTo, Catches
       DEF Created, StartSteps, aux, StopType, ShownType
<1>2. CASE Served(o)
    BY <1>2, TypeParts, TypeNext, ServerSteps
       DEF Served, page, shown, aux, StartType, StopType, ShownType
<1>3. CASE OfferFailed(o)
    BY <1>3, TypeParts, TypeNext, Catches DEF OfferFailed, aux, ShownType
<1>4. CASE OfferAnswered(o)
    <2>1. session' \in [Offers -> Server!States]
        BY <1>4, ServerSteps DEF OfferAnswered
    <2>2. UNCHANGED aux
        BY <1>4 DEF OfferAnswered
    <2>3. CASE /\ pc # None
               /\ StartGoes(o, "described")
               /\ peerId' = o
               /\ remote' = remote \cup {pc} /\ viewed' = viewed \cup {pc}
               /\ UNCHANGED <<place, stop, pc, track, sharing, open, captured>>
        BY <2>1, <2>2, <2>3, TypeParts, TypeNext, StartGoesTo
           DEF StartSteps, aux, StopType, ShownType
    <2>4. CASE Catch(o, o) /\ UNCHANGED <<remote, viewed>>
        BY <2>1, <2>2, <2>4, TypeParts, TypeNext, Catches DEF aux
    <2> QED
        BY <1>4, <2>3, <2>4 DEF OfferAnswered
<1>5. CASE Described(o)
    BY <1>5, TypeParts, TypeNext, StartGoesTo, Catches
       DEF Described, StartSteps, aux, StopType, ShownType
<1>6. CASE ClickStart(o)
    BY <1>6, TypeParts, TypeNext, StartGoesTo DEF ClickStart, StartSteps, StopType, ShownType
<1> QED
    BY <1>1, <1>2, <1>3, <1>4, <1>5, <1>6

LEMMA TypeFallback ==
    ASSUME TypeOK, NEW o \in Offers, Asked(o) \/ Published(o)
    PROVE  TypeOK'
<1>1. ASSUME GiveUp(o)
      PROVE  StartType' /\ StopType' /\ ShownType' /\ place' \in Places /\ sharing' \in BOOLEAN
    BY <1>1, TypeParts, TypeNext, StartGoesTo, Begins DEF GiveUp, StartSteps
<1>2. CASE Asked(o)
    BY <1>1, <1>2, TypeParts, TypeNext, StartGoesTo DEF Asked, StartSteps, aux, StopType, ShownType
<1>3. CASE Published(o)
    BY <1>1, <1>3, TypeParts, TypeNext, StartGoesTo DEF Published, StartSteps, aux, StopType, ShownType
<1> QED
    BY <1>2, <1>3

LEMMA TypeStop ==
    ASSUME TypeOK, NEW s \in Stops, HangupServed(s) \/ ResumeStop(s)
    PROVE  TypeOK'
<1>1. stop[s] # Idle => stop[s] \in Stop
    BY TypeParts, TypeNext DEF StopType
<1>2. CASE HangupServed(s)
    <2>1. stop[s].offer \in Offers /\ [stop[s] EXCEPT !.answered = TRUE] \in Stop
        BY <1>1, <1>2 DEF HangupServed, Stop
    <2>2. StopType'
        BY <1>2, <2>1, TypeParts, TypeNext DEF HangupServed, StopType
    <2>3. session' \in [Offers -> Server!States] /\ lost' \in BOOLEAN
        BY <1>2, <2>1, ServerSteps, TypeParts, TypeNext DEF HangupServed
    <2> QED
        BY <1>2, <2>2, <2>3, TypeParts, TypeNext DEF HangupServed, shown, StartType, ShownType
<1>3. CASE ResumeStop(s)
    <2>1. stop[s].leave \in BOOLEAN
        BY <1>1, <1>3 DEF ResumeStop, Stop
    <2>2. StopType'
        BY <1>3, TypeParts, TypeNext DEF ResumeStop, StopType
    <2> QED
        BY <1>3, <2>1, <2>2, TypeParts, TypeNext, Finishes DEF ResumeStop, aux, StartType
<1> QED
    BY <1>2, <1>3

LEMMA TypeEvent ==
    ASSUME TypeOK, NEW o \in Offers, TrackEnded(o) \/ BrowserStops(o)
    PROVE  TypeOK'
<1>1. CASE TrackEnded(o)
    BY <1>1, TypeParts, TypeNext, Begins DEF TrackEnded, StopNow, StartType
<1>2. CASE BrowserStops(o)
    BY <1>2, TypeParts, TypeNext, Begins DEF BrowserStops, StopNow, StartType
<1> QED
    BY <1>1, <1>2

LEMMA TypePage ==
    ASSUME TypeOK, EnterRoom \/ LeaveClick \/ Disconnected \/ GoAway
    PROVE  TypeOK'
<1>1. CASE EnterRoom \/ Disconnected
    BY <1>1, TypeParts, TypeNext
       DEF EnterRoom, Disconnected, shown, aux, Places, StartType, StopType, ShownType
<1>2. CASE LeaveClick
    <2>1. CASE Connected
        BY <1>2, <2>1, TypeParts, TypeNext, Begins DEF LeaveClick, StopNow, StartType
    <2>2. CASE ~Connected
        BY <1>2, <2>2, TypeParts, TypeNext DEF LeaveClick, Places, StartType, StopType, ShownType
    <2> QED
        BY <2>1, <2>2
<1>3. CASE GoAway
    BY <1>3, TypeParts, TypeNext DEF GoAway, Places, StartType, StopType, ShownType
<1> QED
    BY <1>1, <1>2, <1>3

LEMMA StepTypes == TypeOK /\ [Next]_vars => TypeOK'
<1> SUFFICES ASSUME TypeOK, [Next]_vars PROVE TypeOK'
    OBVIOUS
<1>1. CASE UNCHANGED vars
    BY <1>1, TypeParts, TypeNext DEF vars, page, shown, aux, StartType, StopType, ShownType
<1> QED
    BY <1>1, TypeClick, TypeStart, TypeFallback, TypeStop, TypeEvent, TypePage
       DEF Next

-----------------------------------------------------------------------------
(* The one connection. *)

LEMMA CloseOne ==
    ASSUME OneConnection, CloseConnection
    PROVE  OneConnection'
BY DEF OneConnection, CloseConnection

LEMMA FinishOne ==
    ASSUME OneConnection, NEW leave \in BOOLEAN, FinishStop(leave)
    PROVE  OneConnection'
BY CloseOne DEF FinishStop, EndServerShare

LEMMA BeginOne ==
    ASSUME TypeOK, OneConnection, NEW leave \in BOOLEAN, BeginStop(leave)
    PROVE  OneConnection'
BY Begins, FinishOne DEF OneConnection

LEMMA CatchOne ==
    ASSUME OneConnection, NEW o \in Offers, NEW id, Catch(o, id)
    PROVE  OneConnection'
BY CloseOne, FinishOne DEF Catch

LEMMA StepOneConnection == TypeOK /\ OneConnection /\ [Next]_vars => OneConnection'
<1> SUFFICES ASSUME TypeOK, OneConnection, [Next]_vars PROVE OneConnection'
    OBVIOUS
<1>1. CASE UNCHANGED vars
    BY <1>1 DEF vars, shown, OneConnection
<1>2. CASE ClickAgain \/ ClickStop \/ ConnectionLost
    BY <1>2, BeginOne, CloseOne DEF ClickAgain, ClickStop, StopNow, ConnectionLost, OneConnection
<1>3. CASE EnterRoom \/ LeaveClick \/ Disconnected \/ GoAway
    BY <1>3, BeginOne
       DEF EnterRoom, LeaveClick, StopNow, Disconnected, GoAway, shown, OneConnection
<1>4. ASSUME NEW s \in Stops, HangupServed(s) \/ ResumeStop(s) PROVE OneConnection'
    <2>1. CASE HangupServed(s)
        BY <2>1 DEF HangupServed, shown, OneConnection
    <2>2. CASE ResumeStop(s)
        <3>1. stop[s].leave \in BOOLEAN
            BY <2>2, TypeParts DEF ResumeStop, StopType, Stop
        <3> QED
            BY <2>2, <3>1, FinishOne DEF ResumeStop
    <2> QED
        BY <1>4, <2>1, <2>2
<1>5. ASSUME NEW o \in Offers,
             ClickStart(o) \/ Created(o) \/ Served(o) \/ OfferFailed(o) \/ OfferAnswered(o)
      PROVE  OneConnection'
    <2>1. CASE ClickStart(o)
        BY <2>1, ConstantsAssumption DEF ClickStart, OneConnection
    <2>2. CASE Created(o) \/ OfferFailed(o) \/ OfferAnswered(o)
        BY <2>2, CatchOne DEF Created, OfferFailed, OfferAnswered, OneConnection
    <2>3. CASE Served(o)
        BY <2>3 DEF Served, shown, OneConnection
    <2> QED
        BY <1>5, <2>1, <2>2, <2>3
<1>6. ASSUME NEW o \in Offers,
             Described(o) \/ Asked(o) \/ Published(o) \/ TrackEnded(o) \/ BrowserStops(o)
      PROVE  OneConnection'
    BY <1>6, CatchOne, BeginOne
       DEF Described, Asked, Published, GiveUp, TrackEnded, BrowserStops, StopNow, OneConnection
<1> QED
    BY <1>1, <1>2, <1>3, <1>4, <1>5, <1>6 DEF Next

-----------------------------------------------------------------------------
(* While handlers do not get in each other's way. *)

\* The steps that are the end of all handlers: the share is over.
LEMMA Finished ==
    ASSUME TypeOK, captured \subseteq {track}, NEW leave \in BOOLEAN, FinishStop(leave),
           Free', NoStop', lost' \/ \A o \in Offers : session'[o] # "live"
    PROVE  Orderly'
<1>1. captured' \subseteq {track'} /\ (~leave => captured' = {})
    BY Finishes
<1>2. pc' = None /\ peerId' = None /\ (leave => place' = "leaving")
    BY Finishes
<1>3. OneAtATime' /\ OneScreen' /\ NoneYet'
    BY <1>1 DEF Free, NoStop, OneAtATime, OneScreen, NoneYet, Starting
<1>4. Quiet'
    BY <1>1, <1>2 DEF Quiet
<1>5. OneSession' /\ StopsFit' /\ Left'
    BY <1>2 DEF Free, NoStop, OneSession, StopsFit, Left
<1> QED
    BY <1>3, <1>4, <1>5 DEF Orderly

\* A hangup is sent, and nothing else is under way.
LEMMA HangsUp ==
    ASSUME TypeOK, captured \subseteq {track}, NEW id \in Offers, NEW leave \in BOOLEAN,
           SendHangup(id, leave), peerId' = id,
           Free', NoStop, strayed \/ place \in {"lobby", "room"},
           UNCHANGED <<place, track, captured, lost, strayed>>,
           lost \/ \A o \in Offers : session'[o] = "live" => o = id
    PROVE  Orderly'
<1>1. PICK s \in Stops :
        /\ stop'[s] = [offer |-> id, leave |-> leave, answered |-> FALSE]
        /\ \A t \in Stops \ {s} : stop'[t] = stop[t]
    BY SendsHangup
<1>2. \A t \in Stops \ {s} : stop'[t] = Idle
    BY <1>1 DEF NoStop
<1>3. stop'[s] # Idle /\ stop'[s].offer = id /\ ~stop'[s].answered
    BY <1>1 DEF Idle
<1>4. OneAtATime' /\ OneScreen' /\ NoneYet'
    BY <1>2 DEF Free, OneAtATime, OneScreen, NoneYet, Starting
<1>5. Quiet' /\ OneSession' /\ Left'
    BY <1>3 DEF Quiet, NoStop, OneSession, Left
<1>6. StopsFit'
    BY <1>2, <1>3 DEF StopsFit
<1> QED
    BY <1>4, <1>5, <1>6 DEF Orderly

\* A start that is under way is the only handler, and the page has not been left
\* by the button.
LEMMA OneStart ==
    ASSUME Orderly, NEW o \in Offers, Starting(o)
    PROVE  /\ \A p \in Offers \ {o} : ~Starting(p)
           /\ NoStop
           /\ UnderWay(o) => strayed \/ place \in {"lobby", "room"} \/ place \notin Places
           /\ captured \subseteq {track}
BY DEF Orderly, OneAtATime, NoStop, UnderWay, Here, Left, Free, OneScreen, Places

\* A start goes on to its next await, or is done with something to show.
LEMMA GoesOn ==
    ASSUME TypeOK, Orderly, NEW o \in Offers, UnderWay(o),
           NEW step \in StartSteps \ {"none", "creating"}, StartGoes(o, step),
           UNCHANGED <<place, stop, aux>>,
           captured' \subseteq {track'},
           step \notin {"publishing", "done"} => captured' = {},
           step = "done" => sharing',
           step = "offering" => peerId' = None,
           lost \/ \A p \in Offers : session'[p] = "live" => p = peerId'
    PROVE  Orderly'
<1>1. start'[o] = step /\ \A p \in Offers \ {o} : start'[p] = start[p]
    BY StartGoesTo, TypeParts
<1>2. /\ \A p \in Offers \ {o} : ~Starting(p)
      /\ NoStop
      /\ strayed \/ place \in {"lobby", "room"}
    BY OneStart, TypeParts DEF UnderWay
<1>3. \A p \in Offers \ {o} : ~Starting(p)' /\ start'[p] \in {"none", "done"}
    BY <1>1, <1>2 DEF Starting
<1>4. NoStop'
    BY <1>2 DEF NoStop
<1>5. OneAtATime' /\ OneScreen' /\ NoneYet'
    <2>1. OneAtATime'
        BY <1>3, <1>4 DEF OneAtATime, NoStop
    <2>2. OneScreen'
        BY <1>1, <1>3 DEF OneScreen, Starting
    <2>3. NoneYet'
        BY <1>1, <1>3 DEF NoneYet
    <2> QED
        BY <2>1, <2>2, <2>3
<1>6. Quiet'
    BY <1>1 DEF Quiet, Free, Starting, StartSteps
<1>7. OneSession' /\ StopsFit' /\ Left'
    BY <1>2, <1>4 DEF OneSession, StopsFit, NoStop, Left, aux
<1> QED
    BY <1>5, <1>6, <1>7 DEF Orderly

\* When the last start is done nothing is under way.
LEMMA LastStart ==
    ASSUME TypeOK, Orderly, NEW o \in Offers, Starting(o), StartGoes(o, "done")
    PROVE  Free'
<1>1. start'[o] = "done" /\ \A p \in Offers \ {o} : start'[p] = start[p]
    BY StartGoesTo, TypeParts DEF StartSteps
<1> QED
    BY <1>1, OneStart DEF Free, Starting

\* The end of a start that failed.
LEMMA CatchStep ==
    ASSUME TypeOK, Orderly, NEW o \in Offers, UnderWay(o), start[o] # "publishing",
           NEW id \in Offers \cup {None}, Catch(o, id), UNCHANGED aux,
           lost \/ \A p \in Offers : session'[p] = "live" => p = id
    PROVE  Orderly'
<1>1. /\ captured = {} /\ captured \subseteq {track}
      /\ NoStop
      /\ strayed \/ place \in {"lobby", "room"}
    BY OneStart, TypeParts DEF Orderly, OneScreen, UnderWay
<1>2. UNCHANGED lost /\ UNCHANGED strayed
    BY DEF aux
<1>3. StartGoes(o, "done") => Free'
    BY LastStart DEF UnderWay
<1>4. CASE /\ StartGoes(o, "asking")
           /\ peerId' = id
           /\ UNCHANGED <<place, stop, track, captured>>
    BY <1>1, <1>4, GoesOn DEF StartSteps
<1>5. CASE id = None /\ StartGoes(o, "done") /\ FinishStop(FALSE) /\ UNCHANGED stop
    <2>1. NoStop'
        BY <1>1, <1>5 DEF NoStop
    <2>2. lost' \/ \A p \in Offers : session'[p] # "live"
        BY <1>2, <1>5, ConstantsAssumption
    <2> QED
        BY <1>1, <1>3, <1>5, <2>1, <2>2, Finished
<1>6. CASE /\ id # None /\ StartGoes(o, "done")
           /\ SendHangup(id, FALSE)
           /\ peerId' = id
           /\ UNCHANGED <<place, track, captured>>
    BY <1>1, <1>2, <1>3, <1>6, HangsUp
<1> QED
    BY <1>4, <1>5, <1>6 DEF Catch

\* A stop begins when no handler is under way (any more).
LEMMA BeginStep ==
    ASSUME TypeOK, Orderly, NEW leave \in BOOLEAN, BeginStop(leave),
           Free', NoStop, strayed \/ place \in {"lobby", "room"},
           UNCHANGED <<session, lost, strayed>>
    PROVE  Orderly'
<1>1. captured \subseteq {track} /\ OneSession
    BY DEF Orderly, OneScreen
<1>2. CASE /\ peerId \in Offers /\ SendHangup(peerId, leave)
           /\ UNCHANGED <<place, pc, peerId, track, sharing, open, captured>>
    BY <1>1, <1>2, HangsUp DEF OneSession
<1>3. CASE peerId = None /\ FinishStop(leave) /\ UNCHANGED stop
    <2>1. NoStop'
        BY <1>3 DEF NoStop
    <2>2. lost' \/ \A o \in Offers : session'[o] # "live"
        BY <1>1, <1>3, ConstantsAssumption DEF OneSession
    <2> QED
        BY <1>1, <1>3, <2>1, <2>2, Finished
<1> QED
    BY <1>2, <1>3, Begins

\* A stop that is set off disturbs no other handler.
LEMMA StopNowStep ==
    ASSUME TypeOK, Orderly, Here, NEW leave \in BOOLEAN, StopNow(leave), ~tangled',
           UNCHANGED <<session, start, lost, strayed>>
    PROVE  Orderly'
<1>1. ~Busy
    BY DEF StopNow
<1>2. Free /\ NoStop /\ place \in {"lobby", "room"}
    BY <1>1, TypeParts DEF Busy, Free, NoStop, Here, Places
<1>3. Free'
    BY <1>2 DEF Free, Starting
<1> QED
    BY <1>2, <1>3, BeginStep DEF StopNow

LEMMA ClickStep ==
    ASSUME TypeOK, Orderly, ~tangled', ClickAgain \/ ClickStop \/ ConnectionLost
    PROVE  Orderly'
<1>1. CASE ClickAgain
    BY <1>1 DEF ClickAgain, page, aux, Orderly, OneAtATime, OneScreen, Quiet, NoneYet,
                OneSession, StopsFit, Left, Free, NoStop, Starting
<1>2. CASE ClickStop
    BY <1>2, StopNowStep DEF ClickStop
<1>3. CASE ConnectionLost
    BY <1>3 DEF ConnectionLost, CloseConnection, page, aux, Orderly, OneAtATime, OneScreen,
                Quiet, NoneYet, OneSession, StopsFit, Left, Free, NoStop, Starting
<1> QED
    BY <1>1, <1>2, <1>3

LEMMA ClickStartStep ==
    ASSUME TypeOK, Orderly, ~tangled', NEW o \in Offers, ClickStart(o)
    PROVE  Orderly'
<1>1. ~Busy
    BY DEF ClickStart
<1>2. Free /\ NoStop /\ place \in {"lobby", "room"}
    BY <1>1, TypeParts DEF Busy, Free, NoStop, ClickStart, Here, Places
<1>3. peerId = None /\ captured = {} /\ captured \subseteq {track}
    BY <1>2 DEF Orderly, Quiet, ClickStart
<1>4. start'[o] = "creating" /\ \A p \in Offers \ {o} : start'[p] = start[p]
    BY StartGoesTo, TypeParts DEF ClickStart, StartSteps
<1>5. \A p \in Offers \ {o} : ~Starting(p)'
    BY <1>2, <1>4 DEF Free, Starting
<1>6. NoStop'
    BY <1>2 DEF NoStop, ClickStart
<1>7. OneAtATime' /\ OneScreen' /\ NoneYet'
    BY <1>3, <1>5, <1>6 DEF OneAtATime, OneScreen, NoneYet, NoStop, ClickStart
<1>8. Quiet'
    BY <1>4 DEF Quiet, Free, Starting
<1>9. OneSession' /\ StopsFit' /\ Left'
    BY <1>2, <1>3, <1>6 DEF Orderly, OneSession, StopsFit, NoStop, Left, ClickStart
<1> QED
    BY <1>7, <1>8, <1>9 DEF Orderly

\* A start before its answer: the server serves nothing of this page.
LEMMA NothingServed ==
    ASSUME Orderly, NEW o \in Offers, start[o] \in {"creating", "offering"}
    PROVE  peerId = None /\ (lost \/ \A p \in Offers : session[p] # "live")
BY ConstantsAssumption DEF Orderly, NoneYet, OneSession

LEMMA OfferStep ==
    ASSUME TypeOK, Orderly, ~tangled', NEW o \in Offers,
           Created(o) \/ OfferFailed(o) \/ OfferAnswered(o)
    PROVE  Orderly'
<1>1. UnderWay(o) /\ start[o] \in {"creating", "offering"} /\ UNCHANGED aux
    BY DEF Created, OfferFailed, OfferAnswered
<1>2. peerId = None /\ (lost \/ \A p \in Offers : session[p] # "live")
    BY <1>1, NothingServed
<1>3. captured = {} /\ captured \subseteq {track}
    BY <1>1 DEF Orderly, OneScreen, UnderWay
<1>4. CASE Created(o) \/ OfferFailed(o)
    <2>1. UNCHANGED session
        BY <1>4 DEF Created, OfferFailed
    <2>2. CASE StartGoes(o, "offering")
               /\ UNCHANGED <<place, stop, pc, peerId, track, sharing, open, captured>>
        BY <1>1, <1>2, <1>3, <2>1, <2>2, GoesOn DEF StartSteps
    <2>3. CASE Catch(o, peerId)
        BY <1>1, <1>2, <2>1, <2>3, CatchStep
    <2> QED
        BY <1>4, <2>2, <2>3 DEF Created, OfferFailed
<1>5. CASE OfferAnswered(o)
    <2>1. lost \/ \A p \in Offers : session'[p] = "live" => p = o
        BY <1>2, <1>5, ServerSteps DEF OfferAnswered
    <2>2. CASE /\ StartGoes(o, "described")
               /\ peerId' = o
               /\ UNCHANGED <<place, stop, pc, track, sharing, open, captured>>
        BY <1>1, <1>3, <2>1, <2>2, GoesOn DEF StartSteps
    <2>3. CASE Catch(o, o)
        BY <1>1, <2>1, <2>3, CatchStep
    <2> QED
        BY <1>5, <2>2, <2>3 DEF OfferAnswered
<1> QED
    BY <1>4, <1>5

LEMMA DescribedStep ==
    ASSUME TypeOK, Orderly, ~tangled', NEW o \in Offers, Described(o)
    PROVE  Orderly'
<1>1. UnderWay(o) /\ start[o] = "described" /\ UNCHANGED aux /\ UNCHANGED session
    BY DEF Described
<1>2. lost \/ \A p \in Offers : session'[p] = "live" => p = peerId
    BY <1>1 DEF Orderly, OneSession
<1>3. captured \subseteq {track} /\ peerId \in Offers \cup {None}
    BY TypeParts DEF Orderly, OneScreen, ShownType
<1>4. CASE /\ StartGoes(o, "done") /\ sharing' = TRUE
           /\ UNCHANGED <<place, stop, pc, peerId, track, open, captured>>
    BY <1>1, <1>2, <1>3, <1>4, GoesOn DEF StartSteps
<1>5. CASE Catch(o, peerId)
    BY <1>1, <1>2, <1>3, <1>5, CatchStep
<1> QED
    BY <1>4, <1>5 DEF Described

LEMMA FallbackStep ==
    ASSUME TypeOK, Orderly, ~tangled', NEW o \in Offers, Asked(o) \/ Published(o)
    PROVE  Orderly'
<1>1. UnderWay(o) /\ start[o] \in {"asking", "publishing"}
      /\ UNCHANGED aux /\ UNCHANGED session
    BY DEF Asked, Published
<1>2. lost \/ \A p \in Offers : session'[p] = "live" => p = peerId
    BY <1>1 DEF Orderly, OneSession
<1>3. CASE GiveUp(o)
    <2>1. Free' /\ NoStop /\ (strayed \/ place \in {"lobby", "room"})
        BY <1>1, <1>3, LastStart, OneStart, TypeParts DEF GiveUp, UnderWay
    <2> QED
        BY <1>1, <1>3, <2>1, BeginStep DEF GiveUp, aux
<1>4. CASE /\ start[o] = "asking" /\ StartGoes(o, "publishing")
           /\ track' = o /\ captured' = captured \cup {o}
           /\ UNCHANGED <<place, stop, pc, peerId, sharing, open>>
    <2>1. captured = {}
        BY <1>1, <1>4 DEF Orderly, OneScreen, UnderWay
    <2> QED
        BY <1>1, <1>2, <1>4, <2>1, GoesOn DEF StartSteps
<1>5. CASE /\ StartGoes(o, "done") /\ sharing' = TRUE
           /\ UNCHANGED <<place, stop, pc, peerId, track, open, captured>>
    <2>1. captured' \subseteq {track'}
        BY <1>5 DEF Orderly, OneScreen
    <2> QED
        BY <1>1, <1>2, <1>5, <2>1, GoesOn DEF StartSteps
<1> QED
    BY <1>3, <1>4, <1>5 DEF Asked, Published

\* What the server does by itself makes no session live.
LEMMA ServedStep ==
    ASSUME TypeOK, Orderly, ~tangled', NEW o \in Offers, Served(o)
    PROVE  Orderly'
<1>1. \A p \in Offers : session'[p] = "live" => session[p] = "live"
    BY ServerSteps, TypeParts
       DEF Served, Server!Open, Server!Refuse, Server!End, Server!Becomes
<1>2. OneSession'
    BY <1>1 DEF Served, shown, aux, Orderly, OneSession
<1>3. StopsFit'
    <2> SUFFICES ASSUME NEW s \in Stops, stop'[s] # Idle
                 PROVE  /\ stop'[s].offer = peerId'
                        /\ stop'[s].answered /\ ~lost' => session'[peerId'] # "live"
        BY DEF StopsFit
    <2>1. stop[s] # Idle /\ stop'[s] = stop[s] /\ peerId' = peerId /\ lost' = lost
        BY DEF Served, page, shown, aux
    <2>2. stop[s].offer = peerId /\ (stop[s].answered /\ ~lost => session[peerId] # "live")
        BY <2>1 DEF Orderly, StopsFit
    <2>3. peerId \in Offers
        BY <2>1, <2>2, TypeParts DEF StopType, Stop
    <2> QED
        BY <1>1, <2>1, <2>2, <2>3
<1>4. OneAtATime' /\ OneScreen' /\ Quiet' /\ NoneYet' /\ Left'
    BY DEF Served, page, shown, aux, Orderly, OneAtATime, OneScreen, Quiet, NoneYet, Left,
           Free, NoStop, Starting
<1> QED
    BY <1>2, <1>3, <1>4 DEF Orderly

\* The hangup has been served; what is stopped is what the page knows.
LEMMA HangupServedStep ==
    ASSUME TypeOK, Orderly, ~tangled', NEW s \in Stops, HangupServed(s)
    PROVE  Orderly'
<1>1. /\ stop[s] \in Stop /\ stop[s] # Idle /\ stop[s].offer = peerId /\ peerId \in Offers
      /\ \A t \in Stops \ {s} : stop[t] = Idle
      /\ \A o \in Offers : ~Starting(o)
    BY TypeParts DEF HangupServed, StopType, Stop, Orderly, StopsFit, OneAtATime
<1>2. /\ stop'[s] = [stop[s] EXCEPT !.answered = TRUE]
      /\ \A t \in Stops \ {s} : stop'[t] = Idle
    BY <1>1, TypeParts DEF HangupServed, StopType
<1>3. stop'[s].offer = peerId /\ stop'[s] # Idle
    BY <1>1, <1>2 DEF Stop, Idle
<1>4. /\ lost' \/ session'[peerId] # "live"
      /\ \A o \in Offers : session'[o] = "live" => session[o] = "live"
      /\ lost => lost'
    BY <1>1, ServerSteps, TypeParts DEF HangupServed, Server!Hangup, Server!Becomes
<1>5. OneAtATime' /\ OneScreen' /\ NoneYet'
    BY <1>1, <1>2
       DEF HangupServed, shown, Orderly, OneAtATime, OneScreen, NoneYet, Starting
<1>6. Quiet'
    BY <1>3 DEF Quiet, NoStop
<1>7. OneSession' /\ StopsFit'
    BY <1>2, <1>3, <1>4 DEF HangupServed, shown, Orderly, OneSession, StopsFit
<1>8. Left'
    BY <1>1 DEF HangupServed, Orderly, Left, NoStop
<1> QED
    BY <1>5, <1>6, <1>7, <1>8 DEF Orderly

LEMMA ResumeStopStep ==
    ASSUME TypeOK, Orderly, ~tangled', NEW s \in Stops, ResumeStop(s)
    PROVE  Orderly'
<1>1. /\ stop[s] \in Stop /\ stop[s].leave \in BOOLEAN
      /\ stop[s].answered /\ stop[s].offer = peerId /\ peerId \in Offers
      /\ \A t \in Stops \ {s} : stop[t] = Idle
      /\ \A o \in Offers : ~Starting(o)
    BY TypeParts DEF ResumeStop, StopType, Stop, Orderly, StopsFit, OneAtATime
<1>2. lost \/ \A o \in Offers : session[o] # "live"
    BY <1>1 DEF Orderly, OneSession, StopsFit, ResumeStop
<1>3. Free' /\ NoStop'
    BY <1>1, TypeParts DEF ResumeStop, Free, NoStop, Starting, StopType
<1>4. captured \subseteq {track}
    BY DEF Orderly, OneScreen
<1> QED
    BY <1>1, <1>2, <1>3, <1>4, Finished DEF ResumeStop, aux

LEMMA EventStep ==
    ASSUME TypeOK, Orderly, ~tangled', NEW o \in Offers, TrackEnded(o) \/ BrowserStops(o)
    PROVE  Orderly'
BY StopNowStep DEF TrackEnded, BrowserStops

LEMMA PageStep ==
    ASSUME TypeOK, Orderly, ~tangled', EnterRoom \/ LeaveClick \/ Disconnected \/ GoAway
    PROVE  Orderly'
<1>1. CASE EnterRoom \/ Disconnected
    BY <1>1 DEF EnterRoom, Disconnected, shown, aux, Orderly, OneAtATime, OneScreen, Quiet,
                NoneYet, OneSession, StopsFit, Left, Free, NoStop, Starting
<1>2. CASE LeaveClick /\ Connected
    BY <1>2, StopNowStep DEF LeaveClick
<1>3. CASE LeaveClick /\ ~Connected
    BY <1>3 DEF LeaveClick, Orderly, OneAtATime, OneScreen, Quiet, NoneYet, OneSession,
                StopsFit, Left, Free, NoStop, Starting
<1>4. CASE GoAway
    BY <1>4 DEF GoAway, Orderly, OneAtATime, OneScreen, Quiet, NoneYet, OneSession,
                StopsFit, Left, Free, NoStop, Starting
<1> QED
    BY <1>1, <1>2, <1>3, <1>4

\* No step makes up for handlers that got in each other's way.
LEMMA StaysTangled == [Next]_vars /\ tangled => tangled'
BY DEF Next, vars, aux, ClickAgain, ClickStop, ConnectionLost, EnterRoom, LeaveClick,
       Disconnected, GoAway, HangupServed, ResumeStop, ClickStart, Created, Served,
       OfferFailed, OfferAnswered, Described, Asked, Published, TrackEnded, BrowserStops, StopNow

LEMMA StepIInv == IInv /\ [Next]_vars => IInv'
<1> SUFFICES ASSUME IInv, [Next]_vars PROVE IInv'
    OBVIOUS
<1>1. TypeOK' /\ OneConnection'
    BY StepTypes, StepOneConnection DEF IInv
<1>2. ASSUME ~tangled' PROVE Orderly'
    <2>1. TypeOK /\ Orderly
        BY <1>2, StaysTangled DEF IInv
    <2>2. CASE UNCHANGED vars
        BY <2>1, <2>2
           DEF vars, page, shown, aux, Orderly, OneAtATime, OneScreen, Quiet, NoneYet,
               OneSession, StopsFit, Left, Free, NoStop, Starting
    <2> QED
        BY <1>2, <2>1, <2>2, ClickStep, ClickStartStep, OfferStep, DescribedStep, FallbackStep,
           ServedStep, HangupServedStep, ResumeStopStep, EventStep, PageStep
           DEF Next
<1> QED
    BY <1>1, <1>2 DEF IInv

LEMMA InitIInv == Init => IInv
BY TypeInit
   DEF Init, Server!Init, IInv, OneConnection, Orderly, OneAtATime, OneScreen, Quiet,
       NoneYet, OneSession, StopsFit, Left, Free, NoStop, Starting

LEMMA Invariance == Spec => []IInv
BY InitIInv, StepIInv, PTL DEF Spec

-----------------------------------------------------------------------------
\* The variables of the page and of its handlers keep their types.
THEOREM TypeCorrect == Spec => []TypeOK
<1>1. IInv => TypeOK
    BY DEF IInv
<1> QED
    BY <1>1, Invariance, PTL

\* A page that shows nothing as shared has nothing open, captures nothing and leaves
\* no session at the server, unless handlers got in each other's way or a hangup was lost.
THEOREM AtRestMeansEndedHolds == Spec => []AtRestMeansEnded
<1>1. IInv => AtRestMeansEnded
    <2> SUFFICES ASSUME IInv, Here, ~Busy, ~sharing, ~tangled, ~lost
                 PROVE  /\ pc = None /\ open = {} /\ peerId = None /\ captured = {}
                        /\ \A o \in Offers : session[o] # "live"
        BY DEF AtRestMeansEnded
    <2>1. TypeOK /\ OneConnection /\ Quiet /\ OneSession
        BY DEF IInv, Orderly
    <2>2. Free /\ NoStop /\ place \in {"lobby", "room"}
        BY <2>1, TypeParts DEF Busy, Free, NoStop, Here, Places
    <2>3. pc = None /\ peerId = None /\ captured = {}
        BY <2>1, <2>2 DEF Quiet
    <2> QED
        BY <2>1, <2>3, ConstantsAssumption DEF OneConnection, OneSession
<1> QED
    BY <1>1, Invariance, PTL

\* Who leaves a LiveKit room by the button leaves no live session at the server.
THEOREM LeaversShareNothingHolds == Spec => []LeaversShareNothing
<1>1. IInv => LeaversShareNothing
    BY ConstantsAssumption DEF IInv, Orderly, OneSession, Left, Here, LeaversShareNothing
<1> QED
    BY <1>1, Invariance, PTL
=============================================================================
