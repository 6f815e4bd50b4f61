---------------------------- MODULE ScreenClient ----------------------------
(***************************************************************************)
(* The screen button of the room page, over what ScreenSessions promises   *)
(* of the server.  A click shares: a session of the server if there can be *)
(* one, else the browser's own screen over LiveKit.  The next click stops  *)
(* whatever was shared; so do the end of the picture, the browser's "stop  *)
(* sharing", and the leave button.                                         *)
(*                                                                         *)
(* The handlers run undisturbed between two awaits only.  What they share  *)
(* are the variables of the page: the connection, the id of the session,   *)
(* the screen tracks and the flag that decides what a click does.          *)
(*                                                                         *)
(* A start gives its name to its connection, its session and its tracks.   *)
(***************************************************************************)
EXTENDS Naturals, FiniteSets

CONSTANTS
    Offers,  \* bound: the starts of one behaviour
    Stops,   \* bound: stops that wait for a hangup at the same time
    None     \* null

ASSUME ConstantsAssumption == None \notin Offers

VARIABLES
    session,  \* the server, see ScreenSessions
    place,    \* how far the page has got, see Places
    start,    \* the click handlers that start a share
    stop,     \* those that wait for the answer to a hangup
    pc,       \* serverScreenSharePC
    peerId,   \* serverScreenSharePeerId
    track,    \* screenTrack
    sharing,  \* isScreenSharing
    open,     \* connections the page has not closed
    remote,   \* connections with the server's answer
    viewed,   \* those whose picture has not ended yet
    captured, \* screens the browser is sharing
    tangled,  \* auxiliary: a handler began to start or to stop while another was under way
    lost,     \* auxiliary: a hangup did not reach the server
    strayed   \* auxiliary: the page was gone from without a stop

page == <<place, start, stop>>
shown == <<pc, peerId, track, sharing, open, remote, viewed, captured>>
aux == <<tangled, lost, strayed>>
vars == <<session, page, shown, aux>>

Server == INSTANCE ScreenSessions

\* lobby: there is no LiveKit room yet.  leaving: it is being disconnected.
\* left: only the answer to the Leave is waited for.
Places == {"lobby", "room", "leaving", "left", "gone"}

StartSteps == {"none", "creating", "offering", "described", "asking", "publishing", "done"}

Stop == [offer : Offers, leave : BOOLEAN, answered : BOOLEAN]
Idle == [offer |-> None]

TypeOK ==
    /\ session \in [Offers -> Server!States]
    /\ place \in Places
    /\ start \in [Offers -> StartSteps]
    /\ stop \in [Stops -> Stop \cup {Idle}]
    /\ {pc, peerId, track} \subseteq Offers \cup {None}
    /\ open \subseteq Offers
    /\ viewed \subseteq remote /\ remote \subseteq Offers
    /\ captured \subseteq Offers
    /\ {sharing, tangled, lost, strayed} \subseteq BOOLEAN

Init ==
    /\ Server!Init
    /\ place = "lobby"
    /\ start = [o \in Offers |-> "none"]
    /\ stop = [s \in Stops |-> Idle]
    /\ pc = None /\ peerId = None /\ track = None /\ sharing = FALSE
    /\ open = {} /\ remote = {} /\ viewed = {} /\ captured = {}
    /\ tangled = FALSE /\ lost = FALSE /\ strayed = FALSE

-----------------------------------------------------------------------------
Here == place # "gone"
Connected == place \in {"room", "leaving"}

Starting(o) == start[o] \notin {"none", "done"}
UnderWay(o) == Here /\ Starting(o)
Busy ==
    \/ \E o \in Offers : Starting(o)
    \/ \E s \in Stops : stop[s] # Idle
    \/ place \in {"leaving", "left"}

StartGoes(o, step) == start' = [start EXCEPT ![o] = step]

CloseConnection == pc' = None /\ open' = open \ {pc}

-----------------------------------------------------------------------------
(* stopAllScreenSharing, and the part of the leave button that is like it. *)

EndServerShare == peerId' = None /\ CloseConnection
EndLiveKitShare == captured' = captured \ {track} /\ track' = None

\* The rest of a stop, when the hangup has been answered or there was none.
FinishStop(leave) ==
    /\ EndServerShare
    /\ IF leave THEN place' = "leaving" /\ UNCHANGED <<track, sharing, captured>>
                ELSE EndLiveKitShare /\ sharing' = FALSE /\ UNCHANGED place

SendHangup(id, leave) ==
    \E s \in Stops :
        /\ stop[s] = Idle
        /\ stop' = [stop EXCEPT ![s] = [offer |-> id, leave |-> leave, answered |-> FALSE]]

\* Mutant: there is nothing to hang up without a connection.
BeginStopConnected(leave) ==
    IF peerId # None /\ pc # None
    THEN SendHangup(peerId, leave) /\ UNCHANGED <<place, pc, peerId, track, sharing, open, captured>>
    ELSE FinishStop(leave) /\ UNCHANGED stop

BeginStop(leave) ==
    IF peerId # None
    THEN SendHangup(peerId, leave) /\ UNCHANGED <<place, pc, peerId, track, sharing, open, captured>>
    ELSE FinishStop(leave) /\ UNCHANGED stop

\* A stop that the user, the server or the browser sets off.
StopNow(leave) == BeginStop(leave) /\ tangled' = (tangled \/ Busy)

ResumeStop(s) ==
    /\ Here /\ stop[s] # Idle /\ stop[s].answered
    /\ FinishStop(stop[s].leave)
    /\ stop' = [stop EXCEPT ![s] = Idle]
    /\ UNCHANGED <<session, start, remote, viewed, aux>>

\* The hangup is served, also when the page is gone; or it fails.
HangupServed(s) ==
    /\ stop[s] # Idle /\ ~stop[s].answered
    /\ \/ Server!Hangup(stop[s].offer) /\ UNCHANGED lost
       \/ session[stop[s].offer] # "live" /\ UNCHANGED <<session, lost>>
       \/ lost' = TRUE /\ UNCHANGED session
    /\ stop' = [stop EXCEPT ![s].answered = TRUE]
    /\ UNCHANGED <<place, start, shown, tangled, strayed>>

-----------------------------------------------------------------------------
(* The click. *)

\* A connection is there already: nothing is started, but the page shares.
ClickAgain ==
    /\ Here /\ ~sharing /\ pc # None
    /\ sharing' = TRUE
    /\ UNCHANGED <<session, page, pc, peerId, track, open, remote, viewed, captured, aux>>

ClickStart(o) ==
    /\ Here /\ ~sharing /\ pc = None
    /\ start[o] = "none"
    /\ StartGoes(o, "creating")
    /\ pc' = o /\ open' = open \cup {o}
    /\ tangled' = (tangled \/ Busy)
    /\ UNCHANGED <<session, place, stop, peerId, track, sharing, remote, viewed, captured,
                   lost, strayed>>

ClickStop ==
    /\ Here /\ sharing
    /\ StopNow(FALSE)
    /\ UNCHANGED <<session, start, remote, viewed, lost, strayed>>

-----------------------------------------------------------------------------
(* startServerScreenShare *)

\* An error closes the connection, whose ever it is.  The browser's own screen is
\* tried next; without a LiveKit room that fails at once, and all is stopped.
\* (An error about the room or the authentication would end the click before that;
\* the routes of the screen share have neither, so that no offer answers one.)
Catch(o, id) ==
    \/ /\ Connected
       /\ StartGoes(o, "asking")
       /\ peerId' = id /\ CloseConnection
       /\ UNCHANGED <<place, stop, track, sharing, captured>>
    \/ /\ ~Connected /\ id = None
       /\ StartGoes(o, "done")
       /\ FinishStop(FALSE)
       /\ UNCHANGED stop
    \/ /\ ~Connected /\ id # None
       /\ StartGoes(o, "done")
       /\ SendHangup(id, FALSE)
       /\ peerId' = id /\ CloseConnection
       /\ UNCHANGED <<place, track, sharing, captured>>

\* createOffer and setLocalDescription: on the connection there is by now.
Created(o) ==
    /\ UnderWay(o) /\ start[o] = "creating"
    /\ \/ pc = o /\ StartGoes(o, "offering")
          /\ UNCHANGED <<place, stop, pc, peerId, track, sharing, open, captured>>
       \/ Catch(o, peerId)
    /\ UNCHANGED <<session, remote, viewed, aux>>

\* The offer reaches the server, which takes or refuses it.
Served(o) ==
    /\ start[o] \notin {"none", "creating"}
    /\ \/ session[o] = "none" /\ (Server!Open(o) \/ Server!Refuse(o))
       \/ session[o] = "opening" /\ Server!Refuse(o)
       \/ Server!End(o)
    /\ UNCHANGED <<page, shown, aux>>

\* It is refused, or the answer gets lost.
OfferFailed(o) ==
    /\ UnderWay(o) /\ start[o] = "offering"
    /\ Catch(o, peerId)
    /\ UNCHANGED <<session, remote, viewed, aux>>

\* Mutant: whether there still is a connection is not looked at.
OfferAnsweredBlindly(o) ==
    /\ UnderWay(o) /\ start[o] = "offering"
    /\ Server!Tell(o)
    /\ StartGoes(o, "described")
    /\ peerId' = o
    /\ remote' = remote \cup {pc} /\ viewed' = viewed \cup {pc}
    /\ UNCHANGED <<place, stop, pc, track, sharing, open, captured, aux>>

\* The id is kept, then the answer is given to the connection there is by now: it
\* is taken at most by one that waits for one, and that may be another start's.
OfferAnswered(o) ==
    /\ UnderWay(o) /\ start[o] = "offering"
    /\ Server!Tell(o)
    /\ \/ /\ pc # None /\ start[pc] # "creating" /\ pc \notin remote
          /\ StartGoes(o, "described")
          /\ peerId' = o
          /\ remote' = remote \cup {pc} /\ viewed' = viewed \cup {pc}
          /\ UNCHANGED <<place, stop, pc, track, sharing, open, captured>>
       \/ Catch(o, o) /\ UNCHANGED <<remote, viewed>>
    /\ UNCHANGED aux

\* setRemoteDescription; it may never come back when the connection is closed.
\* (The polling of candidates that begins here changes nothing.)
Described(o) ==
    /\ UnderWay(o) /\ start[o] = "described"
    /\ \/ /\ StartGoes(o, "done")
          /\ sharing' = TRUE
          /\ UNCHANGED <<place, stop, pc, peerId, track, open, captured>>
       \/ Catch(o, peerId)
    /\ UNCHANGED <<session, remote, viewed, aux>>

-----------------------------------------------------------------------------
(* startLiveKitScreenShare *)

\* All is stopped if it fails.
GiveUp(o) ==
    /\ StartGoes(o, "done")
    /\ BeginStop(FALSE)

\* The user picks a screen or does not; meanwhile the room may have gone.
Asked(o) ==
    /\ UnderWay(o) /\ start[o] = "asking"
    /\ \/ /\ Connected
          /\ StartGoes(o, "publishing")
          /\ track' = o /\ captured' = captured \cup {o}
          /\ UNCHANGED <<place, stop, pc, peerId, sharing, open>>
       \/ GiveUp(o)
    /\ UNCHANGED <<session, remote, viewed, aux>>

Published(o) ==
    /\ UnderWay(o) /\ start[o] = "publishing"
    /\ \/ /\ StartGoes(o, "done")
          /\ sharing' = TRUE
          /\ UNCHANGED <<place, stop, pc, peerId, track, open, captured>>
       \/ GiveUp(o)
    /\ UNCHANGED <<session, remote, viewed, aux>>

-----------------------------------------------------------------------------
(* Events. *)

\* onconnectionstatechange: failed or disconnected.  The id and the flag stay.
ConnectionLost ==
    /\ Here /\ pc \in remote
    /\ CloseConnection
    /\ UNCHANGED <<session, page, peerId, track, sharing, remote, viewed, captured, aux>>

\* The picture from the server ends, also that of a connection closed before.
TrackEnded(o) ==
    /\ Here /\ o \in viewed
    /\ viewed' = viewed \ {o}
    /\ StopNow(FALSE)
    /\ UNCHANGED <<session, start, remote, lost, strayed>>

\* "Stop sharing" of the browser, for a screen that is published.
BrowserStops(o) ==
    /\ Here /\ o \in captured /\ start[o] = "done"
    /\ StopNow(FALSE)
    /\ UNCHANGED <<session, start, remote, viewed, lost, strayed>>

-----------------------------------------------------------------------------
(* The page. *)

\* Mutant: the leave button stops the tracks and no more.
LeaveClickTracks ==
    /\ Here
    /\ IF Connected
       THEN place' = "leaving" /\ tangled' = (tangled \/ Busy) /\ UNCHANGED strayed
       ELSE place' = "left" /\ strayed' = TRUE /\ UNCHANGED tangled
    /\ UNCHANGED <<session, start, stop, shown, lost>>

\* The media are connected.
EnterRoom ==
    /\ place = "lobby"
    /\ place' = "room"
    /\ UNCHANGED <<session, start, stop, shown, aux>>

\* The leave button ends the share only in a LiveKit room; elsewhere it only leaves.
LeaveClick ==
    /\ Here
    /\ IF Connected
       THEN StopNow(TRUE) /\ UNCHANGED strayed
       ELSE /\ place' = "left" /\ strayed' = TRUE
            /\ UNCHANGED <<stop, pc, peerId, track, sharing, open, captured, tangled>>
    /\ UNCHANGED <<session, start, remote, viewed, lost>>

Disconnected ==
    /\ place = "leaving"
    /\ place' = "left"
    /\ UNCHANGED <<session, start, stop, shown, aux>>

\* The page goes to the menu, or is closed.  What it had open goes with it.
GoAway ==
    /\ Here
    /\ place' = "gone"
    /\ strayed' = (strayed \/ place # "left")
    /\ pc' = None /\ open' = {} /\ captured' = {}
    /\ UNCHANGED <<session, start, stop, peerId, track, sharing, remote, viewed, tangled, lost>>

-----------------------------------------------------------------------------
Next ==
    \/ ClickAgain \/ ClickStop \/ ConnectionLost
    \/ EnterRoom \/ LeaveClick \/ Disconnected \/ GoAway
    \/ \E s \in Stops : HangupServed(s) \/ ResumeStop(s)
    \/ \E o \in Offers :
         \/ ClickStart(o) \/ Created(o) \/ Served(o) \/ OfferFailed(o) \/ OfferAnswered(o)
         \/ Described(o) \/ Asked(o) \/ Published(o) \/ TrackEnded(o) \/ BrowserStops(o)

Spec == Init /\ [][Next]_vars

-----------------------------------------------------------------------------
\* When the button says that nothing is shared and no handler is under way, there
\* is nothing: no connection open, no screen captured, and no live session at
\* the server.  Exempt are pages whose handlers got in each other's way, and hangups
\* that did not reach the server.
AtRestMeansEnded ==
    Here /\ ~Busy /\ ~sharing /\ ~tangled /\ ~lost =>
        /\ pc = None /\ open = {} /\ peerId = None /\ captured = {}
        /\ \A o \in Offers : session[o] # "live"

\* Who leaves by the button, out of a LiveKit room, leaves no session behind that
\* the server would serve for ever.
LeaversShareNothing ==
    ~Here /\ ~strayed /\ ~tangled /\ ~lost => \A o \in Offers : session[o] # "live"
=============================================================================
