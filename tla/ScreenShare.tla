----------------------------- MODULE ScreenShare -----------------------------
(***************************************************************************)
(* The server shares its own screen over WebRTC.  An offer starts a        *)
(* capture and a peer connection and is answered with the id of the        *)
(* connection; a hangup names the id.  The connections are kept in a map   *)
(* under a mutex, and in a registry of the WebRTC service, which forgets   *)
(* them when Pion reports that they have failed or are closed.  But the    *)
(* capture service is one object for all of them: it remembers one stream  *)
(* and one cancel function, without any lock.                              *)
(*                                                                         *)
(* An offer gives its name to its capture and to its connection.           *)
(***************************************************************************)
EXTENDS Naturals, FiniteSets

CONSTANTS
    Offers,   \* bound: the offers of one behaviour
    Unknown,  \* bound: the ids hangups may name that were never given out
    Workers,  \* request goroutines that may run at the same time
    None      \* no capture

ASSUME ConstantsAssumption == None \notin Offers /\ Offers \cap Unknown = {}

VARIABLES
    cancel,      \* the capture whose context StopCapture cancels
    stream,      \* the capture whose tracks StopCapture closes
    running,     \* captures whose context is alive and whose tracks are open
    open,        \* connections that the server has not closed
    gathering,   \* connections Pion may still report candidates of
    peers,       \* peerConnections: the connections that an id leads to
    candidates,  \* iceCandidates: the ids with an entry there
    registered,  \* peerConnections of the WebRTC service, under ids of its own
    req,         \* the request each goroutine is serving
    begun,       \* auxiliary: the offers the server has begun to serve
    answered,    \* auxiliary: the offers whose client knows its id
    unheard,     \* auxiliary: the offers whose answer got lost
    hungup,      \* auxiliary: the offers whose id some hangup has named
    early,       \* auxiliary: those that were named before their candidates were gathered
    apart        \* auxiliary: no session has overlapped another one, or a stray hangup

capture == <<cancel, stream, running>>
maps == <<peers, candidates>>
sessions == <<begun, answered, unheard, hungup, early, apart>>
vars == <<capture, open, gathering, maps, registered, req, sessions>>

OfferSteps ==
    {"offer.stream", "offer.connect", "offer.tracks", "offer.negotiate", "offer.answer"}
CleanupSteps ==
    {"cleanup.forget", "cleanup.close", "cleanup.tracks", "cleanup.cancel", "cleanup.stop"}

\* own: a failed offer cleans up its own stream, a hangup knows of none.
\* known: the id was in the map.
Request ==
    [step : OfferSteps, offer : Offers]
        \cup [step : CleanupSteps, offer : Offers \cup Unknown, own : BOOLEAN, known : BOOLEAN]

Idle == [step |-> "idle"]

TypeOK ==
    /\ {cancel, stream} \subseteq begun \cup {None}
    /\ begun \subseteq Offers
    /\ running \subseteq begun
    /\ open \subseteq begun
    /\ gathering \subseteq open
    /\ peers \subseteq begun
    /\ candidates \subseteq begun
    /\ registered \subseteq begun
    /\ req \in [Workers -> Request \cup {Idle}]
    /\ answered \subseteq begun
    /\ unheard \subseteq begun \ answered
    /\ hungup \subseteq answered
    /\ early \subseteq hungup
    /\ apart \in BOOLEAN

-----------------------------------------------------------------------------
At(w, s) == req[w].step = s
Go(w, next) == req' = [req EXCEPT ![w] = next]
Goto(w, s) == req' = [req EXCEPT ![w].step = s]
Done(w) == Go(w, Idle)

Init ==
    /\ cancel = None /\ stream = None /\ running = {}
    /\ open = {} /\ gathering = {}
    /\ peers = {} /\ candidates = {} /\ registered = {}
    /\ req = [w \in Workers |-> Idle]
    /\ begun = {} /\ answered = {} /\ unheard = {} /\ hungup = {} /\ early = {}
    /\ apart = TRUE

\* Nothing is left of any earlier offer.
Alone == peers = {} /\ \A w \in Workers : req[w] = Idle

-----------------------------------------------------------------------------
\* An id nobody has had.  (Which one it is makes no difference, so that TLC need
\* look only at one.)
NewId == CHOOSE o \in Offers \ begun : TRUE

(* HandleOffer: StartCapture.  (GetDisplayMedia finds no driver in this      *)
(* build, so that it always falls back to startCustomCapture.  Without a     *)
(* display it fails before it changes anything.)                             *)
OfferCapture(w) ==
    /\ req[w] = Idle
    /\ \E o \in Offers \ begun :
        /\ o = NewId
        /\ begun' = begun \cup {o}
        /\ apart' = (apart /\ Alone)
        /\ cancel' = o
        /\ running' = running \cup {o}
        /\ Go(w, [step |-> "offer.stream", offer |-> o])
    /\ UNCHANGED <<stream, open, gathering, maps, registered, answered, unheard, hungup, early>>

\* The stream is made of the track, or cannot be and the capture is undone.
OfferStream(w) ==
    /\ At(w, "offer.stream")
    /\ \/ /\ stream' = req[w].offer
          /\ Goto(w, "offer.connect")
          /\ UNCHANGED <<cancel, running>>
       \/ /\ running' = running \ {req[w].offer}
          /\ Done(w)
          /\ UNCHANGED <<cancel, stream>>
    /\ UNCHANGED <<open, gathering, maps, registered, sessions>>

\* Mutant: a failed offer leaves its capture to the next StopCapture.
OfferConnectLeaky(w) ==
    /\ At(w, "offer.connect")
    /\ \/ /\ open' = open \cup {req[w].offer}
          /\ registered' = registered \cup {req[w].offer}
          /\ peers' = peers \cup {req[w].offer}
          /\ Goto(w, "offer.tracks")
       \/ Done(w) /\ UNCHANGED <<open, peers, registered>>
    /\ UNCHANGED <<capture, gathering, candidates, sessions>>

\* CreatePeerConnection: a connection, entered in the registry of the service.
Create(o) ==
    /\ open' = open \cup {o}
    /\ registered' = registered \cup {o}

(* The connection is made and entered in the map.  If the type of the offer  *)
(* is unknown, or it cannot be made, the tracks are closed.                  *)
OfferConnect(w) ==
    /\ At(w, "offer.connect")
    /\ \/ /\ Create(req[w].offer)
          /\ peers' = peers \cup {req[w].offer}
          /\ Goto(w, "offer.tracks")
          /\ UNCHANGED running
       \/ /\ running' = running \ {req[w].offer}
          /\ Done(w)
          /\ UNCHANGED <<open, peers, registered>>
    /\ UNCHANGED <<cancel, stream, gathering, candidates, sessions>>

\* Mutant: the id in cleanup is a variable that was never set.
CleanupUnset(w, o, own) ==
    Go(w, [step |-> "cleanup.forget", offer |-> None, own |-> own, known |-> FALSE])

Cleanup(w, o, own) ==
    Go(w, [step |-> "cleanup.forget", offer |-> o, own |-> own, known |-> FALSE])

\* Mutant: the error of AddTracks is answered without a cleanup.
OfferTracksReturns(w) ==
    /\ At(w, "offer.tracks")
    /\ Done(w) \/ Goto(w, "offer.negotiate")
    /\ UNCHANGED <<capture, open, gathering, maps, registered, sessions>>

\* AddTracksToPeerConnection: fails without a video track, or if Pion takes it not.
OfferTracks(w) ==
    /\ At(w, "offer.tracks")
    /\ Cleanup(w, req[w].offer, TRUE) \/ Goto(w, "offer.negotiate")
    /\ UNCHANGED <<capture, open, gathering, maps, registered, sessions>>

(* Remote description, answer, local description: with the last one Pion     *)
(* begins to gather candidates.                                              *)
OfferNegotiate(w) ==
    /\ At(w, "offer.negotiate")
    /\ \/ Cleanup(w, req[w].offer, TRUE) /\ UNCHANGED gathering
       \/ Goto(w, "offer.answer") /\ gathering' = gathering \cup {req[w].offer}
    /\ UNCHANGED <<capture, open, maps, registered, sessions>>

\* Mutant: the capture runs under the context of the HTTP request.
OfferAnswerCancels(w) ==
    /\ At(w, "offer.answer")
    /\ answered' = answered \cup {req[w].offer}
    /\ running' = running \ {req[w].offer}
    /\ Done(w)
    /\ UNCHANGED <<cancel, stream, open, gathering, maps, registered,
                   begun, unheard, hungup, early, apart>>

(* The answer, with the id.  If it gets lost the client never knows the id.  *)
OfferAnswer(w) ==
    /\ At(w, "offer.answer")
    /\ \/ answered' = answered \cup {req[w].offer} /\ UNCHANGED unheard
       \/ unheard' = unheard \cup {req[w].offer} /\ UNCHANGED answered
    /\ Done(w)
    /\ UNCHANGED <<capture, open, gathering, maps, registered, begun, hungup, early, apart>>

(* OnICECandidate: the entry is created when it is not there. *)
Candidate(o) ==
    /\ o \in gathering
    /\ candidates' = candidates \cup {o}
    /\ UNCHANGED <<capture, open, gathering, peers, registered, req, sessions>>

GatheringComplete(o) ==
    /\ o \in gathering
    /\ gathering' = gathering \ {o}
    /\ UNCHANGED <<capture, open, maps, registered, req, sessions>>

-----------------------------------------------------------------------------
(* OnConnectionStateChange, in goroutines of Pion. *)

Deregister(o) == o \in registered /\ registered' = registered \ {o}

\* Mutant: only failed connections are forgotten.
ClosedIgnored(o) ==
    /\ o \notin open
    /\ Deregister(o) /\ FALSE
    /\ UNCHANGED <<capture, open, gathering, maps, req, sessions>>

Closed(o) ==
    /\ o \notin open
    /\ Deregister(o)
    /\ UNCHANGED <<capture, open, gathering, maps, req, sessions>>

\* Nothing has come from the other side for too long.  Only the registry takes
\* notice: the id still leads to the connection, and the capture runs on.
Failed(o) ==
    /\ o \in open
    /\ \A w \in Workers : req[w] # Idle /\ req[w].offer = o =>
         At(w, "offer.answer") \/ (req[w].step \in CleanupSteps /\ ~req[w].own)
    /\ Deregister(o)
    /\ UNCHANGED <<capture, open, gathering, maps, req, sessions>>

-----------------------------------------------------------------------------

\* The sessions: from the answer until the first hangup.
Viewers == answered \ hungup

(* HandleHangup: a cleanup without streams, of any id that is well formed:   *)
(* nothing keeps a client from hanging up twice, or from naming an id that   *)
(* no session has.  (Ids are random, so that one whose answer has not        *)
(* arrived is named by nobody.)  A hangup that ends no session is stray: it  *)
(* counts as an overlap if it comes while anything else is there.            *)
Hangup(w) ==
    /\ req[w] = Idle
    /\ \E o \in answered \cup Unknown :
        /\ hungup' = hungup \cup ({o} \cap Offers)
        /\ early' = early \cup ({o} \cap gathering)
        /\ apart' = (apart /\ (o \in Viewers \/ Alone))
        /\ Cleanup(w, o, FALSE)
    /\ UNCHANGED <<capture, open, gathering, maps, registered, begun, answered, unheard>>

-----------------------------------------------------------------------------
\* Mutant: the maps are emptied.
CleanupForgetAll(w) ==
    /\ At(w, "cleanup.forget")
    /\ peers' = {}
    /\ candidates' = {}
    /\ req' = [req EXCEPT ![w].step = "cleanup.close", ![w].known = req[w].offer \in peers]
    /\ UNCHANGED <<capture, open, gathering, registered, sessions>>

(* cleanup: under the mutex the id is taken out of both maps, *)
CleanupForget(w) ==
    /\ At(w, "cleanup.forget")
    /\ peers' = peers \ {req[w].offer}
    /\ candidates' = candidates \ {req[w].offer}
    /\ req' = [req EXCEPT ![w].step = "cleanup.close", ![w].known = req[w].offer \in peers]
    /\ UNCHANGED <<capture, open, gathering, registered, sessions>>

(* then the connection is closed if it was there, *)
CleanupClose(w) ==
    /\ At(w, "cleanup.close")
    /\ IF req[w].known THEN open' = open \ {req[w].offer} /\ gathering' = gathering \ {req[w].offer}
                       ELSE UNCHANGED <<open, gathering>>
    /\ Goto(w, "cleanup.tracks")
    /\ UNCHANGED <<capture, maps, registered, sessions>>

(* the tracks of a failed offer, *)
CleanupTracks(w) ==
    /\ At(w, "cleanup.tracks")
    /\ running' = IF req[w].own THEN running \ {req[w].offer} ELSE running
    /\ Goto(w, "cleanup.cancel")
    /\ UNCHANGED <<cancel, stream, open, gathering, maps, registered, sessions>>

(* and StopCapture ends whatever the service remembers: its context, *)
CleanupCancel(w) ==
    /\ At(w, "cleanup.cancel")
    /\ running' = running \ {cancel}
    /\ Goto(w, "cleanup.stop")
    /\ UNCHANGED <<cancel, stream, open, gathering, maps, registered, sessions>>

(* and its tracks.  (Without a lock the first write of the stream may be read *)
(* half done; the nil dereference is recovered by Gin, with nothing changed.) *)
CleanupStop(w) ==
    /\ At(w, "cleanup.stop")
    /\ running' = running \ {stream}
    /\ Done(w)
    /\ UNCHANGED <<cancel, stream, open, gathering, maps, registered, sessions>>

-----------------------------------------------------------------------------
Continue(w) ==
    \/ OfferStream(w) \/ OfferConnect(w) \/ OfferTracks(w)
    \/ OfferNegotiate(w) \/ OfferAnswer(w)
    \/ CleanupForget(w) \/ CleanupClose(w) \/ CleanupTracks(w)
    \/ CleanupCancel(w) \/ CleanupStop(w)

Next ==
    \/ \E w \in Workers : OfferCapture(w) \/ Hangup(w) \/ Continue(w)
    \/ \E o \in Offers : Candidate(o) \/ GatheringComplete(o) \/ Closed(o) \/ Failed(o)

\* Goroutines are scheduled until they are done, those of Pion's callbacks too.
Fairness ==
    /\ \A w \in Workers : WF_vars(Continue(w))
    /\ \A o \in Offers : WF_vars(Closed(o))

Spec == Init /\ [][Next]_vars
FairSpec == Spec /\ Fairness

-----------------------------------------------------------------------------
Serving(o) == \E w \in Workers : req[w] # Idle /\ req[w].offer = o

\* Whatever overlaps, the id a client was given leads to its open connection
\* until it is hung up: ICE candidates that are posted or polled find it.
ViewersAreKnown == Viewers \subseteq peers \cap open

\* Whatever overlaps and wherever an offer fails, nothing is left of a session
\* that is over, neither a connection nor an id that leads to it.  Only the
\* entry of its candidates may stay, if it was hung up while they were gathered.
\* (A session whose answer got lost is never over: nobody can hang it up.)
Over(o) == o \in begun /\ ~Serving(o) /\ (o \in hungup \/ o \notin answered \cup unheard)

NothingIsLeft ==
    \A o \in Offers : Over(o) =>
        /\ o \notin peers \cup open
        /\ o \in candidates => o \in early

\* As long as sessions do not overlap, and no stray hangup comes during one, a
\* viewer's capture runs until its hangup.  Stray hangups between two sessions, and
\* whatever an earlier one has left in the capture service, do it no harm.
ServedApart == apart => Viewers \subseteq running

\* As long as sessions do not overlap, nor stray hangups come during one, nothing
\* is captured for nobody: a capture that runs has its connection in the map, or a request that is working on it.
NoCaptureLeftApart == apart => \A o \in running : o \in peers \/ Serving(o)

\* A hangup ends the session: its connection is closed in the end, its id leads
\* nowhere and the service has forgotten it, also when several hangups of it race
\* or the connection fails meanwhile.
HangupEnds == \A o \in Offers : o \in hungup ~> [](o \notin peers \cup open \cup registered)

-----------------------------------------------------------------------------
\* "Terminate the session" (API.md, hangup): of that session, and not of others.
ViewersAreServed == Viewers \subseteq running
=============================================================================
