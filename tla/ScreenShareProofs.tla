-------------------------- MODULE ScreenShareProofs --------------------------
(* Theorems about ScreenShare and ScreenShareRefinement, for any offers and goroutines. *)
EXTENDS ScreenShareRefinement, TLAPS

\* A request does its own offer's work until that is answered, or cleaned up.
Own(w) == req[w].step \in OfferSteps \/ (req[w].step \in CleanupSteps /\ req[w].own)

\* What a request knows of its offer; a hangup may be about none.
RequestsRefer ==
    \A w \in Workers : req[w] # Idle =>
        /\ req[w].offer \in begun \cup Unknown
        /\ Own(w) =>
            /\ req[w].offer \in begun
            /\ req[w].offer \notin answered \cup unheard
            /\ \A v \in Workers \ {w} : req[v] # Idle => req[v].offer # req[w].offer
        /\ ~Own(w) => req[w].offer \in hungup \cup Unknown
        /\ req[w].step \in {"offer.tracks", "offer.negotiate", "offer.answer"} => req[w].offer \in peers \cap open
        /\ req[w].step \in CleanupSteps \ {"cleanup.forget"} => req[w].offer \notin peers

\* No id leads to a connection that is closed.
PeersAreOpen == peers \subseteq open

IInv == TypeOK /\ RequestsRefer /\ ViewersAreKnown /\ PeersAreOpen

\* The requests by the step they are at.
LEMMA RequestAt ==
    ASSUME TypeOK, NEW w \in Workers
    PROVE  /\ req[w] \in Request \cup {Idle}
           /\ req[w].step \in {"idle"} \cup OfferSteps \cup CleanupSteps
           /\ req[w] = Idle <=> req[w].step = "idle"
           /\ req[w].step \in OfferSteps => req[w] \in [step : OfferSteps, offer : Offers]
           /\ req[w].step \in CleanupSteps =>
                req[w] \in [step : CleanupSteps, offer : Offers \cup Unknown, own : BOOLEAN, known : BOOLEAN]
           /\ req[w] # Idle => req[w].offer \in Offers \cup Unknown
<1>1. req[w] \in Request \cup {Idle}
    BY DEF TypeOK
<1>2. CASE req[w] = Idle
    BY <1>2 DEF Idle, OfferSteps, CleanupSteps
<1>3. CASE req[w] \in [step : OfferSteps, offer : Offers]
    BY <1>3 DEF Idle, OfferSteps, CleanupSteps, Request
<1>4. CASE req[w] \in [step : CleanupSteps, offer : Offers \cup Unknown, own : BOOLEAN, known : BOOLEAN]
    BY <1>4 DEF Idle, OfferSteps, CleanupSteps, Request
<1> QED
    BY <1>1, <1>2, <1>3, <1>4 DEF Request

LEMMA InitIInv == Init => IInv
<1> SUFFICES ASSUME Init PROVE IInv
    OBVIOUS
<1>1. RequestsRefer
    BY DEF Init, RequestsRefer
<1> QED
    BY <1>1 DEF Init, IInv, TypeOK, ViewersAreKnown, PeersAreOpen, Viewers

\* How a request may go on.
LEMMA NextRequest ==
    ASSUME TypeOK, NEW w \in Workers, NEW r \in Request \cup {Idle}, Go(w, r)
    PROVE  /\ req' \in [Workers -> Request \cup {Idle}]
           /\ req'[w] = r
           /\ \A v \in Workers \ {w} : req'[v] = req[v]
BY DEF TypeOK, Go

\* The request of w takes a step about its own offer, or is over: the others
\* still know what they knew.
LEMMA StepRefer ==
    ASSUME IInv, TypeOK', NEW w \in Workers, NEW r, req[w] # Idle,
           req'[w] = r, \A v \in Workers \ {w} : req'[v] = req[v],
           UNCHANGED <<begun, hungup>>,
           \A p \in Offers \ {req[w].offer} :
                (p \in answered' <=> p \in answered) /\ (p \in unheard' <=> p \in unheard)
                    /\ (p \in peers' <=> p \in peers)
                    /\ (p \in open' <=> p \in open),
           req[w].offer \in peers' => req[w].offer \in peers \/ Own(w),
           r # Idle =>
                /\ r.offer = req[w].offer
                /\ Own(w)' <=> Own(w)
                /\ Own(w)' => r.offer \notin answered' \cup unheard'
                /\ r.step \in {"offer.tracks", "offer.negotiate", "offer.answer"} => r.offer \in peers' \cap open'
                /\ r.step \in CleanupSteps \ {"cleanup.forget"} => r.offer \notin peers'
    PROVE  RequestsRefer'
<1> SUFFICES ASSUME NEW v \in Workers, req'[v] # Idle
             PROVE  /\ req'[v].offer \in begun' \cup Unknown
                    /\ Own(v)' =>
                        /\ req'[v].offer \in begun'
                        /\ req'[v].offer \notin answered' \cup unheard'
                        /\ \A u \in Workers \ {v} : req'[u] # Idle => req'[u].offer # req'[v].offer
                    /\ ~Own(v)' => req'[v].offer \in hungup' \cup Unknown
                    /\ req'[v].step \in {"offer.tracks", "offer.negotiate", "offer.answer"} =>
                         req'[v].offer \in peers' \cap open'
                    /\ req'[v].step \in CleanupSteps \ {"cleanup.forget"} =>
                         req'[v].offer \notin peers'
    BY DEF RequestsRefer
<1>1. CASE v = w
    BY <1>1 DEF IInv, RequestsRefer
<1>2. CASE v # w
    <2>1. req'[v] = req[v] /\ (Own(v)' <=> Own(v))
        BY <1>2 DEF Own
    <2>2. req[v].offer \in Offers \/ (req[v].offer \in Unknown /\ req[v].offer \notin peers')
        BY <2>1, RequestAt, ConstantsAssumption DEF IInv, TypeOK
    <2>2a. Own(v) => req[v].offer \in Offers
        BY <2>1 DEF IInv, RequestsRefer, TypeOK
    <2>3. Own(v) => req[v].offer # req[w].offer
        BY <1>2, <2>1 DEF IInv, RequestsRefer
    <2>4. Own(w) => req[v].offer # req[w].offer
        BY <1>2, <2>1 DEF IInv, RequestsRefer
    <2>5. CASE Own(v)
        BY <1>2, <2>1, <2>2a, <2>3, <2>5 DEF IInv, RequestsRefer
    <2>6. CASE ~Own(v)
        <3>1. req[v].step \notin {"offer.tracks", "offer.negotiate", "offer.answer"}
            BY <2>6 DEF Own, OfferSteps
        <3> QED
            BY <1>2, <2>1, <2>2, <2>4, <2>6, <3>1 DEF IInv, RequestsRefer
    <2> QED
        BY <2>5, <2>6
<1> QED
    BY <1>1, <1>2

-----------------------------------------------------------------------------
(* One step of a request. *)

LEMMA CaptureStep ==
    ASSUME IInv, NEW w \in Workers, OfferCapture(w)
    PROVE  IInv'
<1>1. PICK o \in Offers \ begun :
        /\ begun' = begun \cup {o}
        /\ cancel' = o
        /\ running' = running \cup {o}
        /\ apart' = (apart /\ Alone)
        /\ Go(w, [step |-> "offer.stream", offer |-> o])
    BY DEF OfferCapture
<1>2. /\ UNCHANGED <<stream, open, gathering, peers, candidates, registered,
                      answered, unheard, hungup, early>>
      /\ req[w] = Idle
    BY DEF OfferCapture, maps
<1> DEFINE r == [step |-> "offer.stream", offer |-> o]
<1>3. r \in Request /\ r # Idle /\ r.step \in OfferSteps /\ r.step \notin CleanupSteps
    BY DEF Request, Idle, OfferSteps, CleanupSteps
<1>4. /\ req' \in [Workers -> Request \cup {Idle}]
      /\ req'[w] = r
      /\ \A v \in Workers \ {w} : req'[v] = req[v]
    BY <1>1, <1>3, NextRequest DEF IInv
<1>5. TypeOK'
    BY <1>1, <1>2, <1>4 DEF IInv, TypeOK
<1>6. RequestsRefer'
    <2> SUFFICES ASSUME NEW v \in Workers, req'[v] # Idle
                 PROVE  /\ req'[v].offer \in begun' \cup Unknown
                        /\ Own(v)' =>
                            /\ req'[v].offer \in begun'
                            /\ req'[v].offer \notin answered' \cup unheard'
                            /\ \A u \in Workers \ {v} : req'[u] # Idle => req'[u].offer # req'[v].offer
                        /\ ~Own(v)' => req'[v].offer \in hungup' \cup Unknown
                        /\ req'[v].step \in {"offer.tracks", "offer.negotiate", "offer.answer"} =>
                             req'[v].offer \in peers' \cap open'
                        /\ req'[v].step \in CleanupSteps \ {"cleanup.forget"} =>
                             req'[v].offer \notin peers'
        BY DEF RequestsRefer
    <2>1. \A u \in Workers : req[u] # Idle => req[u].offer # o
        BY ConstantsAssumption DEF IInv, RequestsRefer
    <2>2. o \notin answered \cup unheard
        BY DEF IInv, TypeOK
    <2>3. CASE v = w
        BY <1>1, <1>2, <1>3, <1>4, <2>1, <2>2, <2>3 DEF Own
    <2>4. CASE v # w
        <3>1. req'[v] = req[v] /\ (Own(v)' <=> Own(v))
            BY <1>4, <2>4 DEF Own
        <3> QED
            BY <1>1, <1>2, <1>4, <2>1, <2>4, <3>1 DEF IInv, RequestsRefer
    <2> QED
        BY <2>3, <2>4
<1> QED
    BY <1>2, <1>5, <1>6 DEF IInv, ViewersAreKnown, PeersAreOpen, Viewers

LEMMA StreamStep ==
    ASSUME IInv, NEW w \in Workers, OfferStream(w)
    PROVE  IInv'
<1> DEFINE o == req[w].offer
<1>1. UNCHANGED <<cancel, open, gathering, peers, candidates, registered, begun, answered, unheard, hungup, early, apart>>
        /\ req[w].step = "offer.stream"
    BY DEF OfferStream, At, maps, sessions
<1>2. req[w] # Idle /\ Own(w) /\ req[w] \in [step : OfferSteps, offer : Offers]
    BY <1>1, RequestAt DEF IInv, Idle, Own, OfferSteps
<1>3. PICK r \in {Idle, [req[w] EXCEPT !.step = "offer.connect"]} : Go(w, r)
    BY DEF OfferStream, Go, Goto, Done
<1>4. /\ r \in Request \cup {Idle}
      /\ r # Idle => r.offer = o /\ r.step = "offer.connect"
    BY <1>2, <1>3 DEF Request, OfferSteps
<1>5. /\ req' \in [Workers -> Request \cup {Idle}]
      /\ req'[w] = r
      /\ \A v \in Workers \ {w} : req'[v] = req[v]
    BY <1>3, <1>4, NextRequest DEF IInv
<1>6. stream' \in {stream, o} /\ running' \subseteq running /\ o \in begun
    BY <1>2 DEF OfferStream, IInv, RequestsRefer
<1>7. TypeOK'
    BY <1>1, <1>5, <1>6 DEF IInv, TypeOK
<1>8. r # Idle => Own(w)' /\ r.step \notin CleanupSteps
    BY <1>4, <1>5 DEF Own, OfferSteps, CleanupSteps
<1>9. RequestsRefer'
    BY <1>1, <1>2, <1>4, <1>5, <1>7, <1>8, StepRefer DEF IInv, RequestsRefer
<1> QED
    BY <1>1, <1>7, <1>9 DEF IInv, ViewersAreKnown, PeersAreOpen, Viewers

LEMMA ConnectStep ==
    ASSUME IInv, NEW w \in Workers, OfferConnect(w)
    PROVE  IInv'
<1> DEFINE o == req[w].offer
<1>1. UNCHANGED <<cancel, stream, gathering, candidates, begun, answered, unheard, hungup, early, apart>>
        /\ req[w].step = "offer.connect"
    BY DEF OfferConnect, At, sessions
<1>2. req[w] # Idle /\ Own(w) /\ req[w] \in [step : OfferSteps, offer : Offers]
    BY <1>1, RequestAt DEF IInv, Idle, Own, OfferSteps
<1>3. PICK r \in {Idle, [req[w] EXCEPT !.step = "offer.tracks"]} :
        /\ Go(w, r)
        /\ \/ r # Idle /\ open' = open \cup {o} /\ peers' = peers \cup {o} /\ UNCHANGED running
           \/ r = Idle /\ UNCHANGED <<open, peers>> /\ running' = running \ {o}
        /\ registered' \subseteq registered \cup {o}
    BY <1>2 DEF OfferConnect, Create, Go, Goto, Done, Idle, OfferSteps
<1>4. /\ r \in Request \cup {Idle}
      /\ r # Idle => r.offer = o /\ r.step = "offer.tracks"
    BY <1>2, <1>3 DEF Request, OfferSteps
<1>5. /\ req' \in [Workers -> Request \cup {Idle}]
      /\ req'[w] = r
      /\ \A v \in Workers \ {w} : req'[v] = req[v]
    BY <1>3, <1>4, NextRequest DEF IInv
<1>6. o \in begun /\ o \notin answered \cup unheard
    BY <1>2 DEF IInv, RequestsRefer
<1>7. TypeOK'
    BY <1>1, <1>3, <1>5, <1>6 DEF IInv, TypeOK
<1>8. r # Idle => Own(w)' /\ r.step \notin CleanupSteps
    BY <1>4, <1>5 DEF Own, OfferSteps, CleanupSteps
<1>9. RequestsRefer'
    BY <1>1, <1>2, <1>3, <1>4, <1>5, <1>6, <1>7, <1>8, StepRefer
<1> QED
    BY <1>1, <1>3, <1>7, <1>9 DEF IInv, ViewersAreKnown, PeersAreOpen, Viewers

\* The tracks are added, or the descriptions are set; or the cleanup begins.
LEMMA NegotiateStep ==
    ASSUME IInv, NEW w \in Workers, OfferTracks(w) \/ OfferNegotiate(w)
    PROVE  IInv'
<1> DEFINE o == req[w].offer
<1>1. UNCHANGED <<cancel, stream, running, open, peers, candidates, registered, begun, answered, unheard, hungup, early, apart>>
        /\ req[w].step \in {"offer.tracks", "offer.negotiate"}
    BY DEF OfferTracks, OfferNegotiate, At, sessions, capture, maps
<1>2. req[w] # Idle /\ Own(w) /\ req[w] \in [step : OfferSteps, offer : Offers]
    BY <1>1, RequestAt DEF IInv, Idle, Own, OfferSteps
<1>3. PICK r \in {[step |-> "cleanup.forget", offer |-> o, own |-> TRUE, known |-> FALSE],
                  [req[w] EXCEPT !.step = "offer.negotiate"],
                  [req[w] EXCEPT !.step = "offer.answer"]} :
        Go(w, r) /\ (UNCHANGED gathering \/ gathering' = gathering \cup {o})
    BY DEF OfferTracks, OfferNegotiate, Cleanup, Go, Goto
<1>4. /\ r \in Request
      /\ r.offer = o
      /\ r.step \in {"cleanup.forget", "offer.negotiate", "offer.answer"}
      /\ r.step = "cleanup.forget" => r.own
    <2>1. CASE r = [step |-> "cleanup.forget", offer |-> o, own |-> TRUE, known |-> FALSE]
        <3>1. o \in Offers
            BY <1>2
        <3>2. r \in [step : CleanupSteps, offer : Offers \cup Unknown, own : BOOLEAN, known : BOOLEAN]
            BY <2>1, <3>1 DEF CleanupSteps
        <3> QED
            BY <2>1, <3>2 DEF Request
    <2>2. CASE r = [req[w] EXCEPT !.step = "offer.negotiate"]
        BY <1>2, <2>2 DEF Request, OfferSteps
    <2>3. CASE r = [req[w] EXCEPT !.step = "offer.answer"]
        BY <1>2, <2>3 DEF Request, OfferSteps
    <2> QED
        BY <1>3, <2>1, <2>2, <2>3
<1>5. /\ req' \in [Workers -> Request \cup {Idle}]
      /\ req'[w] = r
      /\ \A v \in Workers \ {w} : req'[v] = req[v]
    BY <1>3, <1>4, NextRequest DEF IInv
<1>6. o \in begun /\ o \notin answered \cup unheard /\ o \in peers \cap open
    BY <1>1, <1>2 DEF IInv, RequestsRefer
<1>7. TypeOK'
    BY <1>1, <1>3, <1>5, <1>6 DEF IInv, TypeOK
<1>8. Own(w)' /\ r.step \notin CleanupSteps \ {"cleanup.forget"}
    BY <1>4, <1>5 DEF Own, OfferSteps, CleanupSteps
<1>9. RequestsRefer'
    BY <1>1, <1>2, <1>4, <1>5, <1>6, <1>7, <1>8, StepRefer
<1> QED
    BY <1>1, <1>7, <1>9 DEF IInv, ViewersAreKnown, PeersAreOpen, Viewers

LEMMA AnswerStep ==
    ASSUME IInv, NEW w \in Workers, OfferAnswer(w)
    PROVE  IInv'
<1> DEFINE o == req[w].offer
<1>1. /\ UNCHANGED <<cancel, stream, running, open, gathering, peers, candidates, registered, begun,
                   hungup, early, apart>>
      /\ req[w].step = "offer.answer"
      /\ \/ answered' = answered \cup {o} /\ UNCHANGED unheard
         \/ unheard' = unheard \cup {o} /\ UNCHANGED answered
      /\ Go(w, Idle)
    BY DEF OfferAnswer, At, capture, maps, Done
<1>2. req[w] # Idle /\ Own(w)
    BY <1>1 DEF Idle, Own, OfferSteps
<1>3. /\ req' \in [Workers -> Request \cup {Idle}]
      /\ req'[w] = Idle
      /\ \A v \in Workers \ {w} : req'[v] = req[v]
    BY <1>1, NextRequest DEF IInv
<1>4. o \in begun /\ o \in peers \cap open /\ o \notin answered \cup unheard
    BY <1>1, <1>2 DEF IInv, RequestsRefer
<1>5. TypeOK'
    BY <1>1, <1>3, <1>4 DEF IInv, TypeOK
<1>6. RequestsRefer'
    BY <1>1, <1>2, <1>3, <1>5, StepRefer
<1> QED
    BY <1>1, <1>4, <1>5, <1>6 DEF IInv, ViewersAreKnown, PeersAreOpen, Viewers

LEMMA HangupStep ==
    ASSUME IInv, NEW w \in Workers, Hangup(w)
    PROVE  IInv'
<1>1. PICK o \in answered \cup Unknown :
        /\ hungup' = hungup \cup ({o} \cap Offers)
        /\ early' \subseteq early \cup ({o} \cap Offers)
        /\ apart' \in BOOLEAN
        /\ Go(w, [step |-> "cleanup.forget", offer |-> o, own |-> FALSE, known |-> FALSE])
    BY DEF Hangup, Cleanup, IInv, TypeOK
<1>2. /\ UNCHANGED <<cancel, stream, running, open, gathering, peers, candidates, registered, begun,
                   answered, unheard>>
      /\ req[w] = Idle
    BY DEF Hangup, capture, maps
<1> DEFINE r == [step |-> "cleanup.forget", offer |-> o, own |-> FALSE, known |-> FALSE]
<1>3. r \in Request /\ r.step \notin OfferSteps /\ o \in begun \cup Unknown
    BY DEF Request, OfferSteps, CleanupSteps, IInv, TypeOK
<1>4. /\ req' \in [Workers -> Request \cup {Idle}]
      /\ req'[w] = r
      /\ \A v \in Workers \ {w} : req'[v] = req[v]
    BY <1>1, <1>3, NextRequest DEF IInv
<1>5. TypeOK'
    BY <1>1, <1>2, <1>4, ConstantsAssumption DEF IInv, TypeOK
<1>5a. o \in hungup' \cup Unknown /\ hungup \subseteq hungup'
    BY <1>1 DEF IInv, TypeOK
<1>6. RequestsRefer'
    <2> SUFFICES ASSUME NEW v \in Workers, req'[v] # Idle
                 PROVE  /\ req'[v].offer \in begun' \cup Unknown
                        /\ Own(v)' =>
                            /\ req'[v].offer \in begun'
                            /\ req'[v].offer \notin answered' \cup unheard'
                            /\ \A u \in Workers \ {v} : req'[u] # Idle => req'[u].offer # req'[v].offer
                        /\ ~Own(v)' => req'[v].offer \in hungup' \cup Unknown
                        /\ req'[v].step \in {"offer.tracks", "offer.negotiate", "offer.answer"} =>
                             req'[v].offer \in peers' \cap open'
                        /\ req'[v].step \in CleanupSteps \ {"cleanup.forget"} =>
                             req'[v].offer \notin peers'
        BY DEF RequestsRefer
    <2>1. CASE v = w
        BY <1>2, <1>3, <1>4, <1>5a, <2>1 DEF Own
    <2>2. CASE v # w
        <3>1. req'[v] = req[v] /\ (Own(v)' <=> Own(v))
            BY <1>4, <2>2 DEF Own
        <3>2. Own(v) => req[v].offer # o
            BY <3>1, ConstantsAssumption DEF IInv, RequestsRefer, TypeOK
        <3> QED
            BY <1>2, <1>4, <1>5a, <2>2, <3>1, <3>2 DEF IInv, RequestsRefer
    <2> QED
        BY <2>1, <2>2
<1> QED
    BY <1>2, <1>5, <1>5a, <1>6 DEF IInv, ViewersAreKnown, PeersAreOpen, Viewers

\* The cleanup goes on, or is over; own and offer stay as they are.
LEMMA CleanupGoesOn ==
    ASSUME IInv, NEW w \in Workers, req[w].step \in CleanupSteps, NEW r, Go(w, r),
           r # Idle =>
             /\ r \in [step : CleanupSteps, offer : Offers \cup Unknown, own : BOOLEAN, known : BOOLEAN]
             /\ r.own = req[w].own
    PROVE  /\ req[w] # Idle
           /\ r # Idle => (Own(w)' <=> Own(w))
           /\ req' \in [Workers -> Request \cup {Idle}]
           /\ req'[w] = r
           /\ \A v \in Workers \ {w} : req'[v] = req[v]
<1>1. req[w] # Idle
    BY RequestAt DEF IInv, CleanupSteps
<1>2. Own(w) <=> req[w].own
    BY DEF Own, OfferSteps, CleanupSteps
<1>3. r \in Request \cup {Idle}
    BY DEF Request
<1>4. /\ req' \in [Workers -> Request \cup {Idle}]
      /\ req'[w] = r
      /\ \A v \in Workers \ {w} : req'[v] = req[v]
    BY <1>3, NextRequest DEF IInv
<1>5. r # Idle => (Own(w)' <=> Own(w))
    BY <1>2, <1>4 DEF Own, OfferSteps, CleanupSteps
<1> QED
    BY <1>1, <1>4, <1>5

LEMMA ForgetStep ==
    ASSUME IInv, NEW w \in Workers, CleanupForget(w)
    PROVE  IInv'
<1> DEFINE o == req[w].offer
           k == o \in peers
           r == [req[w] EXCEPT !.step = "cleanup.close", !.known = k]
<1>1. /\ UNCHANGED <<cancel, stream, running, open, gathering, registered, begun, answered, unheard, hungup, early, apart>>
      /\ req[w].step = "cleanup.forget"
      /\ peers' = peers \ {o}
      /\ candidates' = candidates \ {o}
    BY DEF CleanupForget, At, capture, sessions
<1>2. Go(w, r)
    BY DEF CleanupForget, Go
<1>3. /\ req[w] # Idle
      /\ r # Idle => r.offer = o /\ r.step = "cleanup.close" /\ (Own(w)' <=> Own(w))
      /\ req' \in [Workers -> Request \cup {Idle}]
      /\ req'[w] = r
      /\ \A v \in Workers \ {w} : req'[v] = req[v]
    <2>1. k \in BOOLEAN /\ "cleanup.close" \in CleanupSteps /\ req[w].step \in CleanupSteps
        BY <1>1 DEF CleanupSteps
    <2>2. /\ r \in [step : CleanupSteps, offer : Offers \cup Unknown, own : BOOLEAN, known : BOOLEAN]
          /\ r.offer = o /\ r.step = "cleanup.close" /\ r.own = req[w].own
        <3>1. req[w] \in [step : CleanupSteps, offer : Offers \cup Unknown, own : BOOLEAN, known : BOOLEAN]
            BY <2>1, RequestAt DEF IInv
        <3> HIDE DEF k
        <3> QED
            BY <2>1, <3>1
    <2> HIDE DEF r
    <2> QED
        BY <1>2, <2>1, <2>2, CleanupGoesOn
<1>4. (Own(w) => o \notin answered \cup unheard) /\ (~Own(w) => o \in hungup \cup Unknown)
    BY <1>3 DEF IInv, RequestsRefer
<1>5. TypeOK'
    BY <1>1, <1>3 DEF IInv, TypeOK
<1>6. RequestsRefer'
    <2> HIDE DEF r
    <2> QED
        BY <1>1, <1>3, <1>4, <1>5, StepRefer
<1> QED
    BY <1>1, <1>4, <1>5, <1>6, ConstantsAssumption DEF IInv, TypeOK, ViewersAreKnown, PeersAreOpen, Viewers

LEMMA CloseStep ==
    ASSUME IInv, NEW w \in Workers, CleanupClose(w)
    PROVE  IInv'
<1> DEFINE o == req[w].offer
           r == [req[w] EXCEPT !.step = "cleanup.tracks"]
<1>1. /\ UNCHANGED <<cancel, stream, running, peers, candidates, registered, begun, answered, unheard, hungup, early, apart>>
      /\ req[w].step = "cleanup.close"
      /\ \/ open' = open \ {o} /\ gathering' = gathering \ {o}
         \/ UNCHANGED <<open, gathering>>
      /\ Go(w, r)
    BY DEF CleanupClose, At, capture, maps, sessions, Goto, Go
<1>2. /\ req[w] # Idle
      /\ r # Idle => r.offer = o /\ r.step = "cleanup.tracks" /\ (Own(w)' <=> Own(w))
      /\ req' \in [Workers -> Request \cup {Idle}]
      /\ req'[w] = r
      /\ \A v \in Workers \ {w} : req'[v] = req[v]
    <2>1. req[w].step \in CleanupSteps /\ "cleanup.tracks" \in CleanupSteps
        BY <1>1 DEF CleanupSteps
    <2>2. /\ r \in [step : CleanupSteps, offer : Offers \cup Unknown, own : BOOLEAN, known : BOOLEAN]
          /\ r.offer = o /\ r.step = "cleanup.tracks" /\ r.own = req[w].own
        <3>1. req[w] \in [step : CleanupSteps, offer : Offers \cup Unknown, own : BOOLEAN, known : BOOLEAN]
            BY <2>1, RequestAt DEF IInv
        <3> QED
            BY <2>1, <3>1
    <2> HIDE DEF r
    <2> QED
        BY <1>1, <2>1, <2>2, CleanupGoesOn
<1>3. (Own(w) => o \notin answered \cup unheard) /\ (~Own(w) => o \in hungup \cup Unknown) /\ o \notin peers
    BY <1>1, <1>2 DEF IInv, RequestsRefer, CleanupSteps
<1>4. TypeOK'
    BY <1>1, <1>2 DEF IInv, TypeOK
<1>5. RequestsRefer'
    <2> HIDE DEF r
    <2> QED
        BY <1>1, <1>2, <1>3, <1>4, StepRefer
<1> QED
    BY <1>1, <1>3, <1>4, <1>5, ConstantsAssumption DEF IInv, TypeOK, ViewersAreKnown, PeersAreOpen, Viewers

\* The rest of the cleanup only stops captures.
LEMMA StopStep ==
    ASSUME IInv, NEW w \in Workers, CleanupTracks(w) \/ CleanupCancel(w) \/ CleanupStop(w)
    PROVE  IInv'
<1> DEFINE o == req[w].offer
<1>1. /\ UNCHANGED <<cancel, stream, open, gathering, peers, candidates, registered, begun, answered, unheard, hungup, early, apart>>
      /\ req[w].step \in CleanupSteps \ {"cleanup.forget"}
      /\ running' \subseteq running
    BY DEF CleanupTracks, CleanupCancel, CleanupStop, At, maps, sessions, CleanupSteps
<1>2a. PICK s \in CleanupSteps \ {"cleanup.forget"} :
        \E r \in {Idle, [req[w] EXCEPT !.step = s]} : Go(w, r)
    BY DEF CleanupTracks, CleanupCancel, CleanupStop, Goto, Done, Go, CleanupSteps
<1>2. PICK r \in {Idle, [req[w] EXCEPT !.step = s]} : Go(w, r)
    BY <1>2a
<1>3. /\ req[w] # Idle
      /\ r # Idle => r.offer = o /\ r.step = s /\ (Own(w)' <=> Own(w))
      /\ req' \in [Workers -> Request \cup {Idle}]
      /\ req'[w] = r
      /\ \A v \in Workers \ {w} : req'[v] = req[v]
    <2>1. r # Idle =>
            /\ r \in [step : CleanupSteps, offer : Offers \cup Unknown, own : BOOLEAN, known : BOOLEAN]
            /\ r.offer = o /\ r.step = s /\ r.own = req[w].own
        <3>1. req[w] \in [step : CleanupSteps, offer : Offers \cup Unknown, own : BOOLEAN, known : BOOLEAN]
            BY <1>1, RequestAt DEF IInv
        <3> QED
            BY <1>2, <3>1
    <2> QED
        BY <1>1, <1>2, <2>1, CleanupGoesOn
<1>4. (Own(w) => o \notin answered \cup unheard) /\ o \notin peers
    BY <1>1, <1>3 DEF IInv, RequestsRefer
<1>5. TypeOK'
    BY <1>1, <1>3 DEF IInv, TypeOK
<1>6. s \notin {"offer.tracks", "offer.negotiate", "offer.answer"}
    BY <1>2a DEF CleanupSteps
<1>7. RequestsRefer'
    BY <1>1, <1>3, <1>4, <1>5, <1>6, StepRefer
<1> QED
    BY <1>1, <1>5, <1>7 DEF IInv, ViewersAreKnown, PeersAreOpen, Viewers

-----------------------------------------------------------------------------
(* Pion, and all steps. *)

LEMMA CallbackStep ==
    ASSUME IInv, NEW o \in Offers, Candidate(o) \/ GatheringComplete(o) \/ Closed(o) \/ Failed(o)
    PROVE  IInv'
<1>1. /\ UNCHANGED <<cancel, stream, running, open, peers, req,
                     begun, answered, unheard, hungup, early, apart>>
      /\ candidates' \subseteq candidates \cup (gathering \cap {o})
      /\ gathering' \subseteq gathering
      /\ registered' \subseteq registered
    BY DEF Candidate, GatheringComplete, Closed, Failed, Deregister, capture, maps, sessions
<1>2. TypeOK'
    BY <1>1 DEF IInv, TypeOK
<1>3. \A v \in Workers : Own(v)' <=> Own(v)
    BY <1>1 DEF Own
<1>4. RequestsRefer'
    BY <1>1, <1>3 DEF IInv, RequestsRefer
<1> QED
    BY <1>1, <1>2, <1>4 DEF IInv, ViewersAreKnown, PeersAreOpen, Viewers

LEMMA StutterStep ==
    ASSUME IInv, UNCHANGED vars
    PROVE  IInv'
<1>1. \A v \in Workers : Own(v)' <=> Own(v)
    BY DEF Own, vars
<1>2. RequestsRefer'
    BY <1>1 DEF IInv, RequestsRefer, vars, capture, maps, sessions
<1> QED
    BY <1>2 DEF IInv, TypeOK, ViewersAreKnown, PeersAreOpen, Viewers, vars, capture, maps, sessions

LEMMA StepIInv == IInv /\ [Next]_vars => IInv'
BY CaptureStep, StreamStep, ConnectStep, NegotiateStep, AnswerStep, HangupStep, ForgetStep,
   CloseStep, StopStep, CallbackStep, StutterStep
   DEF Next, Continue

LEMMA Invariance == Spec => []IInv
BY InitIInv, StepIInv, PTL DEF Spec

\* The singleton, the maps, the connections and the requests keep their types.
THEOREM TypeCorrect == Spec => []TypeOK
<1>1. IInv => TypeOK
    BY DEF IInv
<1> QED
    BY <1>1, Invariance, PTL

\* Until it is hung up, the id a client was given leads to its open connection,
\* whatever other offers and hangups do.
THEOREM ViewersAreKnownHolds == Spec => []ViewersAreKnown
<1>1. IInv => ViewersAreKnown
    BY DEF IInv
<1> QED
    BY <1>1, Invariance, PTL

-----------------------------------------------------------------------------
(* Sessions that do not overlap. *)

\* A stray hangup, when there is nothing that it could stop.
Stray(w) == req[w].step \in CleanupSteps /\ peers = {} /\ running = {}

\* One session at a time: the singleton remembers its capture in both of its
\* fields, and one request at most is working on it.
OneSession ==
    apart =>
        /\ peers \subseteq {cancel}
        /\ peers # {} => stream = cancel
        /\ \A v, w \in Workers : req[v] # Idle /\ req[w] # Idle => v = w
        /\ \A w \in Workers : req[w] # Idle /\ ~Stray(w) =>
            /\ req[w].offer = cancel
            /\ ~At(w, "offer.stream") => stream = cancel
            /\ req[w].step \in OfferSteps => cancel \in running

AInv == OneSession /\ ServedApart /\ NoCaptureLeftApart

\* What a request finds when it is the only one.
LEMMA AloneAt ==
    ASSUME IInv, AInv, apart, NEW w \in Workers, req[w] # Idle, ~Stray(w)
    PROVE  /\ \A v \in Workers \ {w} : req[v] = Idle
           /\ req[w].offer = cancel
           /\ peers \subseteq {cancel} /\ (peers # {} => stream = cancel)
           /\ running \subseteq {cancel}
           /\ Viewers \subseteq running
           /\ ~At(w, "offer.stream") => stream = cancel
           /\ req[w].step \in OfferSteps => cancel \in running
<1>1. /\ \A v \in Workers \ {w} : req[v] = Idle
      /\ req[w].offer = cancel
      /\ peers \subseteq {cancel} /\ (peers # {} => stream = cancel)
      /\ ~At(w, "offer.stream") => stream = cancel
      /\ req[w].step \in OfferSteps => cancel \in running
    BY DEF AInv, OneSession
<1>2. running \subseteq {cancel}
    BY DEF AInv, OneSession, NoCaptureLeftApart, Serving
<1> QED
    BY <1>1, <1>2 DEF AInv, ServedApart

\* What its step has to leave.
LEMMA AloneStep ==
    ASSUME apart' => apart, NEW w \in Workers, NEW r,
           apart =>
             /\ \A v \in Workers \ {w} : req'[v] = Idle
             /\ req'[w] = r
             /\ cancel' = cancel
             /\ r # Idle => r.offer = cancel
             /\ peers' \subseteq {cancel}
             /\ peers' # {} \/ (r # Idle /\ r.step # "offer.stream") => stream' = cancel
             /\ r.step \in OfferSteps => cancel \in running'
             /\ running' \subseteq {cancel}
             /\ cancel \in running' => cancel \in peers' \/ r # Idle
             /\ Viewers' \subseteq running'
    PROVE  AInv'
<1>1. OneSession'
    BY DEF OneSession, At
<1>2. NoCaptureLeftApart'
    BY DEF NoCaptureLeftApart, Serving
<1>3. ServedApart'
    BY DEF ServedApart
<1> QED
    BY <1>1, <1>2, <1>3 DEF AInv

LEMMA ApartCapture ==
    ASSUME IInv, AInv, NEW w \in Workers, OfferCapture(w)
    PROVE  AInv'
<1>1. PICK o \in Offers \ begun :
        /\ begun' = begun \cup {o}
        /\ cancel' = o
        /\ running' = running \cup {o}
        /\ apart' = (apart /\ Alone)
        /\ Go(w, [step |-> "offer.stream", offer |-> o])
    BY DEF OfferCapture
<1>2. UNCHANGED <<stream, peers, open, answered, hungup>>
    BY DEF OfferCapture, maps
<1> SUFFICES ASSUME apart' PROVE AInv'
    BY DEF AInv, OneSession, ServedApart, NoCaptureLeftApart
<1> DEFINE r == [step |-> "offer.stream", offer |-> o]
<1>3. r \in Request /\ r # Idle
    BY DEF Request, Idle, OfferSteps
<1>4. req'[w] = r /\ \A v \in Workers \ {w} : req'[v] = req[v]
    BY <1>1, <1>3, NextRequest DEF IInv
<1>5. peers = {} /\ running = {} /\ \A v \in Workers : req[v] = Idle
    BY <1>1 DEF Alone, AInv, NoCaptureLeftApart, Serving
<1>6. Viewers' = {}
    BY <1>2, <1>5 DEF IInv, ViewersAreKnown, Viewers
<1>7. OneSession'
    BY <1>1, <1>2, <1>3, <1>4, <1>5 DEF OneSession, At
<1>8. NoCaptureLeftApart'
    BY <1>1, <1>3, <1>4, <1>5 DEF NoCaptureLeftApart, Serving
<1> QED
    BY <1>6, <1>7, <1>8 DEF AInv, ServedApart

\* The steps of an offer.
LEMMA ApartOffer ==
    ASSUME IInv, AInv, NEW w \in Workers,
           \/ OfferStream(w) \/ OfferConnect(w) \/ OfferTracks(w)
           \/ OfferNegotiate(w) \/ OfferAnswer(w)
    PROVE  AInv'
<1> DEFINE o == req[w].offer
<1>1. req[w].step \in OfferSteps
    BY DEF OfferStream, OfferConnect, OfferTracks, OfferNegotiate, OfferAnswer, At, OfferSteps
<1>1a. ~Stray(w)
    BY <1>1 DEF Stray, OfferSteps, CleanupSteps
<1>2. req[w] # Idle /\ Own(w) /\ o \notin answered
    BY <1>1 DEF Idle, OfferSteps, Own, IInv, RequestsRefer
<1>3. UNCHANGED <<cancel, apart, hungup>> /\ answered' \subseteq answered \cup {o}
    BY DEF OfferStream, OfferConnect, OfferTracks, OfferNegotiate, OfferAnswer, capture, sessions
<1>4. apart => Viewers' \subseteq Viewers \cup {cancel}
    BY <1>2, <1>3, <1>1a, AloneAt DEF Viewers
<1>5. req[w] \in [step : OfferSteps, offer : Offers]
    BY <1>1, RequestAt DEF IInv
<1>6. req' = [req EXCEPT ![w] = req'[w]] /\ \A v \in Workers \ {w} : req'[v] = req[v]
    BY DEF OfferStream, OfferConnect, OfferTracks, OfferNegotiate, OfferAnswer, Goto, Go, Done, Cleanup, IInv, TypeOK
<1>7. ASSUME OfferStream(w) PROVE AInv'
    <2>1. CASE stream' = o /\ Goto(w, "offer.connect") /\ UNCHANGED running
        <3>1. req'[w] = [req[w] EXCEPT !.step = "offer.connect"]
            BY <2>1 DEF Goto, IInv, TypeOK
        <3>2. req'[w].offer = o /\ req'[w] # Idle
            BY <1>5, <3>1 DEF Idle, OfferSteps
        <3>3. UNCHANGED peers
            BY <1>7 DEF OfferStream, maps
        <3>4. answered' = answered
            BY <1>7 DEF OfferStream, sessions
        <3> QED
            BY <1>1, <1>2, <1>3, <1>6, <2>1, <3>2, <3>3, <3>4, <1>1a, AloneAt, AloneStep DEF Viewers
    <2>2. CASE running' = running \ {o} /\ Done(w) /\ UNCHANGED stream
        <3>1. req'[w] = Idle
            BY <2>2 DEF Done, Go, IInv, TypeOK
        <3>2. UNCHANGED peers
            BY <1>7 DEF OfferStream, maps
        <3>3. answered' = answered
            BY <1>7 DEF OfferStream, sessions
        <3>4. Idle.step \notin OfferSteps
            BY DEF Idle, OfferSteps
        <3> QED
            BY <1>2, <1>3, <1>6, <2>2, <3>1, <3>2, <3>3, <3>4, <1>1a, AloneAt, AloneStep DEF Viewers
    <2> QED
        BY <1>7, <2>1, <2>2 DEF OfferStream
<1>8. ASSUME OfferConnect(w) PROVE AInv'
    <2>1. UNCHANGED <<stream, answered>> /\ ~At(w, "offer.stream")
        BY <1>8 DEF OfferConnect, sessions, At
    <2>2. CASE Goto(w, "offer.tracks") /\ peers' = peers \cup {o} /\ UNCHANGED running
        <3>1. req'[w] = [req[w] EXCEPT !.step = "offer.tracks"]
            BY <2>2 DEF Goto, IInv, TypeOK
        <3>2. req'[w].offer = o /\ req'[w] # Idle
            BY <1>5, <3>1 DEF Idle, OfferSteps
        <3> QED
            BY <1>1, <1>2, <1>3, <1>6, <2>1, <2>2, <3>2, <1>1a, AloneAt, AloneStep DEF Viewers
    <2>3. CASE running' = running \ {o} /\ Done(w) /\ UNCHANGED peers
        <3>1. req'[w] = Idle
            BY <2>3 DEF Done, Go, IInv, TypeOK
        <3>2. Idle.step \notin OfferSteps
            BY DEF Idle, OfferSteps
        <3> QED
            BY <1>2, <1>3, <1>6, <2>1, <2>3, <3>1, <3>2, <1>1a, AloneAt, AloneStep DEF Viewers
    <2> QED
        BY <1>8, <2>2, <2>3 DEF OfferConnect
<1>9. ASSUME OfferTracks(w) \/ OfferNegotiate(w) PROVE AInv'
    <2>1. UNCHANGED <<stream, running, peers, answered>> /\ ~At(w, "offer.stream")
        BY <1>9 DEF OfferTracks, OfferNegotiate, capture, maps, sessions, At
    <2>2. req'[w].offer = o /\ req'[w] # Idle
        <3>1. CASE Cleanup(w, o, TRUE)
            BY <3>1 DEF Cleanup, Go, Idle, IInv, TypeOK
        <3>2. ASSUME NEW s \in {"offer.negotiate", "offer.answer"}, Goto(w, s)
              PROVE  req'[w].offer = o /\ req'[w] # Idle
            <4>1. req'[w] = [req[w] EXCEPT !.step = s]
                BY <3>2 DEF Goto, IInv, TypeOK
            <4> QED
                BY <1>5, <4>1 DEF Idle, OfferSteps
        <3> QED
            BY <1>9, <3>1, <3>2 DEF OfferTracks, OfferNegotiate
    <2> QED
        BY <1>1, <1>2, <1>3, <1>6, <2>1, <2>2, <1>1a, AloneAt, AloneStep DEF Viewers
<1>10. ASSUME OfferAnswer(w) PROVE AInv'
    <2>1. UNCHANGED <<stream, running, peers>> /\ ~At(w, "offer.stream")
        BY <1>10 DEF OfferAnswer, capture, maps, At
    <2>2. req'[w] = Idle /\ o \in peers
        BY <1>2, <1>10 DEF OfferAnswer, Done, Go, At, IInv, TypeOK, RequestsRefer
    <2>3. Idle.step \notin OfferSteps
        BY DEF Idle, OfferSteps
    <2> QED
        BY <1>1, <1>2, <1>3, <1>4, <1>6, <2>1, <2>2, <2>3, <1>1a, AloneAt, AloneStep
<1> QED
    BY <1>7, <1>8, <1>9, <1>10

LEMMA ApartHangup ==
    ASSUME IInv, AInv, NEW w \in Workers, Hangup(w)
    PROVE  AInv'
<1>1. PICK o \in answered \cup Unknown :
        /\ hungup' = hungup \cup ({o} \cap Offers)
        /\ apart' = (apart /\ (o \in Viewers \/ Alone))
        /\ Go(w, [step |-> "cleanup.forget", offer |-> o, own |-> FALSE, known |-> FALSE])
    BY DEF Hangup, Cleanup
<1>2. UNCHANGED <<cancel, stream, running, peers, answered>> /\ req[w] = Idle
    BY DEF Hangup, capture, maps
<1> SUFFICES ASSUME apart' PROVE AInv'
    BY DEF AInv, OneSession, ServedApart, NoCaptureLeftApart
<1> DEFINE r == [step |-> "cleanup.forget", offer |-> o, own |-> FALSE, known |-> FALSE]
<1>3. r # Idle /\ r.step \in CleanupSteps /\ r.step \notin OfferSteps /\ r.step # "offer.stream"
    BY DEF Idle, OfferSteps, CleanupSteps
<1>4. req'[w] = r /\ \A v \in Workers \ {w} : req'[v] = req[v]
    BY <1>1 DEF Go, IInv, TypeOK
<1>5. Viewers' \subseteq running'
    BY <1>1, <1>2 DEF AInv, ServedApart, Viewers
<1>6. CASE o \in Viewers
    <2>1. o \in peers /\ peers = {cancel} /\ stream = cancel
        BY <1>1, <1>6 DEF IInv, ViewersAreKnown, AInv, OneSession
    <2>2. \A v \in Workers : ~Stray(v)
        BY <2>1 DEF Stray
    <2>3. \A p \in running : p \in peers \/ Serving(p)
        BY <1>1 DEF AInv, NoCaptureLeftApart
    <2>4. \A p \in Offers : Serving(p) => p = cancel
        BY <1>1, <2>2 DEF AInv, OneSession, Serving
    <2>5. running \subseteq {cancel}
        BY <2>1, <2>3, <2>4 DEF IInv, TypeOK
    \* Whoever works on the session has not answered it yet, or was hung up before.
    <2>6. \A v \in Workers : req[v] = Idle
        <3> SUFFICES ASSUME NEW v \in Workers, req[v] # Idle PROVE FALSE
            OBVIOUS
        <3>1. req[v].offer = o
            BY <1>1, <2>1, <2>2 DEF AInv, OneSession
        <3>2. o \notin Unknown
            BY <1>6, ConstantsAssumption DEF Viewers, IInv, TypeOK
        <3> QED
            BY <1>6, <3>1, <3>2 DEF IInv, RequestsRefer, Viewers
    <2>7. OneSession'
        BY <1>2, <1>3, <1>4, <2>1, <2>6 DEF OneSession, At
    <2>8. NoCaptureLeftApart'
        BY <1>2, <2>1, <2>5 DEF NoCaptureLeftApart
    <2> QED
        BY <1>5, <2>7, <2>8 DEF AInv, ServedApart
<1>7. CASE Alone
    <2>1. peers = {} /\ running = {} /\ \A v \in Workers : req[v] = Idle
        BY <1>1, <1>7 DEF Alone, AInv, NoCaptureLeftApart, Serving
    <2>2. Stray(w)'
        BY <1>2, <1>3, <1>4, <2>1 DEF Stray
    <2>3. OneSession'
        BY <1>2, <1>4, <2>1, <2>2 DEF OneSession
    <2>4. NoCaptureLeftApart'
        BY <1>2, <2>1 DEF NoCaptureLeftApart
    <2> QED
        BY <1>5, <2>3, <2>4 DEF AInv, ServedApart
<1> QED
    BY <1>1, <1>6, <1>7

\* The steps of a cleanup: whose offer it is, that one is no viewer's any more.
LEMMA ApartCleanup ==
    ASSUME IInv, AInv, NEW w \in Workers,
           \/ CleanupForget(w) \/ CleanupClose(w) \/ CleanupTracks(w)
           \/ CleanupCancel(w) \/ CleanupStop(w)
    PROVE  AInv'
<1> DEFINE o == req[w].offer
<1>1. req[w].step \in CleanupSteps
    BY DEF CleanupForget, CleanupClose, CleanupTracks, CleanupCancel, CleanupStop, At, CleanupSteps
<1>2. req[w] \in [step : CleanupSteps, offer : Offers \cup Unknown, own : BOOLEAN, known : BOOLEAN]
        /\ req[w] # Idle /\ ~At(w, "offer.stream")
    BY <1>1, RequestAt DEF IInv, CleanupSteps, At
<1>3. o \notin Viewers
    BY <1>2, ConstantsAssumption DEF IInv, TypeOK, RequestsRefer, Viewers
<1>4. /\ UNCHANGED <<cancel, stream, answered, unheard, hungup, early, apart>>
      /\ peers' \subseteq peers
    BY DEF CleanupForget, CleanupClose, CleanupTracks, CleanupCancel, CleanupStop,
           capture, maps, sessions
<1>5. Viewers' = Viewers
    BY <1>4 DEF Viewers
<1>6. \A v \in Workers \ {w} : req'[v] = req[v]
    BY DEF CleanupForget, CleanupClose, CleanupTracks, CleanupCancel, CleanupStop,
           Goto, Done, Go, IInv, TypeOK
<1>7. running' \subseteq running
    BY DEF CleanupForget, CleanupClose, CleanupTracks, CleanupCancel, CleanupStop, capture
<1>8. (CleanupStop(w) /\ req'[w] = Idle) \/ (req'[w].step \in CleanupSteps /\ req'[w].offer = o)
    <2>1. CASE CleanupStop(w)
        BY <2>1 DEF CleanupStop, Done, Go, IInv, TypeOK
    <2>2. CASE ~CleanupStop(w)
        <3>1. PICK s \in CleanupSteps :
                \/ req'[w] = [req[w] EXCEPT !.step = s]
                \/ req'[w] = [req[w] EXCEPT !.step = s, !.known = o \in peers]
            BY <2>2 DEF CleanupForget, CleanupClose, CleanupTracks, CleanupCancel, Goto,
                        CleanupSteps, IInv, TypeOK
        <3> QED
            BY <1>2, <2>2, <3>1
    <2> QED
        BY <2>1, <2>2
<1> SUFFICES ASSUME apart PROVE AInv'
    BY <1>4 DEF AInv, OneSession, ServedApart, NoCaptureLeftApart
\* A stray one finds nothing,
<1>9. CASE Stray(w)
    <2>1. peers' = {} /\ running' = {} /\ Viewers' = {}
        BY <1>4, <1>5, <1>7, <1>9 DEF Stray, AInv, ServedApart
    <2>2. req'[w] = Idle \/ Stray(w)'
        BY <1>8, <2>1 DEF Stray
    <2>3. \A v \in Workers \ {w} : req'[v] = Idle
        BY <1>2, <1>6 DEF AInv, OneSession
    <2> QED
        BY <2>1, <2>2, <2>3 DEF AInv, OneSession, ServedApart, NoCaptureLeftApart
\* and that of a session its own capture.
<1>10. CASE ~Stray(w)
    <2>1. running \ running' \subseteq {cancel}
        BY <1>2, <1>10, AloneAt
    <2>2. Viewers \subseteq running'
        BY <1>2, <1>3, <1>10, <2>1, AloneAt
    <2>3. CASE CleanupStop(w)
        <3>1. req'[w] = Idle /\ running' = running \ {stream}
            BY <1>2, <2>3 DEF CleanupStop, Done, Go, IInv, TypeOK
        <3>2. Idle.step \notin OfferSteps
            BY DEF Idle, OfferSteps
        <3> QED
            BY <1>2, <1>4, <1>5, <1>6, <1>7, <1>10, <2>2, <3>1, <3>2, AloneAt, AloneStep
    <2>4. CASE req'[w].step \in CleanupSteps /\ req'[w].offer = o
        <3>1. req'[w] # Idle /\ req'[w].step \notin OfferSteps
            BY <2>4 DEF Idle, CleanupSteps, OfferSteps
        <3> QED
            BY <1>2, <1>4, <1>5, <1>6, <1>7, <1>10, <2>2, <2>4, <3>1, AloneAt, AloneStep
    <2> QED
        BY <1>8, <2>3, <2>4
<1> QED
    BY <1>9, <1>10

LEMMA ApartInit == Init => AInv
BY DEF Init, AInv, OneSession, ServedApart, NoCaptureLeftApart, Viewers

LEMMA ApartQuiet ==
    ASSUME AInv, UNCHANGED <<cancel, stream, running, peers, req, answered, unheard, hungup, early, apart>>
    PROVE  AInv'
BY DEF AInv, Stray, OneSession, ServedApart, NoCaptureLeftApart, Viewers, Serving, At

LEMMA StepAInv == IInv /\ AInv /\ [Next]_vars => AInv'
<1> SUFFICES ASSUME IInv, AInv, [Next]_vars PROVE AInv'
    OBVIOUS
<1>1. CASE UNCHANGED vars
    BY <1>1, ApartQuiet DEF vars, capture, maps, sessions
<1>2. CASE \E o \in Offers : Candidate(o) \/ GatheringComplete(o) \/ Closed(o) \/ Failed(o)
    BY <1>2, ApartQuiet DEF Candidate, GatheringComplete, Closed, Failed, capture, maps, sessions
<1> QED
    BY <1>1, <1>2, ApartCapture, ApartOffer, ApartHangup, ApartCleanup DEF Next, Continue

LEMMA ApartInvariance == Spec => []AInv
BY ApartInit, StepAInv, Invariance, PTL DEF Spec

\* As long as sessions do not overlap, and no hangup of no session comes during
\* one, every viewer is served until its hangup.
THEOREM ServedApartHolds == Spec => []ServedApart
<1>1. AInv => ServedApart
    BY DEF AInv
<1> QED
    BY <1>1, ApartInvariance, PTL

\* As long as sessions do not overlap, nor stray hangups come during one, no
\* capture runs on after its session.
THEOREM NoCaptureLeftApartHolds == Spec => []NoCaptureLeftApart
<1>1. AInv => NoCaptureLeftApart
    BY DEF AInv
<1> QED
    BY <1>1, ApartInvariance, PTL

-----------------------------------------------------------------------------
(* What is left of a session that nobody can hang up (any more). *)

Works(o, S) == \E w \in Workers : req[w].step \in S /\ req[w].offer = o

Closing(o) == \E w \in Workers : At(w, "cleanup.close") /\ req[w].offer = o /\ req[w].known

Loose(o) == o \in begun /\ (o \in hungup \/ o \notin answered \cup unheard)

\* Whatever there is of such a session, some request is going to remove it or
\* to answer the offer.
Attended(o) ==
    Loose(o) =>
        /\ o \in peers =>
             Works(o, {"offer.tracks", "offer.negotiate", "offer.answer", "cleanup.forget"})
        /\ o \in open => o \in peers \/ Closing(o)
        /\ o \in gathering => o \in early \/ Works(o, {"offer.answer"})
        /\ o \in candidates => o \in early \/ Works(o, {"offer.answer", "cleanup.forget"})

LInv == \A o \in Offers : Attended(o)

\* A step that is about one offer leaves the others attended.
LEMMA OthersAttended ==
    ASSUME IInv, LInv, NEW w \in Workers, NEW o \in Offers \cup Unknown,
           req[w].step \in OfferSteps \cup CleanupSteps => req[w].offer = o,
           \A v \in Workers \ {w} : req'[v] = req[v],
           \A p \in Offers \ {o} :
                /\ p \in begun' => p \in begun
                /\ (p \in answered' <=> p \in answered) /\ (p \in unheard' <=> p \in unheard)
                /\ (p \in hungup' <=> p \in hungup) /\ (p \in early' <=> p \in early)
                /\ (p \in peers' <=> p \in peers) /\ (p \in open' <=> p \in open)
                /\ (p \in gathering' <=> p \in gathering)
                /\ (p \in candidates' <=> p \in candidates),
           o \in Offers => Attended(o)'
    PROVE  LInv'
<1> SUFFICES ASSUME NEW p \in Offers, p # o PROVE Attended(p)'
    BY DEF LInv
<1>1. \A v \in Workers :
        req[v].step \in OfferSteps \cup CleanupSteps /\ req[v].offer = p => req'[v] = req[v]
    OBVIOUS
<1>2. \A S \in SUBSET (OfferSteps \cup CleanupSteps) : Works(p, S) => Works(p, S)'
    BY <1>1 DEF Works
<1>3. Closing(p) => Closing(p)'
    BY <1>1 DEF Closing, At, CleanupSteps
<1>4. Loose(p)' => Loose(p)
    BY DEF Loose
<1>5. Attended(p)
    BY DEF LInv
<1>6. {"offer.answer"} \in SUBSET (OfferSteps \cup CleanupSteps)
    BY DEF OfferSteps
<1>7. {"offer.answer", "cleanup.forget"} \in SUBSET (OfferSteps \cup CleanupSteps)
    BY DEF OfferSteps, CleanupSteps
<1>8. {"offer.tracks", "offer.negotiate", "offer.answer", "cleanup.forget"}
        \in SUBSET (OfferSteps \cup CleanupSteps)
    BY DEF OfferSteps, CleanupSteps
<1> QED
    BY <1>2, <1>3, <1>4, <1>5, <1>6, <1>7, <1>8 DEF Attended

\* Nobody but its own request works on an offer that is not answered.
LEMMA OwnWork ==
    ASSUME IInv, NEW w \in Workers, Own(w), NEW v \in Workers, req[v].offer = req[w].offer,
           req[v].step \in OfferSteps \cup CleanupSteps
    PROVE  v = w
<1>1. req[v] # Idle /\ req[w] # Idle
    BY DEF Own, Idle, OfferSteps, CleanupSteps
<1> QED
    BY <1>1 DEF IInv, RequestsRefer

\* Its request begins an offer: nothing is there yet.
LEMMA Fresh ==
    ASSUME IInv, LInv, NEW w \in Workers, req[w].step \in {"offer.stream", "offer.connect"}
    PROVE  /\ req[w].offer \in begun \ (answered \cup unheard)
           /\ req[w].offer \notin peers \cup open \cup gathering \cup candidates
<1> DEFINE o == req[w].offer
<1>1. req[w] # Idle /\ Own(w)
    BY DEF Idle, Own, OfferSteps
<1>2. o \in begun /\ o \notin answered \cup unheard /\ o \in Offers
    BY <1>1 DEF IInv, RequestsRefer, TypeOK
<1>3. Loose(o) /\ o \notin early
    BY <1>2 DEF Loose, IInv, TypeOK
<1>4. ~Works(o, {"offer.tracks", "offer.negotiate", "offer.answer", "cleanup.forget"})
    BY <1>1, OwnWork DEF Works, OfferSteps, CleanupSteps
<1>5. ~Closing(o)
    BY <1>1, OwnWork DEF Closing, At, CleanupSteps
<1>6. ~Works(o, {"offer.answer", "cleanup.forget"}) /\ ~Works(o, {"offer.answer"})
    BY <1>4 DEF Works
<1>7. Attended(o)
    BY <1>2 DEF LInv
<1> QED
    BY <1>2, <1>3, <1>4, <1>5, <1>6, <1>7 DEF Attended

LEMMA LeftCapture ==
    ASSUME IInv, LInv, NEW w \in Workers, OfferCapture(w)
    PROVE  LInv'
<1>1. PICK o \in Offers \ begun :
        /\ begun' = begun \cup {o}
        /\ Go(w, [step |-> "offer.stream", offer |-> o])
    BY DEF OfferCapture
<1>2. /\ UNCHANGED <<open, gathering, peers, candidates, answered, unheard, hungup, early>>
      /\ req[w] = Idle
    BY DEF OfferCapture, maps
<1>3. \A v \in Workers \ {w} : req'[v] = req[v]
    BY <1>1 DEF Go, IInv, TypeOK
<1>4. req[w].step \notin OfferSteps \cup CleanupSteps
    BY <1>2 DEF Idle, OfferSteps, CleanupSteps
<1>5. o \notin peers \cup open \cup gathering \cup candidates
    BY DEF IInv, TypeOK
<1>6. Attended(o)'
    BY <1>2, <1>5 DEF Attended
<1> QED
    BY <1>1, <1>2, <1>3, <1>4, <1>6, OthersAttended

\* The steps of an offer.
LEMMA LeftOffer ==
    ASSUME IInv, LInv, NEW w \in Workers,
           \/ OfferStream(w) \/ OfferConnect(w) \/ OfferTracks(w)
           \/ OfferNegotiate(w) \/ OfferAnswer(w)
    PROVE  LInv'
<1>1. req[w].step \in OfferSteps
    BY DEF OfferStream, OfferConnect, OfferTracks, OfferNegotiate, OfferAnswer, At, OfferSteps
<1> SUFFICES ASSUME NEW o \in Offers, o = req[w].offer
             PROVE  LInv'
    BY <1>1, RequestAt DEF IInv, Idle, OfferSteps
<1>2. req[w] # Idle /\ Own(w) /\ o \in Offers
    BY <1>1, RequestAt DEF Idle, OfferSteps, Own, IInv
<1>3. o \in begun \ (answered \cup unheard) /\ o \notin hungup \cup early
    BY <1>2 DEF IInv, RequestsRefer, TypeOK
<1>4. req[w] \in [step : OfferSteps, offer : Offers]
    BY <1>1, RequestAt DEF IInv
<1>5. \A v \in Workers \ {w} : req'[v] = req[v]
    BY DEF OfferStream, OfferConnect, OfferTracks, OfferNegotiate, OfferAnswer, Goto, Go, Done,
           Cleanup, IInv, TypeOK
<1>6. UNCHANGED <<begun, hungup, early, candidates>>
    BY DEF OfferStream, OfferConnect, OfferTracks, OfferNegotiate, OfferAnswer, sessions, maps
<1>7. \A p \in Offers \ {o} :
        /\ (p \in answered' <=> p \in answered) /\ (p \in unheard' <=> p \in unheard)
        /\ (p \in peers' <=> p \in peers) /\ (p \in open' <=> p \in open)
        /\ (p \in gathering' <=> p \in gathering)
    BY DEF OfferStream, OfferConnect, OfferTracks, OfferNegotiate, OfferAnswer, Create, sessions, maps
<1>8. Attended(o)'
    <2>1. CASE OfferStream(w)
        <3>1. o \notin peers \cup open \cup gathering \cup candidates
            BY <2>1, Fresh DEF OfferStream, At
        <3> QED
            BY <2>1, <3>1 DEF Attended, OfferStream, maps
    <2>2. CASE OfferConnect(w)
        <3>1. o \notin peers \cup open \cup gathering \cup candidates
            BY <2>2, Fresh DEF OfferConnect, At
        <3>2. UNCHANGED <<gathering, candidates>>
            BY <2>2 DEF OfferConnect
        <3>3. CASE Goto(w, "offer.tracks") /\ peers' = peers \cup {o}
            <4>1. req'[w] = [req[w] EXCEPT !.step = "offer.tracks"]
                BY <3>3 DEF Goto, IInv, TypeOK
            <4>2. req'[w].offer = o /\ req'[w].step = "offer.tracks"
                BY <1>4, <4>1
            <4>3. Works(o, {"offer.tracks", "offer.negotiate", "offer.answer", "cleanup.forget"})'
                BY <4>2 DEF Works
            <4> QED
                BY <3>1, <3>2, <3>3, <4>3 DEF Attended
        <3>4. CASE UNCHANGED <<open, peers>>
            BY <3>1, <3>2, <3>4 DEF Attended
        <3> QED
            BY <2>2, <3>3, <3>4 DEF OfferConnect
    <2>3. CASE OfferTracks(w) \/ OfferNegotiate(w)
        <3>1. UNCHANGED <<peers, open>> /\ o \in peers
            BY <1>2, <2>3 DEF OfferTracks, OfferNegotiate, maps, At, IInv, RequestsRefer
        <3>2. o \notin gathering \cup candidates
            <4>1. req[w].step \in {"offer.tracks", "offer.negotiate"}
                BY <2>3 DEF OfferTracks, OfferNegotiate, At
            <4>2. ~Works(o, {"offer.answer", "cleanup.forget"}) /\ ~Works(o, {"offer.answer"})
                BY <1>2, <4>1, OwnWork DEF Works, OfferSteps, CleanupSteps
            <4> QED
                BY <1>2, <1>3, <4>2 DEF LInv, Attended, Loose
        <3>3. /\ req'[w].offer = o
              /\ req'[w].step \in {"offer.negotiate", "offer.answer", "cleanup.forget"}
              /\ o \in gathering' => req'[w].step = "offer.answer"
            <4>1. CASE Cleanup(w, o, TRUE) /\ UNCHANGED gathering
                BY <3>2, <4>1 DEF Cleanup, Go, IInv, TypeOK
            <4>2. ASSUME NEW t \in {"offer.negotiate", "offer.answer"}, Goto(w, t),
                         o \in gathering' => t = "offer.answer"
                  PROVE  <3>3!:
                <5>1. req'[w] = [req[w] EXCEPT !.step = t]
                    BY <4>2 DEF Goto, IInv, TypeOK
                <5> QED
                    BY <1>4, <4>2, <5>1
            <4> QED
                BY <2>3, <3>2, <4>1, <4>2 DEF OfferTracks, OfferNegotiate
        <3>4. Works(o, {"offer.tracks", "offer.negotiate", "offer.answer", "cleanup.forget"})'
            BY <3>3 DEF Works
        <3>5. o \in gathering' => Works(o, {"offer.answer"})'
            BY <3>3 DEF Works
        <3> QED
            BY <1>6, <3>1, <3>2, <3>4, <3>5 DEF Attended
    <2>4. CASE OfferAnswer(w)
        BY <1>3, <1>6, <2>4 DEF OfferAnswer, Attended, Loose
    <2> QED
        BY <2>1, <2>2, <2>3, <2>4
<1> QED
    BY <1>2, <1>5, <1>6, <1>7, <1>8, OthersAttended

\* A hangup takes the session over, unless another one has already.
LEMMA LeftHangup ==
    ASSUME IInv, LInv, NEW w \in Workers, Hangup(w)
    PROVE  LInv'
<1>1. PICK o \in answered \cup Unknown :
        /\ hungup' = hungup \cup ({o} \cap Offers)
        /\ early' = early \cup ({o} \cap gathering)
        /\ Go(w, [step |-> "cleanup.forget", offer |-> o, own |-> FALSE, known |-> FALSE])
    BY DEF Hangup, Cleanup
<1>2. /\ UNCHANGED <<open, gathering, peers, candidates, begun, answered, unheard>>
      /\ req[w] = Idle /\ o \in Offers \cup Unknown
    BY DEF Hangup, maps, IInv, TypeOK
<1>3. /\ req'[w].step = "cleanup.forget" /\ req'[w].offer = o
      /\ \A v \in Workers \ {w} : req'[v] = req[v]
    BY <1>1 DEF Go, IInv, TypeOK
<1>4. req[w].step \notin OfferSteps \cup CleanupSteps
    BY <1>2 DEF Idle, OfferSteps, CleanupSteps
<1>5. /\ Works(o, {"offer.tracks", "offer.negotiate", "offer.answer", "cleanup.forget"})'
      /\ Works(o, {"offer.answer", "cleanup.forget"})'
    BY <1>3 DEF Works
<1>6. o \in Offers /\ o \in open => o \in peers \/ Closing(o)
    <2>1. CASE o \in hungup
        BY <1>2, <2>1 DEF LInv, Attended, Loose, IInv, TypeOK
    <2>2. CASE o \notin hungup
        BY <1>1, <2>2, ConstantsAssumption DEF IInv, ViewersAreKnown, Viewers
    <2> QED
        BY <2>1, <2>2
<1>7. Closing(o) => Closing(o)'
    BY <1>3, <1>4 DEF Closing, At, CleanupSteps
<1>8. o \in gathering => o \in early'
    BY <1>1
<1>9. o \in Offers => Attended(o)'
    BY <1>2, <1>5, <1>6, <1>7, <1>8 DEF Attended
<1> QED
    BY <1>1, <1>2, <1>3, <1>4, <1>9, OthersAttended

\* The steps of a cleanup: what it removes needs no attendance any more.
LEMMA LeftCleanup ==
    ASSUME IInv, LInv, NEW w \in Workers,
           \/ CleanupForget(w) \/ CleanupClose(w) \/ CleanupTracks(w)
           \/ CleanupCancel(w) \/ CleanupStop(w)
    PROVE  LInv'
<1>1. req[w].step \in CleanupSteps
    BY DEF CleanupForget, CleanupClose, CleanupTracks, CleanupCancel, CleanupStop, At, CleanupSteps
<1> SUFFICES ASSUME NEW o \in Offers \cup Unknown, o = req[w].offer
             PROVE  LInv'
    BY <1>1, RequestAt DEF IInv, Idle, CleanupSteps
<1>2. req[w] \in [step : CleanupSteps, offer : Offers \cup Unknown, own : BOOLEAN, known : BOOLEAN]
    BY <1>1, RequestAt DEF IInv
<1>3. \A v \in Workers \ {w} : req'[v] = req[v]
    BY DEF CleanupForget, CleanupClose, CleanupTracks, CleanupCancel, CleanupStop,
           Goto, Done, Go, IInv, TypeOK
<1>4. UNCHANGED <<begun, answered, unheard, hungup, early>>
    BY DEF CleanupForget, CleanupClose, CleanupTracks, CleanupCancel, CleanupStop, sessions
<1>5. \A p \in Offers \ {o} :
        /\ (p \in peers' <=> p \in peers) /\ (p \in open' <=> p \in open)
        /\ (p \in gathering' <=> p \in gathering) /\ (p \in candidates' <=> p \in candidates)
    BY DEF CleanupForget, CleanupClose, CleanupTracks, CleanupCancel, CleanupStop, maps
<1>6. (o \in Offers => Attended(o)) /\ (Loose(o)' <=> Loose(o))
    BY <1>4 DEF LInv, Loose
<1>7. Works(o, {"offer.answer"}) => Works(o, {"offer.answer"})'
    BY <1>1, <1>3 DEF Works, CleanupSteps
<1>8. o \in Offers => Attended(o)'
    <2> SUFFICES ASSUME o \in Offers PROVE Attended(o)'
        OBVIOUS
    <2>1. CASE CleanupForget(w)
        <3>1. /\ peers' = peers \ {o} /\ candidates' = candidates \ {o}
              /\ UNCHANGED <<open, gathering>>
            BY <2>1 DEF CleanupForget
        <3>2. req'[w] = [req[w] EXCEPT !.step = "cleanup.close", !.known = req[w].offer \in peers]
            BY <2>1 DEF CleanupForget, IInv, TypeOK
        <3>3. req'[w].step = "cleanup.close" /\ req'[w].offer = o /\ (o \in peers => req'[w].known)
            BY <1>2, <3>2
        <3>4. o \in peers => Closing(o)'
            BY <3>3 DEF Closing, At
        <3>5. Closing(o) => Closing(o)'
            BY <1>3, <2>1 DEF Closing, At, CleanupForget
        <3> QED
            BY <1>4, <1>6, <1>7, <3>1, <3>4, <3>5 DEF Attended
    <2>2. ASSUME ~CleanupForget(w), req[w].step # "cleanup.forget"
          PROVE  Attended(o)'
        <3>1. UNCHANGED <<peers, candidates>>
            BY <2>2 DEF CleanupClose, CleanupTracks, CleanupCancel, CleanupStop, maps
        <3>2. /\ Works(o, {"offer.tracks", "offer.negotiate", "offer.answer", "cleanup.forget"}) =>
                 Works(o, {"offer.tracks", "offer.negotiate", "offer.answer", "cleanup.forget"})'
              /\ Works(o, {"offer.answer", "cleanup.forget"}) =>
                 Works(o, {"offer.answer", "cleanup.forget"})'
            BY <1>1, <1>3, <2>2 DEF Works, CleanupSteps
        <3>3. CASE CleanupClose(w) /\ req[w].known
            BY <1>4, <1>6, <1>7, <3>1, <3>2, <3>3 DEF Attended, CleanupClose
        <3>4. CASE ~(CleanupClose(w) /\ req[w].known)
            <4>1. UNCHANGED <<open, gathering>>
                BY <2>2, <3>4 DEF CleanupClose, CleanupTracks, CleanupCancel, CleanupStop
            <4>2. ~(At(w, "cleanup.close") /\ req[w].known)
                BY <2>2, <3>4 DEF CleanupClose, CleanupTracks, CleanupCancel, CleanupStop, At
            <4>3. Closing(o) => Closing(o)'
                BY <1>3, <4>2 DEF Closing, At
            <4> QED
                BY <1>4, <1>6, <1>7, <3>1, <3>2, <4>1, <4>3 DEF Attended
        <3> QED
            BY <3>3, <3>4
    <2> QED
        BY <2>1, <2>2 DEF CleanupClose, CleanupTracks, CleanupCancel, CleanupStop, At
<1> QED
    BY <1>2, <1>3, <1>4, <1>5, <1>8, OthersAttended

LEMMA LeftCallback ==
    ASSUME IInv, LInv, NEW o \in Offers, Candidate(o) \/ GatheringComplete(o) \/ Closed(o) \/ Failed(o)
    PROVE  LInv'
<1>1. /\ UNCHANGED <<open, peers, req, begun, answered, unheard, hungup, early>>
      /\ candidates' \subseteq candidates \cup (gathering \cap {o})
      /\ gathering' \subseteq gathering
    BY DEF Candidate, GatheringComplete, Closed, Failed, maps, sessions
<1> SUFFICES ASSUME NEW p \in Offers PROVE Attended(p)'
    BY DEF LInv
<1>2. Works(p, {"offer.answer"}) => Works(p, {"offer.answer", "cleanup.forget"})
    BY DEF Works
<1>3. Attended(p)
    BY DEF LInv
<1>4. Closing(p)' <=> Closing(p)
    BY <1>1 DEF Closing, At
<1>5. (Works(p, {"offer.tracks", "offer.negotiate", "offer.answer", "cleanup.forget"})' <=>
         Works(p, {"offer.tracks", "offer.negotiate", "offer.answer", "cleanup.forget"}))
      /\ (Works(p, {"offer.answer", "cleanup.forget"})' <=>
            Works(p, {"offer.answer", "cleanup.forget"}))
      /\ (Works(p, {"offer.answer"})' <=> Works(p, {"offer.answer"}))
    BY <1>1 DEF Works
<1> QED
    BY <1>1, <1>2, <1>3, <1>4, <1>5 DEF Attended, Loose

LEMMA StepLInv == IInv /\ LInv /\ [Next]_vars => LInv'
<1> SUFFICES ASSUME IInv, LInv, [Next]_vars PROVE LInv'
    OBVIOUS
<1>1. CASE UNCHANGED vars
    BY <1>1 DEF LInv, Attended, Loose, Works, Closing, At, vars, maps, sessions
<1> QED
    BY <1>1, LeftCapture, LeftOffer, LeftHangup, LeftCleanup, LeftCallback DEF Next, Continue

LEMMA LeftInvariance == Spec => []LInv
<1>1. Init => LInv
    BY DEF Init, LInv, Attended
<1> QED
    BY <1>1, StepLInv, Invariance, PTL DEF Spec

\* However offers fail and hangups race, nothing is left of a session that is
\* over, but perhaps the entry of its candidates if it was hung up early.
THEOREM NothingIsLeftHolds == Spec => []NothingIsLeft
<1>1. IInv /\ LInv => NothingIsLeft
    <2> SUFFICES ASSUME IInv, LInv, NEW o \in Offers, Over(o)
                 PROVE  o \notin peers \cup open /\ (o \in candidates => o \in early)
        BY DEF NothingIsLeft
    <2>1. Loose(o) /\ Attended(o)
        BY DEF Over, Loose, LInv
    <2>2. \A w \in Workers : req[w].step = "idle" \/ req[w].offer # o
        BY DEF Over, Serving, Idle
    <2> QED
        BY <2>1, <2>2 DEF Attended, Works, Closing, At
<1> QED
    BY <1>1, Invariance, LeftInvariance, PTL

-----------------------------------------------------------------------------
(* What nothing removes any more. *)

\* A session whose answer got lost is kept, its id and its connection: no hangup
\* can name it, and no cleanup that other requests run takes it along.
UnheardIsKept == unheard \subseteq peers \cap open

LEMMA UnheardStep == IInv /\ UnheardIsKept /\ [Next]_vars => UnheardIsKept'
<1> SUFFICES ASSUME IInv, UnheardIsKept, [Next]_vars PROVE UnheardIsKept'
    OBVIOUS
<1>1. CASE unheard' = unheard /\ peers \subseteq peers' /\ open \subseteq open'
    BY <1>1 DEF UnheardIsKept
<1>2. ASSUME NEW w \in Workers, OfferAnswer(w) PROVE UnheardIsKept'
    <2>1. req[w].offer \in peers \cap open
        BY <1>2 DEF OfferAnswer, At, Idle, IInv, RequestsRefer
    <2> QED
        BY <1>2, <2>1 DEF OfferAnswer, maps, UnheardIsKept
<1>3. ASSUME NEW w \in Workers, CleanupForget(w) \/ CleanupClose(w) PROVE UnheardIsKept'
    <2>1. req[w] # Idle
        BY <1>3 DEF CleanupForget, CleanupClose, At, Idle
    <2>2. req[w].offer \notin unheard
        BY <2>1, ConstantsAssumption DEF IInv, RequestsRefer, TypeOK
    <2> QED
        BY <1>3, <2>2 DEF CleanupForget, CleanupClose, maps, sessions, UnheardIsKept
<1> QED
    BY <1>1, <1>2, <1>3
       DEF Next, Continue, vars, maps, sessions, OfferCapture, OfferStream, OfferConnect, Create,
           OfferTracks, OfferNegotiate, Hangup, CleanupTracks, CleanupCancel, CleanupStop,
           Candidate, GatheringComplete, Closed, Failed

\* Nobody can end the session of a client that did not hear the answer.
THEOREM UnheardIsKeptHolds == Spec => []UnheardIsKept
<1>1. Init => UnheardIsKept
    BY DEF Init, UnheardIsKept
<1> QED
    BY <1>1, UnheardStep, Invariance, PTL DEF Spec

\* A capture that runs although the service remembers another one, and that no
\* request started or has to clean up.
Lost(o) ==
    /\ o \in running
    /\ o \notin {cancel, stream}
    /\ \A w \in Workers : Own(w) => req[w].offer # o

\* Such a capture runs on for as long as the process does: StopCapture ends what
\* the service remembers, and only the capture's own offer knows its tracks.
LostCapturesRun == [][\A o \in Offers : Lost(o) => Lost(o)']_vars

LEMMA LostStep ==
    ASSUME IInv, [Next]_vars, NEW o \in Offers, Lost(o)
    PROVE  Lost(o)'
<1>1. o \in begun
    BY DEF Lost, IInv, TypeOK
<1>2. ASSUME NEW w \in Workers, OfferCapture(w) PROVE Lost(o)'
    <2>1. PICK p \in Offers \ begun :
            /\ cancel' = p
            /\ running' = running \cup {p}
            /\ Go(w, [step |-> "offer.stream", offer |-> p])
        BY <1>2 DEF OfferCapture
    <2>2. /\ req'[w].step = "offer.stream" /\ req'[w].offer = p
          /\ \A v \in Workers \ {w} : req'[v] = req[v]
        BY <2>1 DEF Go, IInv, TypeOK
    <2>3. stream' = stream /\ p # o
        BY <1>1, <1>2 DEF OfferCapture
    <2> QED
        BY <2>1, <2>2, <2>3 DEF Lost, Own
\* The steps of requests under way: who works on an offer of its own goes on with it.
<1>3. ASSUME NEW w \in Workers, Continue(w) PROVE Lost(o)'
    <2>1. \A v \in Workers \ {w} : req'[v] = req[v]
        BY <1>3 DEF Continue, OfferStream, OfferConnect, OfferTracks, OfferNegotiate, OfferAnswer,
                    CleanupForget, CleanupClose, CleanupTracks, CleanupCancel, CleanupStop,
                    Goto, Done, Go, Cleanup, IInv, TypeOK
    <2>2. Own(w)' => Own(w) /\ req'[w].offer = req[w].offer
        <3>1. CASE req'[w] = Idle
            BY <3>1 DEF Own, Idle, OfferSteps, CleanupSteps
        <3>2. CASE Cleanup(w, req[w].offer, TRUE) /\ req[w].step \in OfferSteps
            BY <3>2 DEF Cleanup, Go, Own, IInv, TypeOK
        <3>3. ASSUME NEW s \in OfferSteps, req[w].step \in OfferSteps,
                     req'[w] = [req[w] EXCEPT !.step = s]
              PROVE  <2>2!:
            BY <3>3, RequestAt DEF Own, IInv
        <3>4. ASSUME NEW s \in CleanupSteps, req[w].step \in CleanupSteps,
                     \/ req'[w] = [req[w] EXCEPT !.step = s]
                     \/ req'[w] = [req[w] EXCEPT !.step = s, !.known = req[w].offer \in peers]
              PROVE  <2>2!:
            BY <3>4, RequestAt DEF Own, IInv, OfferSteps, CleanupSteps
        <3> QED
            BY <1>3, <3>1, <3>2, <3>3, <3>4
               DEF Continue, OfferStream, OfferConnect, OfferTracks, OfferNegotiate, OfferAnswer,
                   CleanupForget, CleanupClose, CleanupTracks, CleanupCancel, CleanupStop,
                   Goto, Done, Go, At, OfferSteps, CleanupSteps, IInv, TypeOK
    <2>3. \A v \in Workers : Own(v)' => req'[v].offer # o
        <3> SUFFICES ASSUME NEW v \in Workers, Own(v)' PROVE req'[v].offer # o
            OBVIOUS
        <3>1. Own(v) /\ req'[v].offer = req[v].offer
            BY <2>1, <2>2 DEF Own
        <3> QED
            BY <3>1 DEF Lost
    <2>4. cancel' = cancel /\ (stream' = stream \/ (Own(w) /\ stream' = req[w].offer))
        BY <1>3 DEF Continue, OfferStream, OfferConnect, OfferTracks, OfferNegotiate, OfferAnswer,
                    CleanupForget, CleanupClose, CleanupTracks, CleanupCancel, CleanupStop,
                    capture, At, Own, OfferSteps
    <2>5. \/ running' = running
          \/ running' \in {running \ {cancel}, running \ {stream}}
          \/ Own(w) /\ running' = running \ {req[w].offer}
        BY <1>3 DEF Continue, OfferStream, OfferConnect, OfferTracks, OfferNegotiate, OfferAnswer,
                    CleanupForget, CleanupClose, CleanupTracks, CleanupCancel, CleanupStop,
                    capture, At, Own, OfferSteps, CleanupSteps
    <2> QED
        BY <2>3, <2>4, <2>5 DEF Lost
<1>4. ASSUME NEW w \in Workers, Hangup(w) PROVE Lost(o)'
    <2>1. PICK p : req' = [req EXCEPT ![w] = [step |-> "cleanup.forget", offer |-> p,
                                              own |-> FALSE, known |-> FALSE]]
        BY <1>4 DEF Hangup, Cleanup, Go
    <2>2. \A v \in Workers : Own(v)' => Own(v) /\ req'[v] = req[v]
        BY <2>1 DEF Own, OfferSteps, IInv, TypeOK
    <2> QED
        BY <1>4, <2>2 DEF Hangup, Lost, capture
<1>5. CASE UNCHANGED <<capture, req>>
    BY <1>5 DEF Lost, Own, capture
<1> QED
    BY <1>2, <1>3, <1>4, <1>5 DEF Next, vars, Candidate, GatheringComplete, Closed, Failed

\* An offer that starts while another session is served can lose its capture for
\* good: what no hangup reaches once, none ever does.
THEOREM LostCapturesRunHolds == Spec => LostCapturesRun
<1>1. IInv /\ [Next]_vars => [\A o \in Offers : Lost(o) => Lost(o)']_vars
    BY LostStep
<1> QED
    BY <1>1, Invariance, PTL DEF Spec, LostCapturesRun

-----------------------------------------------------------------------------
(* The sessions. *)

LEMMA InitSessions == Init => Sessions!Init
BY DEF Init, Sessions!Init, Session

\* A step about one offer, or about none, leaves the other sessions as they are.
LEMMA OthersSessions ==
    ASSUME IInv, NEW w \in Workers, NEW o \in Offers \cup Unknown,
           req[w] # Idle => req[w].offer = o,
           req'[w] # Idle => req'[w].offer = o,
           \A v \in Workers \ {w} : req'[v] = req[v],
           \A p \in Offers \ {o} :
                /\ (p \in begun' <=> p \in begun) /\ (p \in answered' <=> p \in answered)
                /\ (p \in hungup' <=> p \in hungup)
                /\ (p \in peers' <=> p \in peers) /\ (p \in open' <=> p \in open)
    PROVE  /\ o \in Offers => Session' = [Session EXCEPT ![o] = Session'[o]]
           /\ o \in Unknown => UNCHANGED Session
<1>1. \A p \in Offers \ {o} : Starting(p)' <=> Starting(p)
    BY DEF Starting, Idle
<1>2. \A p \in Offers \ {o} : Session'[p] = Session[p]
    BY <1>1 DEF Session
<1>3. Session = [p \in Offers |-> Session[p]] /\ Session' = [p \in Offers |-> Session'[p]]
    BY DEF Session
<1> QED
    BY <1>2, <1>3, ConstantsAssumption

\* How a session may go on.
LEMMA SessionStep ==
    ASSUME NEW o \in Offers, Session' = [Session EXCEPT ![o] = Session'[o]],
           \/ Session'[o] = Session[o]
           \/ Session[o] = "none" /\ Session'[o] = "opening"
           \/ Session[o] \in {"none", "opening"} /\ Session'[o] = "over"
           \/ Session[o] = "opening" /\ Session'[o] = "live"
           \/ Session[o] = "live" /\ Session'[o] = "ending"
           \/ Session[o] = "ending" /\ Session'[o] = "over"
    PROVE  [Sessions!Next]_Session
<1>1. CASE Session'[o] = Session[o]
    <2>1. Session' = [Session EXCEPT ![o] = Session[o]]
        BY <1>1
    <2>2. Session = [p \in Offers |-> Session[p]]
        BY DEF Session
    <2> QED
        BY <2>1, <2>2
<1>2. CASE Session'[o] # Session[o]
    BY <1>2 DEF Sessions!Next, Sessions!Open, Sessions!Refuse, Sessions!Tell, Sessions!Hangup,
                Sessions!End, Sessions!Becomes
<1> QED
    BY <1>1, <1>2

LEMMA CaptureSession ==
    ASSUME IInv, NEW w \in Workers, OfferCapture(w)
    PROVE  [Sessions!Next]_Session
<1>1. PICK o \in Offers \ begun :
        begun' = begun \cup {o} /\ Go(w, [step |-> "offer.stream", offer |-> o])
    BY DEF OfferCapture
<1>2. UNCHANGED <<open, peers, answered, hungup>> /\ req[w] = Idle
    BY DEF OfferCapture, maps
<1>3. /\ req'[w] = [step |-> "offer.stream", offer |-> o]
      /\ \A v \in Workers \ {w} : req'[v] = req[v]
    BY <1>1 DEF Go, IInv, TypeOK
<1>4. Session' = [Session EXCEPT ![o] = Session'[o]]
    BY <1>1, <1>2, <1>3, OthersSessions
<1>5. Session[o] = "none" /\ Session'[o] = "none"
    BY <1>1, <1>3 DEF Session, Starting
<1> QED
    BY <1>4, <1>5, SessionStep

LEMMA OfferSession ==
    ASSUME IInv, LInv, NEW w \in Workers,
           \/ OfferStream(w) \/ OfferConnect(w) \/ OfferTracks(w)
           \/ OfferNegotiate(w) \/ OfferAnswer(w)
    PROVE  [Sessions!Next]_Session
<1>1. req[w].step \in OfferSteps
    BY DEF OfferStream, OfferConnect, OfferTracks, OfferNegotiate, OfferAnswer, At, OfferSteps
<1> SUFFICES ASSUME NEW o \in Offers, o = req[w].offer
             PROVE  [Sessions!Next]_Session
    BY <1>1, RequestAt DEF IInv, Idle, OfferSteps
<1>2. Own(w) /\ req[w] # Idle /\ req[w] \in [step : OfferSteps, offer : Offers]
    BY <1>1, RequestAt DEF Own, Idle, OfferSteps, IInv
<1>3. o \in begun \ (answered \cup unheard) /\ o \notin hungup
    BY <1>2 DEF IInv, RequestsRefer, TypeOK
<1>4. \A v \in Workers \ {w} : req'[v] = req[v]
    BY DEF OfferStream, OfferConnect, OfferTracks, OfferNegotiate, OfferAnswer, Goto, Go, Done,
           Cleanup, IInv, TypeOK
<1>5. /\ UNCHANGED <<begun, hungup>>
      /\ \A p \in Offers \ {o} :
            /\ p \in answered' <=> p \in answered
            /\ (p \in peers' <=> p \in peers) /\ (p \in open' <=> p \in open)
    BY DEF OfferStream, OfferConnect, OfferTracks, OfferNegotiate, OfferAnswer, Create, sessions, maps
<1>6. PICK r : /\ req'[w] = r
               /\ \/ r = Idle
                  \/ \E s \in OfferSteps : r = [req[w] EXCEPT !.step = s] /\ Goto(w, s)
                  \/ r = [step |-> "cleanup.forget", offer |-> o, own |-> TRUE, known |-> FALSE]
    BY DEF OfferStream, OfferConnect, OfferTracks, OfferNegotiate, OfferAnswer, Goto, Go, Done,
           Cleanup, IInv, TypeOK, OfferSteps
<1>7. r # Idle => r.offer = o
    BY <1>2, <1>6
<1>8. Session' = [Session EXCEPT ![o] = Session'[o]]
    BY <1>4, <1>5, <1>6, <1>7, OthersSessions
<1>9. \A v \in Workers \ {w} : req[v].step \in OfferSteps => req[v].offer # o
    BY <1>2, OwnWork
<1>10. Starting(o) <=> req[w].step \in {"offer.stream", "offer.connect"}
    BY <1>9 DEF Starting, OfferSteps
<1>11. Starting(o)' <=> req'[w].step \in {"offer.stream", "offer.connect"}
    BY <1>4, <1>6, <1>7, <1>9 DEF Starting, OfferSteps, Idle
<1>12. CASE OfferStream(w)
    <2>1. o \notin peers \cup open /\ UNCHANGED <<peers, open, answered>>
        BY <1>12, Fresh DEF OfferStream, At, maps, sessions
    <2>2. Session[o] = "none"
        BY <1>3, <1>10, <1>12 DEF OfferStream, At, Session
    <2>3. Session'[o] \in {"none", "over"}
        BY <1>3, <1>5, <2>1 DEF Session
    <2> QED
        BY <1>8, <2>2, <2>3, SessionStep
<1>13. CASE OfferConnect(w)
    <2>1. o \notin peers \cup open /\ UNCHANGED answered
        BY <1>13, Fresh DEF OfferConnect, At, sessions
    <2>2. Session[o] = "none"
        BY <1>3, <1>10, <1>13 DEF OfferConnect, At, Session
    <2>3. Session'[o] \in {"none", "over", "opening"}
        BY <1>3, <1>5, <2>1 DEF Session
    <2> QED
        BY <1>8, <2>2, <2>3, SessionStep
<1>14. CASE OfferTracks(w) \/ OfferNegotiate(w)
    <2>1. UNCHANGED <<peers, open, answered>> /\ o \in peers
        BY <1>2, <1>14 DEF OfferTracks, OfferNegotiate, At, maps, sessions, IInv, RequestsRefer
    <2>2. Session[o] = "opening"
        BY <1>3, <1>10, <1>14, <2>1 DEF OfferTracks, OfferNegotiate, At, Session
    <2>3. req'[w].step \notin {"offer.stream", "offer.connect"}
        <3>1. CASE Cleanup(w, o, TRUE)
            BY <3>1 DEF Cleanup, Go, IInv, TypeOK
        <3>2. ASSUME NEW s \in {"offer.negotiate", "offer.answer"}, Goto(w, s) PROVE <2>3!:
            <4>1. req'[w] = [req[w] EXCEPT !.step = s]
                BY <3>2 DEF Goto, IInv, TypeOK
            <4> QED
                BY <1>2, <4>1
        <3> QED
            BY <1>14, <3>1, <3>2 DEF OfferTracks, OfferNegotiate
    <2>4. Session'[o] = "opening"
        BY <1>3, <1>5, <1>11, <2>1, <2>3 DEF Session
    <2> QED
        BY <1>8, <2>2, <2>4, SessionStep
<1>15. CASE OfferAnswer(w)
    <2>1. UNCHANGED <<peers, open>> /\ o \in peers \cap open
        BY <1>2, <1>15 DEF OfferAnswer, At, maps, IInv, RequestsRefer
    <2>2. Session[o] = "opening"
        BY <1>3, <1>10, <1>15, <2>1 DEF OfferAnswer, At, Session
    <2>3. req'[w].step \notin {"offer.stream", "offer.connect"}
        BY <1>15 DEF OfferAnswer, Done, Go, Idle, IInv, TypeOK
    <2>4. Session'[o] \in {"opening", "live"}
        BY <1>3, <1>5, <1>11, <2>1, <2>3 DEF Session
    <2> QED
        BY <1>8, <2>2, <2>4, SessionStep
<1> QED
    BY <1>12, <1>13, <1>14, <1>15

\* Nobody starts an offer that has been answered.
LEMMA AnsweredStarted ==
    ASSUME IInv, NEW o \in answered
    PROVE  ~Starting(o)
BY DEF Starting, IInv, RequestsRefer, Own, OfferSteps, Idle

LEMMA HangupSession ==
    ASSUME IInv, NEW w \in Workers, Hangup(w)
    PROVE  [Sessions!Next]_Session
<1>1. PICK o \in answered \cup Unknown :
        /\ hungup' = hungup \cup ({o} \cap Offers)
        /\ Go(w, [step |-> "cleanup.forget", offer |-> o, own |-> FALSE, known |-> FALSE])
    BY DEF Hangup, Cleanup
<1>2. /\ UNCHANGED <<open, peers, begun, answered>>
      /\ req[w] = Idle /\ o \in Offers \cup Unknown
    BY DEF Hangup, maps, IInv, TypeOK
<1>3. /\ req'[w] = [step |-> "cleanup.forget", offer |-> o, own |-> FALSE, known |-> FALSE]
      /\ \A v \in Workers \ {w} : req'[v] = req[v]
    BY <1>1 DEF Go, IInv, TypeOK
<1>4. /\ o \in Offers => Session' = [Session EXCEPT ![o] = Session'[o]]
      /\ o \in Unknown => UNCHANGED Session
    BY <1>1, <1>2, <1>3, OthersSessions
<1> SUFFICES ASSUME o \in answered, o \in Offers, o \in begun
             PROVE  [Sessions!Next]_Session
    BY <1>1, <1>4 DEF IInv, TypeOK
<1>5. ~Starting(o) /\ ~Starting(o)'
    <2>1. ~Starting(o)
        BY AnsweredStarted
    <2> QED
        BY <1>3, <2>1 DEF Starting
<1>6. CASE o \in hungup
    <2>1. Session'[o] = Session[o]
        BY <1>1, <1>2, <1>5, <1>6 DEF Session
    <2> QED
        BY <1>2, <1>4, <2>1, SessionStep
<1>7. CASE o \notin hungup
    <2>1. o \in peers \cap open
        BY <1>7 DEF IInv, ViewersAreKnown, Viewers
    <2>2. Session[o] = "live" /\ Session'[o] = "ending"
        BY <1>1, <1>2, <1>5, <1>7, <2>1 DEF Session
    <2> QED
        BY <1>2, <1>4, <2>2, SessionStep
<1> QED
    BY <1>6, <1>7

LEMMA CleanupSession ==
    ASSUME IInv, NEW w \in Workers,
           \/ CleanupForget(w) \/ CleanupClose(w) \/ CleanupTracks(w)
           \/ CleanupCancel(w) \/ CleanupStop(w)
    PROVE  [Sessions!Next]_Session
<1>1. req[w].step \in CleanupSteps
    BY DEF CleanupForget, CleanupClose, CleanupTracks, CleanupCancel, CleanupStop, At, CleanupSteps
<1> SUFFICES ASSUME NEW o \in Offers \cup Unknown, o = req[w].offer
             PROVE  [Sessions!Next]_Session
    BY <1>1, RequestAt DEF IInv, Idle, CleanupSteps
<1>2. req[w] \in [step : CleanupSteps, offer : Offers \cup Unknown, own : BOOLEAN, known : BOOLEAN]
        /\ req[w] # Idle
    BY <1>1, RequestAt DEF IInv, Idle, CleanupSteps
<1>3. \A v \in Workers \ {w} : req'[v] = req[v]
    BY DEF CleanupForget, CleanupClose, CleanupTracks, CleanupCancel, CleanupStop,
           Goto, Done, Go, IInv, TypeOK
<1>4. /\ UNCHANGED <<begun, answered, hungup>>
      /\ peers' \in {peers, peers \ {o}} /\ open' \in {open, open \ {o}}
    BY DEF CleanupForget, CleanupClose, CleanupTracks, CleanupCancel, CleanupStop, sessions, maps
<1>5. req'[w] = Idle \/ (req'[w].offer = o /\ req'[w].step \in CleanupSteps)
    <2>1. CASE CleanupForget(w)
        <3>1. req'[w] = [req[w] EXCEPT !.step = "cleanup.close", !.known = o \in peers]
            BY <2>1 DEF CleanupForget, IInv, TypeOK
        <3> QED
            BY <1>2, <3>1 DEF CleanupSteps
    <2>2. CASE CleanupStop(w)
        BY <2>2 DEF CleanupStop, Done, Go, IInv, TypeOK
    <2>3. ASSUME NEW s \in CleanupSteps, Goto(w, s) PROVE <1>5!:
        <3>1. req'[w] = [req[w] EXCEPT !.step = s]
            BY <2>3 DEF Goto, IInv, TypeOK
        <3> QED
            BY <1>2, <3>1
    <2> QED
        BY <2>1, <2>2, <2>3 DEF CleanupClose, CleanupTracks, CleanupCancel, CleanupSteps
<1>6. /\ o \in Offers => Session' = [Session EXCEPT ![o] = Session'[o]]
      /\ o \in Unknown => UNCHANGED Session
    BY <1>2, <1>3, <1>4, <1>5, OthersSessions
<1> SUFFICES ASSUME o \in Offers PROVE [Sessions!Next]_Session
    BY <1>6
<1>7. ~Starting(o) /\ ~Starting(o)'
    <2>1. ~Starting(o)
        <3>1. CASE Own(w)
            BY <1>1, <3>1, OwnWork DEF Starting, CleanupSteps, OfferSteps
        <3>2. CASE ~Own(w)
            BY <1>2, <3>2, AnsweredStarted, ConstantsAssumption DEF IInv, RequestsRefer, TypeOK
        <3> QED
            BY <3>1, <3>2
    <2> QED
        BY <1>3, <1>5, <2>1 DEF Starting, Idle, CleanupSteps
<1>8. (o \in hungup \/ o \notin answered) /\ o \in begun
    BY <1>2, ConstantsAssumption DEF IInv, RequestsRefer
<1>9. CASE o \in open /\ o \notin open'
    <2>1. o \notin peers
        BY <1>2, <1>9 DEF IInv, RequestsRefer, CleanupForget, CleanupClose, CleanupTracks,
                          CleanupCancel, CleanupStop, At, CleanupSteps
    <2>2. Session[o] \in {"opening", "ending"} /\ Session'[o] = "over"
        BY <1>4, <1>7, <1>8, <1>9, <2>1 DEF Session
    <2> QED
        BY <1>6, <2>2, SessionStep
<1>10. CASE o \in open <=> o \in open'
    <2>1. o \in peers \cup open <=> o \in peers' \cup open'
        BY <1>4, <1>10 DEF IInv, PeersAreOpen
    <2>2. Session'[o] = Session[o]
        BY <1>4, <1>7, <1>8, <2>1 DEF Session
    <2> QED
        BY <1>6, <2>2, SessionStep
<1> QED
    BY <1>4, <1>9, <1>10

LEMMA QuietSession ==
    ASSUME UNCHANGED <<open, peers, req, begun, answered, hungup>>
    PROVE  UNCHANGED Session
BY DEF Session, Starting

LEMMA StepSessions == IInv /\ LInv /\ [Next]_vars => [Sessions!Next]_Session
<1> SUFFICES ASSUME IInv, LInv, [Next]_vars PROVE [Sessions!Next]_Session
    OBVIOUS
<1>1. CASE UNCHANGED vars
    BY <1>1, QuietSession DEF vars, maps, sessions
<1>2. CASE \E o \in Offers : Candidate(o) \/ GatheringComplete(o) \/ Closed(o) \/ Failed(o)
    BY <1>2, QuietSession DEF Candidate, GatheringComplete, Closed, Failed, maps, sessions
<1> QED
    BY <1>1, <1>2, CaptureSession, OfferSession, HangupSession, CleanupSession DEF Next, Continue

\* The requests implement the life of a session, whatever overlaps or fails.
THEOREM RefinesSessionsHolds == Spec => RefinesSessions
BY InitSessions, StepSessions, Invariance, LeftInvariance, PTL
   DEF Spec, RefinesSessions, Sessions!Spec

-----------------------------------------------------------------------------
(* Liveness.  Fairness says WF_vars(Continue(w)) of every goroutine and         *)
(* WF_vars(Closed(o)) of the callback of every connection: what is enabled from *)
(* some moment on is taken.  A request can always go on, since each of its      *)
(* steps has an outcome whatever it finds, and the callback is due when a       *)
(* closed connection is still registered.  So the two fairness conditions say   *)
(* the same as these, without ENABLED.                                          *)
Scheduled == [](\A w \in Workers : <>(req[w] = Idle) \/ <><<Continue(w)>>_vars)

NothingDue(o) == o \in open \/ o \notin registered

CalledBack == [](\A o \in Offers : <>NothingDue(o) \/ <><<Closed(o)>>_vars)

\* A request under way is moved on by its own goroutine only.
LEMMA OwnGoroutine ==
    ASSUME IInv, [Next]_vars, NEW w \in Workers, req[w] # Idle
    PROVE  req'[w] = req[w] \/ Continue(w)
<1>1. CASE UNCHANGED vars
    BY <1>1 DEF vars
<1>2. ASSUME NEW v \in Workers, OfferCapture(v) \/ Hangup(v) PROVE req'[w] = req[w]
    BY <1>2 DEF OfferCapture, Hangup, Cleanup, Go, IInv, TypeOK
<1>3. ASSUME NEW v \in Workers, v # w, Continue(v) PROVE req'[w] = req[w]
    BY <1>3 DEF Continue, OfferStream, OfferConnect, OfferTracks, OfferNegotiate, OfferAnswer,
                CleanupForget, CleanupClose, CleanupTracks, CleanupCancel, CleanupStop,
                Cleanup, Goto, Done, Go, IInv, TypeOK
<1>4. ASSUME NEW o \in Offers, Candidate(o) \/ GatheringComplete(o) \/ Closed(o) \/ Failed(o)
      PROVE  req'[w] = req[w]
    BY <1>4 DEF Candidate, GatheringComplete, Closed, Failed
<1> QED
    BY <1>1, <1>2, <1>3, <1>4 DEF Next

\* Nothing of a session that was hung up comes back: only its offer could bring
\* it, and that has been answered.
LEMMA HungupShrinks ==
    ASSUME IInv, [Next]_vars, NEW o \in Offers, o \in hungup
    PROVE  /\ o \in hungup'
           /\ o \in peers' => o \in peers
           /\ o \in open' => o \in open
           /\ o \in registered' => o \in registered
<1>1. o \in hungup'
    BY DEF Next, Continue, OfferCapture, OfferStream, OfferConnect, OfferTracks, OfferNegotiate,
           OfferAnswer, Hangup, CleanupForget, CleanupClose, CleanupTracks, CleanupCancel,
           CleanupStop, Candidate, GatheringComplete, Closed, Failed, vars, sessions
<1>2. ASSUME NEW w \in Workers, OfferConnect(w) PROVE req[w].offer # o
    <2>1. Own(w) /\ req[w] # Idle
        BY <1>2 DEF OfferConnect, At, Own, OfferSteps, Idle
    <2> QED
        BY <2>1 DEF IInv, RequestsRefer, TypeOK
<1>3. ASSUME NEW w \in Workers, OfferConnect(w)
      PROVE  /\ o \in peers' => o \in peers
             /\ o \in open' => o \in open
             /\ o \in registered' => o \in registered
    BY <1>2, <1>3 DEF OfferConnect, Create
<1>4. ASSUME \A w \in Workers : ~OfferConnect(w)
      PROVE  /\ peers' \subseteq peers
             /\ open' \subseteq open
             /\ registered' \subseteq registered
    BY <1>4 DEF Next, Continue, OfferCapture, OfferStream, OfferTracks, OfferNegotiate,
           OfferAnswer, Hangup, CleanupForget, CleanupClose, CleanupTracks, CleanupCancel,
           CleanupStop, Candidate, GatheringComplete, Closed, Failed, Deregister, vars, maps
<1> QED
    BY <1>1, <1>3, <1>4

\* What is left to do about a session that was hung up.
Forgetting(w, o) == At(w, "cleanup.forget") /\ req[w].offer = o

ClosingIt(w, o) == At(w, "cleanup.close") /\ req[w].offer = o /\ req[w].known

LEMMA HungupAttended ==
    ASSUME IInv, LInv, NEW o \in Offers, o \in hungup
    PROVE  /\ o \in peers => \E w \in Workers : Forgetting(w, o)
           /\ o \in open /\ o \notin peers => \E w \in Workers : ClosingIt(w, o)
<1>1. Loose(o) /\ Attended(o)
    BY DEF Loose, LInv, IInv, TypeOK
<1>2. ASSUME NEW w \in Workers, req[w].offer = o,
             req[w].step \in {"offer.tracks", "offer.negotiate", "offer.answer", "cleanup.forget"}
      PROVE  Forgetting(w, o)
    <2>1. req[w] # Idle
        BY <1>2 DEF Idle
    <2>2. ~(req[w].step \in OfferSteps)
        BY <1>2, <2>1 DEF IInv, RequestsRefer, TypeOK, Own
    <2> QED
        BY <1>2, <2>2 DEF Forgetting, At, OfferSteps
<1> QED
    BY <1>1, <1>2 DEF Attended, Works, Closing, ClosingIt

\* The step of a hangup takes the id out of the map, or closes the connection.
LEMMA Forgotten ==
    ASSUME NEW w \in Workers, NEW o \in Offers, Forgetting(w, o), Continue(w)
    PROVE  o \notin peers'
<1>1. CleanupForget(w)
    BY DEF Continue, Forgetting, OfferStream, OfferConnect, OfferTracks, OfferNegotiate,
           OfferAnswer, CleanupClose, CleanupTracks, CleanupCancel, CleanupStop, At
<1> QED
    BY <1>1 DEF CleanupForget, Forgetting

LEMMA IsClosed ==
    ASSUME NEW w \in Workers, NEW o \in Offers, ClosingIt(w, o), Continue(w)
    PROVE  o \notin open'
<1>1. CleanupClose(w)
    BY DEF Continue, ClosingIt, OfferStream, OfferConnect, OfferTracks, OfferNegotiate,
           OfferAnswer, CleanupForget, CleanupTracks, CleanupCancel, CleanupStop, At
<1> QED
    BY <1>1 DEF CleanupClose, ClosingIt

LEMMA SessionsEnd ==
    []IInv /\ []LInv /\ [][Next]_vars /\ Scheduled /\ CalledBack => HangupEnds
<1> SUFFICES ASSUME []IInv, []LInv, [][Next]_vars,
                    [](\A w \in Workers : <>(req[w] = Idle) \/ <><<Continue(w)>>_vars),
                    [](\A o \in Offers : <>NothingDue(o) \/ <><<Closed(o)>>_vars)
             PROVE  HangupEnds
    BY DEF Scheduled, CalledBack
<1>1. \A w \in Workers : <>(req[w] = Idle) \/ <><<Continue(w)>>_vars
    BY PTL
<1>2. \A o \in Offers : <>NothingDue(o) \/ <><<Closed(o)>>_vars
    BY PTL
<1>3. ASSUME NEW o \in Offers
      PROVE  o \in hungup ~> [](o \notin peers \cup open \cup registered)
    <2>1. <>NothingDue(o) \/ <><<Closed(o)>>_vars
        BY <1>2
    <2> DEFINE Hung == o \in hungup
               Known == o \in peers
               Open == o \in open
               Registered == o \in registered
               Forgets(w) == Forgetting(w, o)
               Closes(w) == ClosingIt(w, o)
    <2>2. IInv /\ [Next]_vars =>
            (Hung => /\ Hung'
                     /\ Known' => Known
                     /\ Open' => Open
                     /\ Registered' => Registered)
        BY HungupShrinks
    <2>3. ASSUME NEW w \in Workers PROVE Forgets(w) => <>~Known
        <3>1. <>(req[w] = Idle) \/ <><<Continue(w)>>_vars
            BY <1>1, Zenon
        <3>2. IInv /\ [Next]_vars => (Forgets(w) => Forgets(w)' \/ ~Known')
            BY OwnGoroutine, Forgotten DEF Forgetting, At, Idle
        <3>3. <<Continue(w)>>_vars => (Forgets(w) => ~Known')
            BY Forgotten
        <3>4. req[w] = Idle => ~Forgets(w)
            BY DEF Forgetting, At, Idle
        <3> HIDE DEF Forgets, Known
        <3> QED
            BY <3>1, <3>2, <3>3, <3>4, PTL
    <2>4. (\E w \in Workers : Forgets(w)) => <>~Known
        <3> HIDE DEF Forgets, Known
        <3> QED
            BY <2>3, Zenon
    <2>5. ASSUME NEW w \in Workers PROVE Closes(w) => <>~Open
        <3>1. <>(req[w] = Idle) \/ <><<Continue(w)>>_vars
            BY <1>1, Zenon
        <3>2. IInv /\ [Next]_vars => (Closes(w) => Closes(w)' \/ ~Open')
            BY OwnGoroutine, IsClosed DEF ClosingIt, At, Idle
        <3>3. <<Continue(w)>>_vars => (Closes(w) => ~Open')
            BY IsClosed
        <3>4. req[w] = Idle => ~Closes(w)
            BY DEF ClosingIt, At, Idle
        <3> HIDE DEF Closes, Open
        <3> QED
            BY <3>1, <3>2, <3>3, <3>4, PTL
    <2>6. (\E w \in Workers : Closes(w)) => <>~Open
        <3> HIDE DEF Closes, Open
        <3> QED
            BY <2>5, Zenon
    <2>7. IInv /\ LInv => (Hung => /\ Known => \E w \in Workers : Forgets(w)
                                   /\ Open /\ ~Known => \E w \in Workers : Closes(w))
        BY HungupAttended
    <2>8. <<Closed(o)>>_vars => ~Registered'
        BY DEF Closed, Deregister
    <2>9. NothingDue(o) => Open \/ ~Registered
        BY DEF NothingDue
    <2>10. ~Known /\ ~Open /\ ~Registered => o \notin peers \cup open \cup registered
        OBVIOUS
    <2> HIDE DEF Hung, Known, Open, Registered, Forgets, Closes
    <2>11. Hung ~> Hung /\ ~Known
        BY <2>2, <2>4, <2>7, PTL
    <2>12. Hung /\ ~Known ~> Hung /\ ~Known /\ ~Open
        BY <2>2, <2>6, <2>7, PTL
    <2>13. Hung /\ ~Known /\ ~Open ~> Hung /\ ~Known /\ ~Open /\ ~Registered
        BY <2>2, <2>1, <2>8, <2>9, PTL
    <2>14. Hung /\ ~Known /\ ~Open /\ ~Registered
            => [](~Known /\ ~Open /\ ~Registered)
        BY <2>2, PTL
    <2>15. o \in hungup => Hung
        BY DEF Hung
    <2> QED
        BY <2>10, <2>11, <2>12, <2>13, <2>14, <2>15, PTL
<1> QED
    BY <1>3 DEF HangupEnds

\* A hangup ends the session: its connection is closed in the end, its id leads
\* nowhere and the service has forgotten it, also when several hangups of it race
\* or the connection fails meanwhile.
THEOREM HangupEndsHolds == Spec /\ Scheduled /\ CalledBack => HangupEnds
BY SessionsEnd, Invariance, LeftInvariance, PTL DEF Spec
=============================================================================
