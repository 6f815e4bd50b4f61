---------------------------- MODULE ScreenSessions ----------------------------
(***************************************************************************)
(* What the screen share of the server promises each of its clients: the   *)
(* life of a session, whatever the other clients do.                       *)
(***************************************************************************)
CONSTANTS Offers  \* each may become a session

VARIABLES session  \* the state of each

\* opening: the server has a connection whose id the client does not know (yet).
\* live: the client knows the id, and it leads to an open connection.
\* ending: a hangup has named the id.
States == {"none", "opening", "live", "ending", "over"}

Init == session = [o \in Offers |-> "none"]

Becomes(o, from, to) == session[o] \in from /\ session' = [session EXCEPT ![o] = to]

\* An offer is taken, or refused: at once, or when the negotiation fails.
Open(o) == Becomes(o, {"none"}, "opening")
Refuse(o) == Becomes(o, {"none", "opening"}, "over")

\* The client is told the id of its session.
Tell(o) == Becomes(o, {"opening"}, "live")

\* Only a hangup ends a session that was answered.
Hangup(o) == Becomes(o, {"live"}, "ending")
End(o) == Becomes(o, {"ending"}, "over")

Next == \E o \in Offers : Open(o) \/ Refuse(o) \/ Tell(o) \/ Hangup(o) \/ End(o)

Spec == Init /\ [][Next]_session
=============================================================================
