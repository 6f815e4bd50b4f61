------------------------ MODULE ScreenShareRefinement ------------------------
(* How the maps and requests of ScreenShare represent its sessions. *)
EXTENDS ScreenShare

\* Taken, but without a connection as yet.
Starting(o) ==
    \E w \in Workers : req[w].step \in {"offer.stream", "offer.connect"} /\ req[w].offer = o

Session ==
    [o \in Offers |->
        IF o \notin begun \/ Starting(o) THEN "none"
        ELSE IF o \notin peers \cup open THEN "over"
        ELSE IF o \in hungup THEN "ending"
        ELSE IF o \in answered /\ o \in peers \cap open THEN "live"
        ELSE "opening"]

Sessions == INSTANCE ScreenSessions WITH session <- Session

\* Whatever overlaps or fails, the steps of the requests add up to the life of a
\* session: in particular an answered session ends by a hangup of its own id and
\* by nothing else, and one that is over never comes back.
RefinesSessions == Sessions!Spec
=============================================================================
