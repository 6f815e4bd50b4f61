---------------------- MODULE AnonymousRoomRefinement ----------------------
(* How the tables of AnonymousRoom represent the rooms of RoomContract. *)
EXTENDS AnonymousRoom

VARIABLES
    alone,     \* auxiliary: no two requests have been under way at once
    faultless  \* auxiliary: no statement has failed, no answer was lost, nothing crashed

observedVars == <<vars, alone, faultless>>

\* At most one request is under way.
Alone == \A v, w \in Workers : req[v] # Idle /\ req[w] # Idle => v = w

\* The same handlers where nothing ever fails: a step is faultless if it is one of theirs.
WithoutFaults == INSTANCE AnonymousRoom WITH Faults <- FALSE

ObservedInit ==
    /\ Init
    /\ alone = TRUE
    /\ faultless = TRUE

ObservedNext ==
    /\ Next
    /\ alone' = (alone /\ Alone')
    /\ faultless' = (faultless /\ WithoutFaults!Next)

\* The rooms, observed, with the goroutines running to their end.
ObservedSpec ==
    /\ ObservedInit
    /\ [][ObservedNext]_observedVars
    /\ Fairness

Undisturbed == alone /\ faultless

\* A Leave that has marked the last participant has closed the room already:
\* its own count and status update will follow.
Closing(r) ==
    /\ Active(r) = {}
    /\ \E w \in Workers : req[w].step \in {"leave.count", "leave.end"} /\ req[w].room = r

\* A room whose Create is under way is not there yet.
RoomState ==
    [r \in Rooms |->
        IF status[r] = "none" \/ Unannounced(r) THEN "none"
        ELSE IF status[r] = "ended" \/ Closing(r) THEN "closed"
        ELSE "open"]

RoomMembers == [r \in Rooms |-> {rows[i].pid : i \in Active(r)}]

Contract == INSTANCE RoomContract WITH state <- RoomState, members <- RoomMembers

\* As long as requests are served one at a time and nothing fails, the statements
\* of the handlers add up to the contract: in particular a departed participant
\* is out, the room closes with the last one, and a closed room admits nobody.
RefinesContract == Contract!Init /\ [][Undisturbed' => Contract!Next]_(Contract!vars)

\* As long as requests are served one at a time, no participant gets two active
\* rows, whose common left_at the schema would refuse.
LeaveStaysPossible == Undisturbed => LeaveIsPossible

\* However requests overlap, a room that everybody has left is ended unless
\* somebody comes in again or something fails: of several Leaves that finish
\* together at least one counts zero.
EmptiedRoomEnds ==
    \A r \in Rooms :
        Emptied(r) /\ faultless ~> status[r] = "ended" \/ Active(r) # {} \/ ~faultless
=============================================================================
