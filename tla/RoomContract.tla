---------------------------- MODULE RoomContract ----------------------------
(***************************************************************************)
(* What an anonymous room promises its clients, each request being one     *)
(* step: who is in the room, whether it can be entered, and when it ends.  *)
(***************************************************************************)
CONSTANTS Rooms, Participants

VARIABLES
    state,    \* "none", "open" or "closed"
    members,  \* the participants in the room
    tokens    \* media tokens handed out

vars == <<state, members, tokens>>

Init ==
    /\ state = [r \in Rooms |-> "none"]
    /\ members = [r \in Rooms |-> {}]
    /\ tokens = {}

\* A room opens with its host in it, or empty.
Open(r, M) ==
    /\ state[r] = "none"
    /\ state' = [state EXCEPT ![r] = "open"]
    /\ members' = [members EXCEPT ![r] = M]
    /\ UNCHANGED tokens

Enter(r, p) ==
    /\ state[r] = "open"
    /\ members' = [members EXCEPT ![r] = @ \cup {p}]
    /\ UNCHANGED <<state, tokens>>

\* A participant departs for certain; with the last one the room closes.
Depart(r, p) ==
    /\ state[r] # "none"
    /\ members' = [members EXCEPT ![r] = @ \ {p}]
    /\ state' = IF members[r] \subseteq {p} THEN [state EXCEPT ![r] = "closed"] ELSE state
    /\ UNCHANGED tokens

Grant(r, p) ==
    /\ state[r] = "open"
    /\ tokens' = tokens \cup {<<r, p>>}
    /\ UNCHANGED <<state, members>>

Next ==
    \E r \in Rooms :
        \/ Open(r, {})
        \/ \E p \in Participants : Open(r, {p}) \/ Enter(r, p) \/ Depart(r, p) \/ Grant(r, p)

Spec == Init /\ [][Next]_vars

\* A room that is not open has nobody in it.
OnlyOpenRoomsHaveMembers == \A r \in Rooms : state[r] # "open" => members[r] = {}
=============================================================================
