--------------------------- MODULE WebClientProofs ---------------------------
(***************************************************************************)
(* Theorems about WebClient, for any rooms, browsers, tabs, participants   *)
(* elsewhere and bounds.                                                   *)
(***************************************************************************)
EXTENDS WebClient, TLAPS

-----------------------------------------------------------------------------
(* The invariant. *)

\* A request to join or to leave names a room, and so does an answered creation;
\* no leave is refused.
CallsHaveRooms ==
    \A c \in Calls :
        /\ call[c] # Idle /\ call[c].op \in {"join", "leave"} => call[c].room \in Rooms
        /\ call[c] # Idle /\ call[c].op = "create" /\ call[c].answer = "ok"
            => call[c].room \in Rooms
        /\ call[c] # Idle /\ call[c].op = "leave" => call[c].answer # "refused"

\* Nobody is in a room that does not exist.
NoneIsEmpty == \A r \in Rooms : state[r] = "none" => members[r] = {}

\* Two tabs of a browser in rooms make it crowded.
CrowdsAreSeen ==
    \A p \in Participants : \A t, u \in Tabs :
        t # u /\ InRoomPage(<<p, t>>) /\ InRoomPage(<<p, u>>) => p \in crowded

\* Before initRoom runs, a page knows no room and waits for nothing.
Blank(g) ==
    page[g].step \in {"menu", "load"} =>
        /\ page[g].room = Nothing /\ ~page[g].media /\ page[g].leave = "no"
        /\ \A c \in Calls : ~Waits(g, c)

\* The room a user asked for is in the address, and it is the one entered.
AsAsked(g) ==
    page[g].asked \in Rooms =>
        /\ InRoomPage(g) => page[g].url = page[g].asked
        /\ page[g].step \in {"token", "connecting", "in"} => page[g].room = page[g].asked
        /\ \A c \in Calls :
            page[g].step = "joining" /\ Waits(g, c) /\ call[c].op = "join"
                => call[c].room = page[g].asked

\* Who asked for a new room finds no old one, as long as no other tab has one.
NothingOld(g) ==
    InRoomPage(g) /\ page[g].asked = "new" =>
        \/ g[1] \in crowded
        \/ /\ page[g].step \in {"load", "creating"}
           /\ page[g].url = Nothing /\ page[g].session = Nothing /\ saved[g[1]] = Nothing

\* A page waits for the answers that its step calls for, one of a kind, and only
\* a page that is being left waits for a Leave of its room.
CallsFit(g) ==
    \A c \in Calls : Waits(g, c) =>
        /\ call[c].op = "join" => page[g].step = "joining" /\ call[c].room = page[g].room
        /\ call[c].op = "create" => page[g].step = "creating"
        /\ call[c].op = "leave" => page[g].leave # "no" /\ call[c].room = page[g].room
        /\ \A d \in Calls : Waits(g, d) /\ call[d].op = call[c].op
                /\ call[c].op \in {"join", "create"} => d = c

\* currentRoomId is set from the Join on, or by the answer to a Create; a page that
\* has failed has no other room in its address or saved.
RoomFits(g) ==
    /\ page[g].step = "creating" => page[g].room = Nothing
    /\ page[g].step = "joining" => page[g].room \in Rooms
    /\ page[g].step \in {"token", "connecting", "in"} =>
        page[g].room \in Rooms /\ page[g].url = page[g].room
    /\ page[g].step = "failed" /\ page[g].room # Nothing /\ g[1] \notin crowded =>
        \/ page[g].url = page[g].room
        \/ page[g].url = Nothing /\ page[g].session = Nothing /\ saved[g[1]] = Nothing

\* A room that was made for a page is known to it, or the page is not to blame.
MadeFor(g) ==
    \A c \in Calls : Waits(g, c) /\ call[c].op = "create" /\ g[1] \notin crowded =>
        /\ call[c].answer = "pending" => call[c].room = Nothing
        /\ call[c].answer # "ok" => call[c].room = Nothing \/ <<g[1], call[c].room>> \in stray

\* A page that has been let in, or will hear that it has, is in the room.
IsMember(g) ==
    page[g].leave = "no" /\ g[1] \notin crowded =>
        /\ page[g].step \in {"token", "connecting", "in"} =>
            <<g[1], page[g].room>> \in stray \/ g[1] \in members[page[g].room]
        /\ \A c \in Calls :
            Waits(g, c) /\ call[c].op \in {"join", "create"} /\ call[c].answer = "ok" =>
                <<g[1], call[c].room>> \in stray \/ g[1] \in members[call[c].room]

\* A page whose Leave was answered is in no room.
IsOut(g) ==
    \A c \in Calls : Waits(g, c) /\ call[c].op = "leave" /\ call[c].answer = "ok" =>
        \A r \in Rooms :
            g[1] \in crowded \/ <<g[1], r>> \in stray \/ g[1] \notin members[r]

PageOK(g) ==
    /\ Blank(g) /\ AsAsked(g) /\ NothingOld(g)
    /\ CallsFit(g) /\ RoomFits(g) /\ MadeFor(g) /\ IsMember(g) /\ IsOut(g)

\* Whoever is in a room is there with a page that would account for it.
Attends(g, r) == InRoomPage(g) /\ <<g[1], r>> \in Unattended(g)

Attended ==
    \A p \in Participants, r \in Rooms :
        p \in members[r] =>
            \/ p \in crowded \/ <<p, r>> \in stray
            \/ \E t \in Tabs : Attends(<<p, t>>, r)

IInv ==
    /\ TypeOK /\ CallsHaveRooms /\ NoneIsEmpty /\ CrowdsAreSeen /\ Attended
    /\ \A g \in Pages : PageOK(g)

-----------------------------------------------------------------------------
(* Requests. *)

\* The requests that pages other than g wait for are what they were.
OthersKept(g) ==
    \A c \in Calls, h \in Pages \ {g} : Waits(h, c) \/ Waits(h, c)' => call'[c] = call[c]

LEMMA Pairs ==
    /\ \A g \in Pages : g[1] \in Participants /\ g[2] \in Tabs /\ g = <<g[1], g[2]>>
    /\ \A p \in Participants, t \in Tabs : <<p, t>> \in Pages
BY DEF Pages

\* A request nobody waits for any more is nobody's.
LEMMA ForsakeOne ==
    ASSUME TypeOK, NEW c \in Calls, call[c] # Idle
    PROVE  /\ Forsake(c) \in Call \cup {Idle}
           /\ \A g \in Pages : Forsake(c) # Idle => <<Forsake(c).who, Forsake(c).tab>> # g
           /\ Forsake(c) # Idle =>
                /\ Forsake(c).op = call[c].op /\ Forsake(c).room = call[c].room
                /\ Forsake(c).answer = call[c].answer
<1>1. call[c] \in Call
    BY DEF TypeOK
<1>2. CASE call[c].answer # "pending"
    BY <1>2 DEF Forsake
<1>3. CASE call[c].answer = "pending"
    <2>1. Forsake(c) = [call[c] EXCEPT !.tab = Nothing]
        BY <1>3 DEF Forsake
    <2>2. /\ Forsake(c) \in Call /\ Forsake(c).tab = Nothing
          /\ Forsake(c).op = call[c].op /\ Forsake(c).room = call[c].room
          /\ Forsake(c).answer = call[c].answer
        BY <1>1, <2>1 DEF Call
    <2>3. \A g \in Pages : g[2] # Nothing
        BY Pairs, ConstantsAssumption
    <2> QED
        BY <2>2, <2>3
<1> QED
    BY <1>2, <1>3

\* What the scripts do to the requests: some of g's are forsaken, and at most one
\* is new, of an operation and a room that are given.
Calling(g, ops, r) ==
    \A c \in Calls :
        \/ call'[c] = call[c]
        \/ Waits(g, c) /\ call'[c] = Forsake(c)
        \/ /\ call[c] = Idle \/ Waits(g, c)
           /\ \E op \in ops : call'[c] =
                [op |-> op, who |-> g[1], tab |-> g[2], room |-> r, answer |-> "pending"]

LEMMA CallingKeeps ==
    ASSUME TypeOK, CallsHaveRooms, NEW g \in Pages, NEW r \in SomeRoom,
           NEW ops \in SUBSET {"create", "join", "token", "leave"},
           ops \cap {"join", "leave"} # {} => r \in Rooms,
           call' = [c \in Calls |-> call'[c]], Calling(g, ops, r)
    PROVE  /\ call' \in [Calls -> Call \cup {Idle}]
           /\ CallsHaveRooms'
           /\ OthersKept(g)
           /\ \A c \in Calls : Waits(g, c)' =>
                \/ Waits(g, c) /\ call'[c] = call[c]
                \/ /\ call'[c].op \in ops /\ call'[c].room = r
                   /\ call'[c].answer = "pending"
<1>1. g[1] \in Participants /\ g[2] \in Tabs /\ g = <<g[1], g[2]>>
    BY Pairs
<1>2. ASSUME NEW c \in Calls
      PROVE  /\ call'[c] \in Call \cup {Idle}
             /\ call'[c] # Idle =>
                /\ call'[c].op \in {"join", "leave"} => call'[c].room \in Rooms
                /\ call'[c].op = "create" /\ call'[c].answer = "ok" => call'[c].room \in Rooms
                /\ call'[c].op = "leave" => call'[c].answer # "refused"
             /\ \A h \in Pages \ {g} : Waits(h, c) \/ Waits(h, c)' => call'[c] = call[c]
             /\ Waits(g, c)' =>
                  \/ Waits(g, c) /\ call'[c] = call[c]
                  \/ /\ call'[c].op \in ops /\ call'[c].room = r
                     /\ call'[c].answer = "pending"
    <2>1. CASE call'[c] = call[c]
        BY <2>1 DEF TypeOK, CallsHaveRooms, Waits
    <2>2. CASE Waits(g, c) /\ call'[c] = Forsake(c)
        BY <2>2, ForsakeOne DEF CallsHaveRooms, Waits
    <2>3. ASSUME NEW op \in ops, call[c] = Idle \/ Waits(g, c), call'[c] =
            [op |-> op, who |-> g[1], tab |-> g[2], room |-> r, answer |-> "pending"]
          PROVE  /\ call'[c] \in Call
                 /\ call'[c].op = op /\ call'[c].room = r /\ call'[c].answer = "pending"
                 /\ <<call'[c].who, call'[c].tab>> = g
        BY <1>1, <2>3 DEF Call
    <2> QED
        BY <2>1, <2>2, <2>3 DEF Calling, Waits
<1> QED
    BY <1>2 DEF CallsHaveRooms, OthersKept

-----------------------------------------------------------------------------
(* What a step of page g means for the others. *)

\* g keeps the shared storage to what others may find: nothing new is put into it
\* except from a page in rooms.
LEMMA OtherPages ==
    ASSUME IInv, NEW g \in Pages, OthersKept(g),
           \A h \in Pages : h # g => page'[h] = page[h],
           \A p \in Participants : p # g[1] => saved'[p] = saved[p],
           saved'[g[1]] \in {saved[g[1]], Nothing} \/ InRoomPage(g),
           crowded \subseteq crowded', stray \subseteq stray', UNCHANGED server,
           NEW h \in Pages, h # g
    PROVE  PageOK(h)'
<1>1. page'[h] = page[h] /\ (InRoomPage(h)' <=> InRoomPage(h))
    BY DEF InRoomPage
<1>2. \A c \in Calls : /\ Waits(h, c)' <=> Waits(h, c)
                       /\ Waits(h, c) => call'[c] = call[c]
    BY DEF OthersKept, Waits
<1>3. PageOK(h)
    BY DEF IInv
<1>4. saved'[h[1]] \in {saved[h[1]], Nothing} \/ (InRoomPage(h) => h[1] \in crowded)
    <2>1. CASE h[1] # g[1]
        BY <2>1, Pairs
    <2>2. CASE h[1] = g[1]
        <3>1. g = <<h[1], g[2]>> /\ h = <<h[1], h[2]>> /\ g[2] # h[2]
            BY <2>2, Pairs
        <3>2. InRoomPage(h) /\ InRoomPage(g) => h[1] \in crowded
            BY <3>1, Pairs DEF IInv, CrowdsAreSeen
        <3> QED
            BY <2>2, <3>2
    <2> QED
        BY <2>1, <2>2
<1>5. Blank(h)' /\ AsAsked(h)' /\ CallsFit(h)'
    BY <1>1, <1>2, <1>3 DEF PageOK, Blank, AsAsked, CallsFit
<1>6. NothingOld(h)'
    BY <1>1, <1>3, <1>4 DEF PageOK, NothingOld
<1>7. RoomFits(h)'
    BY <1>1, <1>3, <1>4 DEF PageOK, RoomFits, InRoomPage, RoomSteps
<1>8. MadeFor(h)' /\ IsMember(h)' /\ IsOut(h)'
    BY <1>1, <1>2, <1>3 DEF PageOK, MadeFor, IsMember, IsOut, server
<1> QED
    BY <1>5, <1>6, <1>7, <1>8 DEF PageOK

LEMMA Crowds ==
    ASSUME IInv, NEW g \in Pages, \A h \in Pages : h # g => page'[h] = page[h],
           crowded \subseteq crowded',
           \/ InRoomPage(g)' => InRoomPage(g)
           \/ \A t \in Tabs \ {g[2]} : InRoomPage(<<g[1], t>>) => g[1] \in crowded'
    PROVE  CrowdsAreSeen'
<1> SUFFICES ASSUME NEW p \in Participants, NEW t \in Tabs, NEW u \in Tabs, t # u,
                    InRoomPage(<<p, t>>)', InRoomPage(<<p, u>>)'
             PROVE  p \in crowded'
    BY DEF CrowdsAreSeen
<1>1. \A h \in Pages : h # g => (InRoomPage(h)' <=> InRoomPage(h))
    BY DEF InRoomPage
<1>2. <<p, t>> \in Pages /\ <<p, u>> \in Pages
    BY Pairs
<1>3. CASE InRoomPage(<<p, t>>) /\ InRoomPage(<<p, u>>)
    BY <1>3 DEF IInv, CrowdsAreSeen
<1>4. CASE g = <<p, t>>
    BY <1>1, <1>2, <1>3, <1>4
<1>5. CASE g = <<p, u>>
    BY <1>1, <1>2, <1>3, <1>5
<1> QED
    BY <1>1, <1>2, <1>3, <1>4, <1>5

\* What g attends it goes on attending, unless that is noted as stray, or it is out.
Accounted(g) ==
    \A r \in Rooms : <<g[1], r>> \in Unattended(g) /\ g[1] \in members[r] =>
        g[1] \in crowded \/ <<g[1], r>> \in stray' \/ Attends(g, r)'

LEMMA AttendedStep ==
    ASSUME IInv, NEW g \in Pages, OthersKept(g),
           \A h \in Pages : h # g => page'[h] = page[h],
           \A p \in Participants : p # g[1] => saved'[p] = saved[p],
           crowded \subseteq crowded', stray \subseteq stray', UNCHANGED server,
           InRoomPage(g) \/ \A t \in Tabs \ {g[2]} : InRoomPage(<<g[1], t>>) => g[1] \in crowded',
           Accounted(g)
    PROVE  Attended'
<1> SUFFICES ASSUME NEW p \in Participants, NEW r \in Rooms, p \in members[r],
                    p \notin crowded', <<p, r>> \notin stray'
             PROVE  \E t \in Tabs : Attends(<<p, t>>, r)'
    BY DEF Attended, server
<1>1. PICK t \in Tabs : Attends(<<p, t>>, r)
    BY DEF IInv, Attended
<1>2. <<p, t>> \in Pages /\ <<p, t>>[1] = p /\ g = <<g[1], g[2]>> /\ g[2] \in Tabs
    BY Pairs
<1>3. CASE g = <<p, t>>
    BY <1>1, <1>2, <1>3 DEF Accounted, Attends
<1>4. CASE g # <<p, t>> /\ g[1] = p
    <2>1. t # g[2] /\ InRoomPage(<<g[1], t>>)
        BY <1>1, <1>2, <1>4 DEF Attends
    <2>2. InRoomPage(g) => p \in crowded
        BY <1>2, <1>4, <2>1 DEF IInv, CrowdsAreSeen
    <2> QED
        BY <1>4, <2>1, <2>2
<1>5. CASE g[1] # p
    <2> DEFINE h == <<p, t>>
    <2>1. h # g /\ page'[h] = page[h] /\ saved'[p] = saved[p]
        BY <1>2, <1>5
    <2>2. Target(h)' = Target(h) /\ (InRoomPage(h)' <=> InRoomPage(h))
        BY <1>2, <2>1 DEF Target, InRoomPage
    <2>3. {call[c].room : c \in {d \in Calls : Waits(h, d) /\ call[d].op = "create"}}
            \subseteq {call'[c].room : c \in {d \in Calls : Waits(h, d)' /\ call'[d].op = "create"}}
        BY <1>2, <2>1 DEF OthersKept, Waits
    <2>4. Unattended(h) \subseteq Unattended(h)'
        BY <1>2, <2>1, <2>2, <2>3 DEF Unattended
    <2> QED
        BY <1>1, <2>2, <2>4 DEF Attends
<1> QED
    BY <1>3, <1>4, <1>5

\* A step of page g: the other pages stay as they are; what is left to show is
\* about g alone.
LEMMA PageStep ==
    ASSUME IInv, NEW g \in Pages, NEW new \in Page, Show(g, new),
           NEW r \in SomeRoom, NEW ops \in SUBSET {"create", "join", "token", "leave"},
           ops \cap {"join", "leave"} # {} => r \in Rooms,
           call' = [c \in Calls |-> call'[c]], Calling(g, ops, r),
           saved' \in [Participants -> SomeRoom],
           \A p \in Participants : p # g[1] => saved'[p] = saved[p],
           saved'[g[1]] \in {saved[g[1]], Nothing} \/ InRoomPage(g),
           (InRoomPage(g) /\ UNCHANGED <<crowded, visits>>) \/ Visit(g),
           stray \subseteq stray', stray' \subseteq Participants \X Rooms,
           UNCHANGED server,
           Accounted(g), PageOK(g)'
    PROVE  IInv'
<1>1. /\ page' \in [Pages -> Page] /\ page'[g] = new
      /\ \A h \in Pages : h # g => page'[h] = page[h]
    BY DEF IInv, TypeOK, Show
<1>2. /\ call' \in [Calls -> Call \cup {Idle}]
      /\ CallsHaveRooms'
      /\ OthersKept(g)
    BY CallingKeeps DEF IInv
<1>3. crowded \subseteq crowded' /\ crowded' \subseteq Participants
    BY Pairs DEF IInv, TypeOK, Visit
<1>4. visits' \in 0 .. Visits
    BY ConstantsAssumption DEF IInv, TypeOK, Visit
<1>5. TypeOK'
    BY <1>1, <1>2, <1>3, <1>4 DEF IInv, TypeOK, server
<1>6. \/ InRoomPage(g)
      \/ \A t \in Tabs \ {g[2]} : InRoomPage(<<g[1], t>>) => g[1] \in crowded'
    BY DEF Visit
<1>7. CrowdsAreSeen'
    BY <1>1, <1>3, <1>6, Crowds
<1>8. Attended'
    BY <1>1, <1>2, <1>3, <1>6, AttendedStep
<1>9. \A h \in Pages : h # g => PageOK(h)'
    BY <1>1, <1>2, <1>3, OtherPages
<1>10. NoneIsEmpty'
    BY DEF IInv, NoneIsEmpty, server
<1> QED
    BY <1>2, <1>5, <1>7, <1>8, <1>9, <1>10 DEF IInv

\* A page that waits for something is past the menu and the loading.
LEMMA WaitsInRoom ==
    ASSUME IInv, NEW g \in Pages, NEW c \in Calls, Waits(g, c)
    PROVE  InRoomPage(g) /\ page[g].step \notin {"menu", "load"}
BY DEF IInv, TypeOK, PageOK, Blank, Page, InRoomPage

\* After its requests are forsaken a page waits for nothing.
LEMMA ForsakenAll ==
    ASSUME TypeOK, NEW g \in Pages, call' = Forsaken(g)
    PROVE  /\ call' = [c \in Calls |-> call'[c]]
           /\ Calling(g, {}, Nothing)
           /\ \A c \in Calls : ~Waits(g, c)'
<1>1. \A c \in Calls : call'[c] = IF Waits(g, c) THEN Forsake(c) ELSE call[c]
    BY DEF Forsaken
<1>2. \A c \in Calls : ~Waits(g, c)'
    BY <1>1, ForsakeOne DEF Waits
<1> QED
    BY <1>1, <1>2 DEF Forsaken, Calling

LEMMA TakenOne ==
    ASSUME TypeOK, NEW g \in Pages, NEW c \in Calls, Waits(g, c), call' = Taken(c)
    PROVE  /\ call' = [d \in Calls |-> call'[d]] /\ Calling(g, {}, Nothing)
           /\ \A d \in Calls : Waits(g, d)' => d # c /\ Waits(g, d) /\ call'[d] = call[d]
<1>1. \A d \in Calls : call'[d] = IF d = c THEN Forsake(c) ELSE call[d]
    BY DEF TypeOK, Taken
<1>2. ~Waits(g, c)'
    BY <1>1, ForsakeOne DEF Waits
<1> QED
    BY <1>1, <1>2 DEF TypeOK, Taken, Calling, Waits

LEMMA SendOne ==
    ASSUME TypeOK, NEW g \in Pages, NEW c \in Calls, NEW r \in SomeRoom,
           NEW op \in {"create", "join", "token", "leave"}, Send(c, g, op, r),
           call[c] = Idle \/ Waits(g, c)
    PROVE  /\ call' = [d \in Calls |-> call'[d]] /\ Calling(g, {op}, r)
           /\ call'[c].op = op /\ call'[c].room = r /\ call'[c].answer = "pending"
           /\ \A d \in Calls \ {c} : call'[d] = call[d] /\ (Waits(g, d)' <=> Waits(g, d))
BY DEF TypeOK, Send, Calling, Waits

LEMMA CallsKept ==
    ASSUME TypeOK, NEW g \in Pages, UNCHANGED call
    PROVE  call' = [d \in Calls |-> call'[d]] /\ Calling(g, {}, Nothing)
BY DEF TypeOK, Calling

LEMMA MenuType ==
    /\ Menu \in Page
    /\ Menu.step = "menu" /\ Menu.room = Nothing /\ Menu.media = FALSE
    /\ Menu.leave = "no" /\ Menu.asked = "any"
BY DEF Menu, Page, SomeRoom

-----------------------------------------------------------------------------
(* The steps. *)

\* A room page is loaded from page g: by the user from the menu, or again.
LEMMA LoadStep ==
    ASSUME IInv, NEW g \in Pages, NEW u \in SomeRoom, NEW s \in SomeRoom,
           NEW a \in Rooms \cup {"new", "any"}, Show(g, RoomPage(u, s, a)),
           call' = Forsaken(g), Visit(g),
           saved' \in [Participants -> SomeRoom],
           \A p \in Participants : p # g[1] => saved'[p] = saved[p],
           saved'[g[1]] \in {saved[g[1]], Nothing},
           a \in Rooms => u = a,
           a = "new" => \/ g[1] \in crowded
                        \/ u = Nothing /\ s = Nothing /\ saved'[g[1]] = Nothing,
           stray \subseteq stray', stray' \subseteq Participants \X Rooms,
           UNCHANGED server,
           \A r \in Rooms : <<g[1], r>> \in Unattended(g) =>
                <<g[1], r>> \in stray' \/ r = Target(g)'
    PROVE  IInv'
<1>1. /\ call' = [c \in Calls |-> call'[c]]
      /\ Calling(g, {}, Nothing)
      /\ \A c \in Calls : ~Waits(g, c)'
    BY ForsakenAll DEF IInv
<1> DEFINE new == RoomPage(u, s, a)
<1>2. /\ new \in Page
      /\ new.step = "load" /\ new.url = u /\ new.session = s /\ new.asked = a
      /\ new.room = Nothing /\ new.media = FALSE /\ new.leave = "no"
    BY MenuType DEF RoomPage, Page, RoomSteps
<1>3. page'[g] = new
    BY DEF Show, IInv, TypeOK
<1>4. Show(g, new)
    OBVIOUS
<1> HIDE DEF new
<1>5. AsAsked(g)'
    BY <1>1, <1>2, <1>3 DEF AsAsked, InRoomPage
<1>6. NothingOld(g)'
    BY <1>2, <1>3 DEF NothingOld, InRoomPage, Visit
<1>7. PageOK(g)'
    BY <1>1, <1>2, <1>3, <1>5, <1>6
       DEF PageOK, Blank, CallsFit, RoomFits, MadeFor, IsMember, IsOut
<1>8. Accounted(g)
    BY <1>2, <1>3 DEF Accounted, Attends, Unattended, InRoomPage, RoomSteps
<1> QED
    BY <1>1, <1>2, <1>4, <1>7, <1>8, PageStep DEF SomeRoom

\* Page g is left for the menu.
LEMMA MenuStep ==
    ASSUME IInv, NEW g \in Pages, NEW new \in Page, Show(g, new), InRoomPage(g),
           new.step = "menu", new.room = Nothing, new.media = FALSE,
           new.leave = "no", new.asked = "any",
           call' = Forsaken(g),
           saved' \in [Participants -> SomeRoom],
           \A p \in Participants : p # g[1] => saved'[p] = saved[p],
           stray \subseteq stray', stray' \subseteq Participants \X Rooms,
           \A r \in Rooms : <<g[1], r>> \in Unattended(g) /\ g[1] \in members[r] =>
                g[1] \in crowded \/ <<g[1], r>> \in stray',
           UNCHANGED <<server, crowded, visits>>
    PROVE  IInv'
<1>1. /\ call' = [c \in Calls |-> call'[c]]
      /\ Calling(g, {}, Nothing)
      /\ \A c \in Calls : ~Waits(g, c)'
    BY ForsakenAll DEF IInv
<1>2. page'[g] = new
    BY DEF Show, IInv, TypeOK
<1>3. AsAsked(g)' /\ NothingOld(g)'
    BY <1>1, <1>2, ConstantsAssumption DEF AsAsked, NothingOld, InRoomPage, RoomSteps
<1>4. PageOK(g)'
    BY <1>1, <1>2, <1>3 DEF PageOK, Blank, CallsFit, RoomFits, MadeFor, IsMember, IsOut
<1>5. Accounted(g)
    BY DEF Accounted
<1> QED
    BY <1>1, <1>4, <1>5, PageStep DEF SomeRoom

LEMMA UnattendedType == \A g \in Pages : Unattended(g) \subseteq Participants \X Rooms
BY Pairs DEF Unattended

LEMMA GoHomeStep ==
    ASSUME IInv, NEW g \in Pages, GoHome(g), InRoomPage(g),
           \/ stray' = stray \cup Unattended(g)
           \/ /\ stray' = stray
              /\ \A r \in Rooms :
                    g[1] \in crowded \/ <<g[1], r>> \in stray \/ g[1] \notin members[r],
           UNCHANGED <<server, crowded, visits>>
    PROVE  IInv'
<1>1. /\ saved' \in [Participants -> SomeRoom]
      /\ \A p \in Participants : p # g[1] => saved'[p] = saved[p]
    BY Pairs DEF GoHome, Forget, IInv, TypeOK, SomeRoom
<1>2. stray \subseteq stray' /\ stray' \subseteq Participants \X Rooms
    BY UnattendedType DEF IInv, TypeOK
<1> QED
    BY <1>1, <1>2, MenuType, MenuStep DEF GoHome

LEMMA SavedKept ==
    ASSUME TypeOK, NEW g \in Pages, UNCHANGED saved
    PROVE  /\ saved' \in [Participants -> SomeRoom]
           /\ \A p \in Participants : p # g[1] => saved'[p] = saved[p]
           /\ saved'[g[1]] = saved[g[1]]
BY DEF TypeOK

LEMMA TargetType == TypeOK => \A g \in Pages : Target(g) \in SomeRoom
BY Pairs DEF TypeOK, Target, Page

\* Entering a room fails: the page stays, and only the answer to a Leave may
\* still be waited for.
LEMMA FailedStep ==
    ASSUME IInv, NEW g \in Pages, NEW new \in Page, Show(g, new), InRoomPage(g),
           new.step = "failed", new.asked = "any",
           new.room = page[g].room, new.leave = page[g].leave,
           \/ new.room = Nothing \/ new.url = new.room
           \/ new.url = Nothing /\ new.session = Nothing /\ saved'[g[1]] = Nothing,
           call' = [c \in Calls |-> call'[c]], Calling(g, {}, Nothing),
           \A d \in Calls : Waits(g, d)' =>
                Waits(g, d) /\ call'[d] = call[d] /\ call[d].op \notin {"join", "create"},
           saved' \in [Participants -> SomeRoom],
           \A p \in Participants : p # g[1] => saved'[p] = saved[p],
           \A r \in Rooms : <<g[1], r>> \in Unattended(g) =>
                \/ g[1] \in crowded \/ <<g[1], r>> \in stray
                \/ r \in {page[g].room, Target(g)'},
           UNCHANGED <<server, aux, visits>>
    PROVE  IInv'
<1>1. page'[g] = new
    BY DEF Show, IInv, TypeOK
<1>2. Blank(g)' /\ AsAsked(g)' /\ NothingOld(g)'
    BY <1>1, ConstantsAssumption DEF Blank, AsAsked, NothingOld
<1>3. CallsFit(g)' /\ RoomFits(g)'
    BY <1>1 DEF CallsFit, RoomFits, IInv, PageOK
<1>4. MadeFor(g)' /\ IsMember(g)' /\ IsOut(g)'
    BY <1>1 DEF MadeFor, IsMember, IsOut, IInv, PageOK, server, aux
<1>5. Accounted(g)
    BY <1>1 DEF Accounted, Attends, Unattended, InRoomPage, RoomSteps, aux
<1>6. stray \subseteq stray' /\ stray' \subseteq Participants \X Rooms
    BY DEF aux, IInv, TypeOK
<1> QED
    BY <1>1, <1>2, <1>3, <1>4, <1>5, <1>6, PageStep DEF PageOK, SomeRoom, aux

\* The page goes on with the room it has.
LEMMA OnwardStep ==
    ASSUME IInv, NEW g \in Pages, NEW new \in Page, Show(g, new),
           page[g].step \notin {"menu", "load"},
           new.url = page[g].url, new.session = page[g].session,
           new.room = page[g].room, new.asked = page[g].asked,
           new.leave = "no" => page[g].leave = "no",
           \/ new.step = page[g].step
           \/ {new.step, page[g].step} \subseteq {"token", "connecting", "in"},
           call' = [c \in Calls |-> call'[c]],
           NEW r \in SomeRoom, NEW ops \in SUBSET {"leave"},
           ops # {} => r \in Rooms /\ r = page[g].room /\ new.leave # "no",
           Calling(g, ops, r),
           \A d \in Calls : Waits(g, d) /\ call[d].op = "create" => call'[d] = call[d],
           UNCHANGED <<server, saved, aux, visits>>
    PROVE  IInv'
<1>1. page'[g] = new /\ InRoomPage(g) /\ new.step \in RoomSteps
    BY DEF Show, IInv, TypeOK, Page, InRoomPage, RoomSteps
<1>2. \A c \in Calls : Waits(g, c)' =>
        \/ Waits(g, c) /\ call'[c] = call[c]
        \/ /\ call'[c].op = "leave" /\ call'[c].room = page[g].room
           /\ call'[c].answer = "pending" /\ new.leave # "no"
    BY CallingKeeps DEF IInv
<1>3. PageOK(g)
    BY DEF IInv
<1>4. Blank(g)'
    BY <1>1 DEF Blank
<1>5. AsAsked(g)'
    BY <1>1, <1>2, <1>3 DEF PageOK, AsAsked, InRoomPage
<1>6. NothingOld(g)'
    BY <1>1, <1>3 DEF PageOK, NothingOld, aux
<1>7. CallsFit(g)'
    BY <1>1, <1>2, <1>3 DEF PageOK, CallsFit
<1>8. RoomFits(g)'
    BY <1>1, <1>3 DEF PageOK, RoomFits, aux
<1>9. MadeFor(g)' /\ IsOut(g)'
    BY <1>1, <1>2, <1>3 DEF PageOK, MadeFor, IsOut, server, aux
<1>10. IsMember(g)'
    BY <1>1, <1>2, <1>3 DEF PageOK, IsMember, server, aux
<1>11. Accounted(g)
    <2>1. {call[c].room : c \in {d \in Calls : Waits(g, d) /\ call[d].op = "create"}}
            \subseteq {call'[c].room : c \in {d \in Calls : Waits(g, d)' /\ call'[d].op = "create"}}
        BY DEF Waits
    <2>2. Target(g)' = Target(g)
        BY <1>1 DEF Target
    <2>3. Unattended(g) \subseteq Unattended(g)'
        BY <1>1, <2>1, <2>2 DEF Unattended
    <2> QED
        BY <1>1, <2>3 DEF Accounted, Attends, InRoomPage
<1>12. /\ saved' \in [Participants -> SomeRoom]
       /\ \A p \in Participants : p # g[1] => saved'[p] = saved[p]
       /\ saved'[g[1]] = saved[g[1]]
    BY SavedKept DEF IInv
<1>13. stray \subseteq stray' /\ stray' \subseteq Participants \X Rooms
    BY DEF aux, IInv, TypeOK
<1>14. PageOK(g)'
    BY <1>4, <1>5, <1>6, <1>7, <1>8, <1>9, <1>10 DEF PageOK
<1> QED
    BY <1>1, <1>11, <1>12, <1>13, <1>14, PageStep DEF aux

\* The page is in the room r, newly made or not.
LEMMA EnteredStep ==
    ASSUME IInv, NEW g \in Pages, NEW c \in Calls, NEW r \in Rooms, NEW made \in BOOLEAN,
           Waits(g, c), Entered(g, r, made), Send(c, g, "token", r),
           call[c].room = r, call[c].answer = "ok",
           call[c].op = IF made THEN "create" ELSE "join",
           page[g].step = IF made THEN "creating" ELSE "joining",
           UNCHANGED <<server, aux, visits>>
    PROVE  IInv'
<1> DEFINE new == [page[g] EXCEPT !.step = "token", !.room = r, !.url = r, !.session = r,
                                  !.asked = IF made \/ @ = "any" THEN r ELSE @]
<1>1. page[g] \in Page /\ InRoomPage(g) /\ PageOK(g)
    BY DEF IInv, TypeOK, InRoomPage, RoomSteps
<1>2. /\ new \in Page
      /\ new.step = "token" /\ new.room = r /\ new.url = r /\ new.leave = page[g].leave
      /\ new.asked = IF made \/ page[g].asked = "any" THEN r ELSE page[g].asked
    BY <1>1 DEF Page, RoomSteps, SomeRoom
<1>3. Show(g, new) /\ page'[g] = new
    BY DEF Entered, Show, IInv, TypeOK
<1> HIDE DEF new
<1>4. /\ call' = [d \in Calls |-> call'[d]] /\ Calling(g, {"token"}, r)
      /\ call'[c].op = "token" /\ call'[c].room = r /\ call'[c].answer = "pending"
      /\ \A d \in Calls \ {c} : call'[d] = call[d] /\ (Waits(g, d)' <=> Waits(g, d))
    <2>1. TypeOK
        BY DEF IInv
    <2>2. call' = [d \in Calls |-> call'[d]]
        BY <2>1, SendOne DEF SomeRoom
    <2>3. Calling(g, {"token"}, r)
        BY <2>1, SendOne DEF SomeRoom
    <2>4. call'[c].op = "token" /\ call'[c].room = r /\ call'[c].answer = "pending"
        BY <2>1, SendOne DEF SomeRoom
    <2>5. \A d \in Calls \ {c} : call'[d] = call[d] /\ (Waits(g, d)' <=> Waits(g, d))
        BY <2>1, SendOne DEF SomeRoom
    <2> QED
        BY <2>2, <2>3, <2>4, <2>5
<1>5. /\ saved' \in [Participants -> SomeRoom]
      /\ \A p \in Participants : p # g[1] => saved'[p] = saved[p]
    BY Pairs DEF Entered, IInv, TypeOK, SomeRoom
<1>6. \A d \in Calls \ {c} : Waits(g, d) => call[d].op \notin {"join", "create"}
    BY <1>1 DEF PageOK, CallsFit
<1>7. page[g].room \in {r, Nothing} /\ (~made => page[g].room = r)
    BY <1>1 DEF PageOK, CallsFit, RoomFits
<1>8. AsAsked(g)'
    <2>1. new.asked \in Rooms => new.asked = r
        BY <1>1, <1>2 DEF PageOK, AsAsked
    <2> QED
        BY <1>2, <1>3, <2>1 DEF AsAsked
<1>9. NothingOld(g)'
    <2>1. new.asked = "new" => g[1] \in crowded
        BY <1>1, <1>2, ConstantsAssumption DEF PageOK, NothingOld
    <2> QED
        BY <1>3, <2>1 DEF NothingOld, aux
<1>10. CallsFit(g)'
    <2>1. \A d \in Calls \ {c} : Waits(g, d) /\ call[d].op = "leave" =>
            page[g].leave # "no" /\ call[d].room = r
        BY <1>1, <1>7, ConstantsAssumption DEF PageOK, CallsFit, IInv, CallsHaveRooms, Waits
    <2> QED
        BY <1>2, <1>3, <1>4, <1>6, <2>1 DEF CallsFit
<1>11. RoomFits(g)'
    BY <1>2, <1>3 DEF RoomFits
<1>12. MadeFor(g)'
    BY <1>4, <1>6 DEF MadeFor
<1>13. IsMember(g)'
    BY <1>1, <1>2, <1>3, <1>4, <1>6 DEF PageOK, IsMember, server, aux
<1>14. IsOut(g)'
    BY <1>1, <1>4 DEF PageOK, IsOut, server, aux
<1>15. Accounted(g)
    <2>1. \A x \in Rooms : <<g[1], x>> \in Unattended(g) => x = r
        BY <1>6, <1>7, ConstantsAssumption DEF Unattended
    <2> QED
        BY <1>2, <1>3, <2>1 DEF Accounted, Attends, Unattended, InRoomPage, RoomSteps
<1>16. Blank(g)'
    BY <1>2, <1>3 DEF Blank
<1>17. PageOK(g)'
    BY <1>8, <1>9, <1>10, <1>11, <1>12, <1>13, <1>14, <1>16 DEF PageOK
<1>18. stray \subseteq stray' /\ stray' \subseteq Participants \X Rooms
    BY DEF aux, IInv, TypeOK
<1> QED
    BY <1>1, <1>2, <1>3, <1>4, <1>5, <1>15, <1>17, <1>18, PageStep DEF aux, SomeRoom

LEMMA UserStep ==
    ASSUME IInv, NEW g \in Pages, MenuCreate(g) \/ MenuRegister(g) \/ MenuJoin(g)
    PROVE  IInv'
<1>1. Blank(g) /\ page[g].step = "menu" /\ page[g] \in Page
    BY DEF IInv, PageOK, TypeOK, MenuCreate, MenuRegister, MenuJoin
<1>2. call' = Forsaken(g)
    BY <1>1 DEF Blank, Forsaken, IInv, TypeOK, MenuCreate, MenuRegister, MenuJoin
<1>3. page[g].session \in SomeRoom
    BY <1>1 DEF Page
<1>4. /\ Visit(g) /\ UNCHANGED server
      /\ stray \subseteq stray' /\ stray' \subseteq Participants \X Rooms
    BY DEF IInv, TypeOK, MenuCreate, MenuRegister, MenuJoin
<1>5. \A r \in Rooms : <<g[1], r>> \notin Unattended(g)
    BY <1>1, ConstantsAssumption DEF Unattended, Blank
<1>6. CASE MenuCreate(g)
    <2>1. /\ saved' \in [Participants -> SomeRoom]
          /\ \A p \in Participants : p # g[1] => saved'[p] = saved[p]
          /\ saved'[g[1]] = Nothing
        BY <1>6, Pairs DEF MenuCreate, IInv, TypeOK, SomeRoom
    <2> QED
        BY <1>2, <1>4, <1>5, <1>6, <2>1, LoadStep, ConstantsAssumption DEF MenuCreate, SomeRoom
<1>7. CASE MenuRegister(g) \/ MenuJoin(g)
    <2>1. /\ saved' \in [Participants -> SomeRoom]
          /\ \A p \in Participants : p # g[1] => saved'[p] = saved[p]
          /\ saved'[g[1]] = saved[g[1]]
        BY <1>7, SavedKept DEF MenuRegister, MenuJoin, IInv
    <2>2. CASE MenuRegister(g)
        BY <1>2, <1>3, <1>4, <1>5, <2>1, <2>2, LoadStep, ConstantsAssumption
           DEF MenuRegister, SomeRoom
    <2>3. CASE MenuJoin(g)
        <3>1. PICK r \in Rooms : Show(g, RoomPage(r, page[g].session, r))
            BY <2>3 DEF MenuJoin
        <3> QED
            BY <1>2, <1>3, <1>4, <1>5, <2>1, <3>1, LoadStep, ConstantsAssumption DEF SomeRoom
    <2> QED
        BY <1>7, <2>2, <2>3
<1> QED
    BY <1>6, <1>7

LEMMA ReloadStep == ASSUME IInv, NEW g \in Pages, Reload(g) PROVE IInv'
<1>1. page[g] \in Page /\ InRoomPage(g)
    BY DEF Reload, IInv, TypeOK
<1>2. /\ saved' \in [Participants -> SomeRoom]
      /\ \A p \in Participants : p # g[1] => saved'[p] = saved[p]
      /\ saved'[g[1]] = saved[g[1]]
    BY SavedKept DEF Reload, IInv
<1>3. page[g].asked \in Rooms => page[g].url = page[g].asked
    BY <1>1 DEF IInv, PageOK, AsAsked
<1>4. page[g].asked = "new" =>
        \/ g[1] \in crowded
        \/ page[g].url = Nothing /\ page[g].session = Nothing /\ saved'[g[1]] = Nothing
    BY <1>1, <1>2 DEF IInv, PageOK, NothingOld
<1>5. stray \subseteq stray' /\ stray' \subseteq Participants \X Rooms
    BY UnattendedType DEF Reload, IInv, TypeOK
<1>6. Target(g)' = Target(g)
    <2>1. page'[g] = RoomPage(page[g].url, page[g].session, page[g].asked)
        BY DEF Reload, Show, IInv, TypeOK
    <2>2. page'[g].url = page[g].url /\ page'[g].session = page[g].session
        BY <2>1 DEF RoomPage, Menu
    <2> QED
        BY <1>2, <2>2 DEF Target
<1>7. \A r \in Rooms : <<g[1], r>> \in Unattended(g) =>
        <<g[1], r>> \in stray' \/ r = Target(g)'
    BY <1>6 DEF Reload
<1>8. page[g].url \in SomeRoom /\ page[g].session \in SomeRoom
      /\ page[g].asked \in Rooms \cup {"new", "any"}
    BY <1>1 DEF Page
<1> QED
    BY <1>2, <1>3, <1>4, <1>5, <1>7, <1>8, LoadStep DEF Reload

LEMMA GoAwayStep == ASSUME IInv, NEW g \in Pages, GoAway(g) PROVE IInv'
<1>1. PICK kept \in {Nothing, page[g].session} : Show(g, [Menu EXCEPT !.session = kept])
    BY DEF GoAway
<1> DEFINE new == [Menu EXCEPT !.session = kept]
<1>2. /\ new \in Page
      /\ new.step = "menu" /\ new.room = Nothing /\ new.media = FALSE
      /\ new.leave = "no" /\ new.asked = "any"
    <2>1. kept \in SomeRoom
        BY DEF IInv, TypeOK, Page, SomeRoom
    <2> QED
        BY <2>1, MenuType DEF Page
<1>3. /\ saved' \in [Participants -> SomeRoom]
      /\ \A p \in Participants : p # g[1] => saved'[p] = saved[p]
      /\ saved'[g[1]] = saved[g[1]]
    BY SavedKept DEF GoAway, IInv
<1>4. stray \subseteq stray' /\ stray' \subseteq Participants \X Rooms
    BY UnattendedType DEF GoAway, IInv, TypeOK
<1>5. Show(g, new)
    BY <1>1
<1> HIDE DEF new
<1> QED
    BY <1>2, <1>3, <1>4, <1>5, MenuStep DEF GoAway

LEMMA LoadFailedStep == ASSUME IInv, NEW g \in Pages, LoadFailed(g) PROVE IInv'
<1> DEFINE new == [page[g] EXCEPT !.step = "failed", !.asked = "any"]
<1>1. /\ new \in Page /\ new.step = "failed" /\ new.asked = "any"
      /\ new.url = page[g].url /\ new.session = page[g].session
      /\ new.room = page[g].room /\ new.leave = page[g].leave
    BY DEF IInv, TypeOK, Page, RoomSteps
<1>2. Show(g, new) /\ InRoomPage(g) /\ page'[g] = new
    BY DEF LoadFailed, Failed, Show, InRoomPage, RoomSteps, IInv, TypeOK
<1> HIDE DEF new
<1>3. page[g].step = "load" /\ page[g].room = Nothing /\ \A c \in Calls : ~Waits(g, c)
    BY DEF LoadFailed, IInv, PageOK, Blank
<1>4. \A c \in Calls : ~Waits(g, c)'
    BY <1>3 DEF LoadFailed, Waits
<1>5. \A r \in Rooms : <<g[1], r>> \in Unattended(g) => r = Target(g)'
    <2>1. Target(g)' = Target(g)
        BY <1>1, <1>2 DEF Target, LoadFailed
    <2> QED
        BY <1>3, <2>1, ConstantsAssumption DEF Unattended
<1> QED
    BY <1>1, <1>2, <1>3, <1>4, <1>5, CallsKept, SavedKept, FailedStep DEF LoadFailed, IInv

LEMMA InitRoomStep == ASSUME IInv, NEW g \in Pages, InitRoom(g) PROVE IInv'
<1>1. page[g] \in Page /\ page[g].step = "load" /\ InRoomPage(g) /\ Target(g) \in SomeRoom
    BY TargetType DEF InitRoom, InRoomPage, RoomSteps, IInv, TypeOK
<1>2. /\ saved' \in [Participants -> SomeRoom]
      /\ \A p \in Participants : p # g[1] => saved'[p] = saved[p]
      /\ saved'[g[1]] = saved[g[1]]
    BY SavedKept DEF InitRoom, IInv
<1>3. /\ \A c \in Calls : ~Waits(g, c)
      /\ page[g].room = Nothing
      /\ page[g].asked \in Rooms => page[g].url = page[g].asked
      /\ page[g].asked = "new" =>
            \/ g[1] \in crowded
            \/ page[g].url = Nothing /\ page[g].session = Nothing /\ saved[g[1]] = Nothing
    BY <1>1 DEF IInv, PageOK, Blank, AsAsked, NothingOld
<1>4. /\ stray \subseteq stray' /\ stray' \subseteq Participants \X Rooms
      /\ UNCHANGED <<server, crowded, visits>>
    BY DEF InitRoom, aux, IInv, TypeOK
<1>5. \A r \in Rooms : <<g[1], r>> \in Unattended(g) => r = Target(g)
    BY <1>1, <1>3, ConstantsAssumption DEF Unattended
<1>6. PICK c \in Calls :
        /\ call[c] = Idle
        /\ IF Target(g) # Nothing
           THEN /\ Show(g, [page[g] EXCEPT !.step = "joining", !.room = Target(g)])
                /\ Send(c, g, "join", Target(g))
           ELSE /\ Show(g, [page[g] EXCEPT !.step = "creating"])
                /\ Send(c, g, "create", Nothing)
    BY DEF InitRoom
<1>7. CASE Target(g) # Nothing
    <2> DEFINE new == [page[g] EXCEPT !.step = "joining", !.room = Target(g)]
    <2>1. /\ new \in Page /\ new.step = "joining" /\ new.room = Target(g)
          /\ new.url = page[g].url /\ new.asked = page[g].asked
        BY <1>1 DEF Page, RoomSteps
    <2>2. Show(g, new) /\ page'[g] = new
        BY <1>6, <1>7 DEF Show, IInv, TypeOK
    <2> HIDE DEF new
    <2>3. Target(g) \in Rooms
        BY <1>1, <1>7 DEF SomeRoom
    <2>4. /\ call' = [d \in Calls |-> call'[d]] /\ Calling(g, {"join"}, Target(g))
          /\ call'[c].op = "join" /\ call'[c].room = Target(g) /\ call'[c].answer = "pending"
          /\ \A d \in Calls \ {c} : ~Waits(g, d)'
        <3>1. TypeOK /\ Send(c, g, "join", Target(g)) /\ call[c] = Idle
            BY <1>6, <1>7 DEF IInv
        <3> QED
            BY <1>1, <1>3, <3>1, SendOne
    <2>5. page[g].asked \in Rooms => Target(g) = page[g].asked
        BY <1>3, ConstantsAssumption DEF Target
    <2>6. page[g].asked = "new" => g[1] \in crowded
        BY <1>3, <1>7 DEF Target
    <2>7. Blank(g)' /\ AsAsked(g)' /\ NothingOld(g)'
        BY <1>3, <1>4, <2>1, <2>2, <2>4, <2>5, <2>6 DEF Blank, AsAsked, NothingOld
    <2>8. CallsFit(g)' /\ RoomFits(g)' /\ MadeFor(g)' /\ IsMember(g)' /\ IsOut(g)'
        BY <2>1, <2>2, <2>3, <2>4 DEF CallsFit, RoomFits, MadeFor, IsMember, IsOut
    <2>9. Accounted(g)
        BY <1>5, <2>1, <2>2 DEF Accounted, Attends, Unattended, InRoomPage, RoomSteps
    <2>10. PageOK(g)'
        BY <2>7, <2>8 DEF PageOK
    <2> QED
        BY <1>1, <1>2, <1>4, <2>1, <2>2, <2>3, <2>4, <2>9, <2>10, PageStep
<1>8. CASE Target(g) = Nothing
    <2> DEFINE new == [page[g] EXCEPT !.step = "creating"]
    <2>1. /\ new \in Page /\ new.step = "creating" /\ new.room = page[g].room
          /\ new.url = page[g].url /\ new.session = page[g].session
          /\ new.asked = page[g].asked
        BY <1>1 DEF Page, RoomSteps
    <2>2. Show(g, new) /\ page'[g] = new
        BY <1>6, <1>8 DEF Show, IInv, TypeOK
    <2> HIDE DEF new
    <2>3. /\ call' = [d \in Calls |-> call'[d]] /\ Calling(g, {"create"}, Nothing)
          /\ call'[c].op = "create" /\ call'[c].room = Nothing /\ call'[c].answer = "pending"
          /\ \A d \in Calls \ {c} : ~Waits(g, d)'
        <3>1. TypeOK /\ Send(c, g, "create", Nothing) /\ call[c] = Idle
            BY <1>6, <1>8 DEF IInv
        <3> QED
            BY <1>3, <3>1, SendOne DEF SomeRoom
    <2>4. Blank(g)' /\ AsAsked(g)' /\ NothingOld(g)'
        BY <1>2, <1>3, <1>4, <2>1, <2>2, <2>3 DEF Blank, AsAsked, NothingOld
    <2>5. CallsFit(g)' /\ RoomFits(g)' /\ MadeFor(g)' /\ IsMember(g)' /\ IsOut(g)'
        BY <1>3, <2>1, <2>2, <2>3 DEF CallsFit, RoomFits, MadeFor, IsMember, IsOut
    <2>6. Accounted(g)
        BY <1>5, <1>8, ConstantsAssumption DEF Accounted
    <2>7. PageOK(g)'
        BY <2>4, <2>5 DEF PageOK
    <2> QED
        BY <1>1, <1>2, <1>4, <2>1, <2>2, <2>3, <2>6, <2>7, PageStep DEF SomeRoom
<1> QED
    BY <1>7, <1>8

LEMMA JoinAnsweredStep == ASSUME IInv, NEW g \in Pages, JoinAnswered(g) PROVE IInv'
<1>1. page[g] \in Page /\ page[g].step = "joining" /\ InRoomPage(g) /\ PageOK(g)
    BY DEF JoinAnswered, InRoomPage, RoomSteps, IInv, TypeOK
<1>2. PICK c \in Calls :
        /\ Waits(g, c) /\ call[c].op = "join"
        /\ \/ /\ "ok" \in Seen(c)
              /\ Entered(g, call[c].room, FALSE)
              /\ Send(c, g, "token", call[c].room)
              /\ UNCHANGED stray
           \/ /\ GoHome(g)
              /\ stray' = stray \cup Unattended(g)
           \/ /\ Show(g, [page[g] EXCEPT !.step = "failed", !.url = Nothing,
                                         !.session = Nothing, !.asked = "any"])
              /\ Forget(g)
              /\ call' = Taken(c)
              /\ UNCHANGED stray
    BY DEF JoinAnswered
<1>3. UNCHANGED <<server, crowded, visits>>
    BY DEF JoinAnswered
<1>4. CASE /\ "ok" \in Seen(c)
           /\ Entered(g, call[c].room, FALSE)
           /\ Send(c, g, "token", call[c].room)
           /\ UNCHANGED stray
    <2>1. call[c].room \in Rooms
        BY <1>2 DEF IInv, CallsHaveRooms, Waits
    <2>2. call[c].answer = "ok"
        BY <1>4 DEF Seen
    <2> QED
        BY <1>1, <1>2, <1>3, <1>4, <2>1, <2>2, EnteredStep DEF aux
<1>5. CASE GoHome(g) /\ stray' = stray \cup Unattended(g)
    BY <1>1, <1>3, <1>5, GoHomeStep
<1>6. CASE /\ Show(g, [page[g] EXCEPT !.step = "failed", !.url = Nothing,
                                      !.session = Nothing, !.asked = "any"])
           /\ Forget(g)
           /\ call' = Taken(c)
           /\ UNCHANGED stray
    <2> DEFINE new == [page[g] EXCEPT !.step = "failed", !.url = Nothing,
                                      !.session = Nothing, !.asked = "any"]
    <2>1. /\ new \in Page /\ new.step = "failed" /\ new.asked = "any"
          /\ new.url = Nothing /\ new.session = Nothing
          /\ new.room = page[g].room /\ new.leave = page[g].leave
        BY <1>1 DEF Page, RoomSteps, SomeRoom
    <2>2. Show(g, new)
        BY <1>6
    <2> HIDE DEF new
    <2>3. /\ saved' \in [Participants -> SomeRoom]
          /\ \A p \in Participants : p # g[1] => saved'[p] = saved[p]
          /\ saved'[g[1]] = Nothing
        BY <1>6, Pairs DEF Forget, IInv, TypeOK, SomeRoom
    <2>4. /\ call' = [d \in Calls |-> call'[d]] /\ Calling(g, {}, Nothing)
          /\ \A d \in Calls : Waits(g, d)' => d # c /\ Waits(g, d) /\ call'[d] = call[d]
        BY <1>2, <1>6, TakenOne DEF IInv
    <2>5. \A d \in Calls : Waits(g, d) => call[d].op # "create" /\ (call[d].op = "join" => d = c)
        BY <1>1, <1>2 DEF PageOK, CallsFit
    <2>6. \A r \in Rooms : <<g[1], r>> \in Unattended(g) => r = page[g].room
        BY <1>1, <2>5 DEF Unattended
    <2> QED
        BY <1>1, <1>3, <1>6, <2>1, <2>2, <2>3, <2>4, <2>5, <2>6, FailedStep DEF aux
<1> QED
    BY <1>2, <1>4, <1>5, <1>6

\* A page that fails for want of an answer, or because the answer is an error.
LEMMA GivesUpStep ==
    ASSUME IInv, NEW g \in Pages, Failed(g), page[g].step \in {"creating", "token", "connecting"},
           call' = [c \in Calls |-> call'[c]], Calling(g, {}, Nothing),
           \A d \in Calls : Waits(g, d)' =>
                Waits(g, d) /\ call'[d] = call[d] /\ call[d].op # "create",
           \A d \in Calls : Waits(g, d) /\ call[d].op = "create" =>
                g[1] \in crowded \/ call[d].room = Nothing \/ <<g[1], call[d].room>> \in stray,
           UNCHANGED <<server, saved, aux, visits>>
    PROVE  IInv'
<1> DEFINE new == [page[g] EXCEPT !.step = "failed", !.asked = "any"]
<1>1. /\ new \in Page /\ new.step = "failed" /\ new.asked = "any"
      /\ new.room = page[g].room /\ new.leave = page[g].leave /\ new.url = page[g].url
    BY DEF IInv, TypeOK, Page, RoomSteps
<1>2. Show(g, new) /\ InRoomPage(g) /\ PageOK(g)
    BY DEF Failed, InRoomPage, RoomSteps, IInv
<1> HIDE DEF new
<1>3. new.room = Nothing \/ new.url = new.room
    BY <1>1, <1>2 DEF PageOK, RoomFits
<1>4. \A d \in Calls : Waits(g, d) => call[d].op # "join"
    BY <1>2 DEF PageOK, CallsFit
<1>5. \A r \in Rooms : <<g[1], r>> \in Unattended(g) =>
        g[1] \in crowded \/ <<g[1], r>> \in stray \/ r = page[g].room
    BY ConstantsAssumption DEF Unattended
<1> QED
    BY <1>1, <1>2, <1>3, <1>4, <1>5, SavedKept, FailedStep DEF IInv

LEMMA CreateAnsweredStep == ASSUME IInv, NEW g \in Pages, CreateAnswered(g) PROVE IInv'
<1>1. page[g].step = "creating" /\ PageOK(g)
    BY DEF CreateAnswered, IInv
<1>2. PICK c \in Calls :
        /\ Waits(g, c) /\ call[c].op = "create"
        /\ \/ /\ "ok" \in Seen(c)
              /\ Entered(g, call[c].room, TRUE)
              /\ Send(c, g, "token", call[c].room)
           \/ /\ "failed" \in Seen(c)
              /\ Failed(g)
              /\ call' = Taken(c)
              /\ UNCHANGED saved
    BY DEF CreateAnswered
<1>3. UNCHANGED <<server, aux, visits>>
    BY DEF CreateAnswered
<1>4. CASE /\ "ok" \in Seen(c)
           /\ Entered(g, call[c].room, TRUE)
           /\ Send(c, g, "token", call[c].room)
    <2>1. call[c].answer = "ok"
        BY <1>4 DEF Seen
    <2>2. call[c].room \in Rooms
        BY <1>2, <2>1 DEF IInv, CallsHaveRooms, Waits
    <2> QED
        BY <1>1, <1>2, <1>3, <1>4, <2>1, <2>2, EnteredStep
<1>5. CASE "failed" \in Seen(c) /\ Failed(g) /\ call' = Taken(c) /\ UNCHANGED saved
    <2>1. /\ call' = [d \in Calls |-> call'[d]] /\ Calling(g, {}, Nothing)
          /\ \A d \in Calls : Waits(g, d)' => d # c /\ Waits(g, d) /\ call'[d] = call[d]
        BY <1>2, <1>5, TakenOne DEF IInv
    <2>2. \A d \in Calls : Waits(g, d) /\ call[d].op = "create" => d = c
        BY <1>1, <1>2 DEF PageOK, CallsFit
    <2>3. g[1] \in crowded \/ call[c].room = Nothing \/ <<g[1], call[c].room>> \in stray
        BY <1>1, <1>2, <1>5 DEF PageOK, MadeFor, Seen
    <2> QED
        BY <1>1, <1>3, <1>5, <2>1, <2>2, <2>3, GivesUpStep
<1> QED
    BY <1>2, <1>4, <1>5

LEMMA TokenAnsweredStep == ASSUME IInv, NEW g \in Pages, TokenAnswered(g) PROVE IInv'
<1>1. page[g] \in Page /\ page[g].step = "token" /\ PageOK(g)
    BY DEF TokenAnswered, IInv, TypeOK
<1>2. PICK c \in Calls :
        /\ Waits(g, c)
        /\ \/ Show(g, [page[g] EXCEPT !.step = "connecting", !.media = TRUE])
           \/ Failed(g)
        /\ call' = Taken(c)
    BY DEF TokenAnswered
<1>3. /\ call' = [d \in Calls |-> call'[d]] /\ Calling(g, {}, Nothing)
      /\ \A d \in Calls : Waits(g, d)' => d # c /\ Waits(g, d) /\ call'[d] = call[d]
    BY <1>2, TakenOne DEF IInv
<1>4. UNCHANGED <<server, saved, aux, visits>>
    BY DEF TokenAnswered
<1>5. \A d \in Calls : Waits(g, d) => call[d].op # "create"
    BY <1>1 DEF PageOK, CallsFit
<1>6. CASE Show(g, [page[g] EXCEPT !.step = "connecting", !.media = TRUE])
    <2> DEFINE new == [page[g] EXCEPT !.step = "connecting", !.media = TRUE]
    <2>1. /\ new \in Page /\ new.step = "connecting"
          /\ new.url = page[g].url /\ new.session = page[g].session
          /\ new.room = page[g].room /\ new.asked = page[g].asked /\ new.leave = page[g].leave
        BY <1>1 DEF Page, RoomSteps
    <2>2. Show(g, new)
        BY <1>6
    <2> HIDE DEF new
    <2> QED
        BY <1>1, <1>3, <1>4, <1>5, <2>1, <2>2, OnwardStep DEF SomeRoom
<1> QED
    BY <1>1, <1>2, <1>3, <1>4, <1>5, <1>6, GivesUpStep

LEMMA ConnectedStep == ASSUME IInv, NEW g \in Pages, Connected(g) PROVE IInv'
<1>1. page[g] \in Page /\ page[g].step = "connecting" /\ PageOK(g)
    BY DEF Connected, IInv, TypeOK
<1>2. /\ call' = [d \in Calls |-> call'[d]] /\ Calling(g, {}, Nothing)
      /\ \A d \in Calls : call'[d] = call[d] /\ (Waits(g, d)' <=> Waits(g, d))
    BY CallsKept DEF Connected, IInv, Waits
<1>3. UNCHANGED <<server, saved, aux, visits>>
    BY DEF Connected
<1>4. \A d \in Calls : Waits(g, d) => call[d].op # "create"
    BY <1>1 DEF PageOK, CallsFit
<1>5. CASE Show(g, [page[g] EXCEPT !.step = "in"])
    <2> DEFINE new == [page[g] EXCEPT !.step = "in"]
    <2>1. /\ new \in Page /\ new.step = "in"
          /\ new.url = page[g].url /\ new.session = page[g].session
          /\ new.room = page[g].room /\ new.asked = page[g].asked /\ new.leave = page[g].leave
        BY <1>1 DEF Page, RoomSteps
    <2>2. Show(g, new)
        BY <1>5
    <2> HIDE DEF new
    <2> QED
        BY <1>1, <1>2, <1>3, <1>4, <2>1, <2>2, OnwardStep DEF SomeRoom
<1>6. CASE Failed(g)
    BY <1>1, <1>2, <1>3, <1>4, <1>6, GivesUpStep
<1> QED
    BY <1>5, <1>6 DEF Connected

\* The server is told of a leave, or the page knows no room and is left at once.
LEMMA NotifyStep ==
    ASSUME IInv, NEW g \in Pages, Notify(g), InRoomPage(g),
           UNCHANGED <<server, crowded, visits>>
    PROVE  IInv'
<1>1. page[g] \in Page /\ PageOK(g)
    BY DEF IInv, TypeOK
<1>2. CASE page[g].room = Nothing
    BY <1>2, GoHomeStep DEF Notify
<1>3. CASE page[g].room # Nothing
    <2> DEFINE new == [page[g] EXCEPT !.leave = "sent", !.media = FALSE]
    <2>1. PICK c \in Calls : call[c] = Idle /\ Send(c, g, "leave", page[g].room)
        BY <1>3 DEF Notify
    <2>2. Show(g, new) /\ UNCHANGED <<saved, stray>>
        BY <1>3 DEF Notify
    <2>3. page[g].step \notin {"menu", "load"}
        BY <1>1, <1>3 DEF PageOK, Blank
    <2>4. /\ new \in Page /\ new.step = page[g].step /\ new.leave = "sent"
          /\ new.url = page[g].url /\ new.session = page[g].session
          /\ new.room = page[g].room /\ new.asked = page[g].asked
        BY <1>1 DEF Page
    <2> HIDE DEF new
    <2>5. page[g].room \in Rooms
        BY <1>1, <1>3 DEF Page, SomeRoom
    <2>6. /\ call' = [d \in Calls |-> call'[d]] /\ Calling(g, {"leave"}, page[g].room)
          /\ \A d \in Calls \ {c} : call'[d] = call[d]
        <3>1. TypeOK /\ page[g].room \in SomeRoom
            BY <2>5 DEF IInv, SomeRoom
        <3> QED
            BY <2>1, <3>1, SendOne
    <2>7. \A d \in Calls : Waits(g, d) => call'[d] = call[d]
        BY <2>1, <2>6 DEF Waits
    <2> QED
        BY <2>2, <2>3, <2>4, <2>5, <2>6, <2>7, OnwardStep DEF aux, SomeRoom
<1> QED
    BY <1>2, <1>3

LEMMA LeaveClickStep == ASSUME IInv, NEW g \in Pages, LeaveClick(g) PROVE IInv'
<1>1. page[g] \in Page /\ UNCHANGED <<server, crowded, visits>>
    BY DEF LeaveClick, IInv, TypeOK
<1>2. CASE page[g].media
    <2> DEFINE new == [page[g] EXCEPT !.leave = "disconnecting"]
    <2>1. Show(g, new) /\ UNCHANGED <<saved, call, stray>>
        BY <1>2 DEF LeaveClick
    <2>2. page[g].step \notin {"menu", "load"}
        BY <1>2 DEF IInv, PageOK, Blank
    <2>3. /\ new \in Page /\ new.step = page[g].step /\ new.leave = "disconnecting"
          /\ new.url = page[g].url /\ new.session = page[g].session
          /\ new.room = page[g].room /\ new.asked = page[g].asked
        BY <1>1 DEF Page
    <2>4. call' = [d \in Calls |-> call'[d]] /\ Calling(g, {}, Nothing)
        BY <2>1, CallsKept DEF IInv
    <2> HIDE DEF new
    <2> QED
        BY <1>1, <2>1, <2>2, <2>3, <2>4, OnwardStep DEF aux, SomeRoom
<1>3. CASE ~page[g].media
    BY <1>1, <1>3, NotifyStep DEF LeaveClick
<1> QED
    BY <1>2, <1>3

LEMMA LeaveDisconnectedStep == ASSUME IInv, NEW g \in Pages, LeaveDisconnected(g) PROVE IInv'
<1>1. InRoomPage(g)
    BY DEF LeaveDisconnected, IInv, TypeOK, PageOK, Blank, Page, InRoomPage
<1> QED
    BY <1>1, NotifyStep DEF LeaveDisconnected

LEMMA LeaveAnsweredStep == ASSUME IInv, NEW g \in Pages, LeaveAnswered(g) PROVE IInv'
<1>1. PICK c \in Calls :
        /\ Waits(g, c) /\ call[c].op = "leave"
        /\ GoHome(g)
        /\ stray' = IF Seen(c) = {"failed"} THEN stray \cup Unattended(g) ELSE stray
    BY DEF LeaveAnswered
<1>2. InRoomPage(g)
    BY <1>1, WaitsInRoom
<1>3. CASE Seen(c) # {"failed"}
    <2>1. call[c].answer = "ok"
        <3>1. call[c] \in Call /\ call[c].answer # "refused"
            BY <1>1 DEF IInv, TypeOK, CallsHaveRooms, Waits
        <3> QED
            BY <1>3, <3>1 DEF Seen, Call
    <2>2. \A r \in Rooms : g[1] \in crowded \/ <<g[1], r>> \in stray \/ g[1] \notin members[r]
        BY <1>1, <2>1 DEF IInv, PageOK, IsOut
    <2> QED
        BY <1>1, <1>2, <1>3, <2>2, GoHomeStep DEF LeaveAnswered
<1> QED
    BY <1>1, <1>2, <1>3, GoHomeStep DEF LeaveAnswered

-----------------------------------------------------------------------------
(* The server. *)

\* A request is waited for by one page, or by none.
LEMMA Whose ==
    ASSUME IInv, NEW c \in Calls, call[c] # Idle
    PROVE  /\ call[c].who \in Participants /\ call[c].room \in SomeRoom
           /\ \A g \in Pages : Waits(g, c) =>
                ~Orphan(c) /\ g = <<call[c].who, call[c].tab>> /\ g[1] = call[c].who
           /\ ~Orphan(c) =>
                /\ <<call[c].who, call[c].tab>> \in Pages
                /\ Waits(<<call[c].who, call[c].tab>>, c)
<1>1. call[c] \in Call
    BY DEF IInv, TypeOK
<1> QED
    BY <1>1, Pairs, ConstantsAssumption DEF Call, Waits, Orphan

\* A browser with two pages in rooms is crowded.
LEMMA TwoPages ==
    ASSUME IInv, NEW g \in Pages, NEW h \in Pages, g # h, g[1] = h[1],
           InRoomPage(g), InRoomPage(h)
    PROVE  g[1] \in crowded
<1>1. /\ g = <<g[1], g[2]>> /\ h = <<g[1], h[2]>> /\ g[2] # h[2]
      /\ g[1] \in Participants /\ g[2] \in Tabs /\ h[2] \in Tabs
    BY Pairs
<1> QED
    BY <1>1 DEF IInv, CrowdsAreSeen

\* What an answer does to the requests.
LEMMA Replied ==
    ASSUME IInv, NEW c \in Calls, call[c] # Idle, NEW r \in SomeRoom,
           NEW answer \in {"ok", "refused", "failed"}, Reply(c, answer, r),
           call[c].op = "create" /\ answer = "ok" => r \in Rooms,
           call[c].op \in {"join", "leave"} => r = call[c].room,
           call[c].op = "leave" => answer # "refused"
    PROVE  /\ call' \in [Calls -> Call \cup {Idle}]
           /\ CallsHaveRooms'
           /\ \A d \in Calls \ {c} : call'[d] = call[d]
           /\ \A d \in Calls, g \in Pages : Waits(g, d)' <=> Waits(g, d)
           /\ \A g \in Pages : Waits(g, c) =>
                /\ call'[c].op = call[c].op /\ call'[c].room = r
                /\ call'[c].answer = answer
<1>1. call[c] \in Call
    BY DEF IInv, TypeOK
<1>2. /\ call' \in [Calls -> Call \cup {Idle}]
      /\ \A d \in Calls : d # c => call'[d] = call[d]
      /\ \/ Orphan(c) /\ call'[c] = Idle
         \/ /\ ~Orphan(c) /\ call'[c] \in Call
            /\ call'[c].who = call[c].who /\ call'[c].tab = call[c].tab
            /\ call'[c].op = call[c].op /\ call'[c].room = r /\ call'[c].answer = answer
    BY <1>1 DEF Reply, IInv, TypeOK, Call
<1>3. CallsHaveRooms'
    BY <1>2 DEF IInv, CallsHaveRooms
<1>4. call'[c] \in Call => call'[c] # Idle
    BY DEF Call, Idle
<1>5. \A g \in Pages : Waits(g, c) => ~Orphan(c)
    BY Whose
<1>6. \A d \in Calls, g \in Pages : Waits(g, d)' <=> Waits(g, d)
    BY <1>2, <1>4, <1>5, Whose DEF Waits
<1> QED
    BY <1>2, <1>3, <1>5, <1>6

\* What is left to show of a step of the server is about who is in the rooms.
LEMMA ServerStep ==
    ASSUME IInv, NEW c \in Calls, call[c] # Idle, NEW r \in SomeRoom,
           NEW answer \in {"ok", "refused", "failed"}, Reply(c, answer, r),
           call[c].op = "create" /\ answer = "ok" => r \in Rooms,
           call[c].op \in {"join", "leave"} => r = call[c].room,
           call[c].op = "leave" => answer # "refused",
           UNCHANGED <<page, saved, crowded, visits>>,
           state' \in [Rooms -> {"none", "open", "closed"}],
           members' \in [Rooms -> SUBSET (Participants \cup Guests)],
           stray' \subseteq Participants \X Rooms,
           NoneIsEmpty', Attended',
           \A g \in Pages : MadeFor(g)' /\ IsMember(g)' /\ IsOut(g)'
    PROVE  IInv'
<1>1. /\ call' \in [Calls -> Call \cup {Idle}]
      /\ CallsHaveRooms'
      /\ \A d \in Calls, g \in Pages : Waits(g, d)' =>
            /\ Waits(g, d) /\ call'[d].op = call[d].op
            /\ call'[d].op \in {"join", "leave"} => call'[d].room = call[d].room
    BY Replied
<1>2. TypeOK'
    BY <1>1 DEF IInv, TypeOK
<1>3. CrowdsAreSeen'
    BY DEF IInv, CrowdsAreSeen, InRoomPage
<1>4. ASSUME NEW g \in Pages PROVE PageOK(g)'
    <2>1. PageOK(g)
        BY DEF IInv
    <2>2. Blank(g)' /\ AsAsked(g)' /\ NothingOld(g)'
        BY <1>1, <2>1 DEF PageOK, Blank, AsAsked, NothingOld, InRoomPage
    <2>3. CallsFit(g)' /\ RoomFits(g)'
        BY <1>1, <2>1 DEF PageOK, CallsFit, RoomFits
    <2> QED
        BY <2>2, <2>3 DEF PageOK
<1> QED
    BY <1>1, <1>2, <1>3, <1>4 DEF IInv

\* An answer takes no page away from the rooms it attends, but for a room that it
\* was told of before.
LEMMA AttendsStays ==
    ASSUME IInv, NEW c \in Calls, NEW g \in Pages, NEW x \in Rooms, Attends(g, x),
           UNCHANGED <<page, saved>>,
           \A d \in Calls \ {c} : call'[d] = call[d],
           Waits(g, c)' <=> Waits(g, c),
           Waits(g, c) /\ call[c].op = "create" =>
                call'[c].op = "create" /\ (call'[c].room = call[c].room \/ call[c].room # x)
    PROVE  Attends(g, x)'
<1>1. Target(g)' = Target(g) /\ (InRoomPage(g)' <=> InRoomPage(g))
    BY DEF Target, InRoomPage
<1>2. ASSUME NEW d \in Calls, Waits(g, d), call[d].op = "create", call[d].room = x
      PROVE  Waits(g, d)' /\ call'[d].op = "create" /\ call'[d].room = x
    BY <1>2 DEF Waits
<1> QED
    BY <1>1, <1>2 DEF Attends, Unattended

\* An answer that says that nothing was done, while nothing was.
LEMMA QuietReply ==
    ASSUME IInv, NEW c \in Calls, call[c] # Idle, call[c].answer = "pending",
           NEW answer \in {"ok", "refused", "failed"}, Reply(c, answer, call[c].room),
           answer = "ok" => call[c].op = "token",
           answer = "refused" => call[c].op # "leave",
           UNCHANGED <<page, saved, crowded, visits, server, stray>>
    PROVE  IInv'
<1>1. /\ \A d \in Calls \ {c} : call'[d] = call[d]
      /\ \A d \in Calls, g \in Pages : Waits(g, d)' <=> Waits(g, d)
      /\ \A g \in Pages : Waits(g, c) =>
            /\ call'[c].op = call[c].op /\ call'[c].room = call[c].room
            /\ call'[c].answer = answer
    <2>1. call[c].room \in SomeRoom
        BY Whose
    <2> QED
        BY <2>1, Replied
<1>2. ASSUME NEW g \in Pages PROVE MadeFor(g)' /\ IsMember(g)' /\ IsOut(g)'
    <2>1. PageOK(g)
        BY DEF IInv
    <2>2. MadeFor(g)'
        BY <1>1, <2>1 DEF PageOK, MadeFor
    <2>3. IsMember(g)' /\ IsOut(g)'
        BY <1>1, <2>1 DEF PageOK, IsMember, IsOut, server
    <2> QED
        BY <2>2, <2>3
<1>3. Attended'
    <2>1. ASSUME NEW p \in Participants, NEW x \in Rooms, NEW t \in Tabs, Attends(<<p, t>>, x)
          PROVE  Attends(<<p, t>>, x)'
        <3>1. <<p, t>> \in Pages
            BY Pairs
        <3> QED
            BY <1>1, <2>1, <3>1, AttendsStays
    <2> QED
        BY <2>1 DEF IInv, Attended, server
<1>4. NoneIsEmpty'
    BY DEF IInv, NoneIsEmpty, server
<1>5. call[c].room \in SomeRoom
    BY Whose
<1> QED
    BY <1>2, <1>3, <1>4, <1>5, ServerStep DEF server, IInv, TypeOK

\* Somebody comes into room r by request c: the page that waits for it will account
\* for that, or it is noted as stray.
LEMMA EnterKeeps ==
    ASSUME IInv, NEW c \in Calls, call[c] # Idle, call[c].answer = "pending",
           call[c].op \in {"create", "join"}, NEW r \in Rooms,
           NEW answer \in {"ok", "failed"}, Reply(c, answer, r),
           call[c].op = "join" => r = call[c].room,
           UNCHANGED <<page, saved, crowded, visits>>,
           state' \in [Rooms -> {"none", "open", "closed"}],
           members' \in [Rooms -> SUBSET (Participants \cup Guests)],
           \A x \in Rooms \ {r} : state'[x] = state[x] /\ members'[x] = members[x],
           state'[r] # "none", members[r] \subseteq members'[r],
           members'[r] \subseteq members[r] \cup {call[c].who},
           \/ stray' = stray \cup {<<call[c].who, r>>}
           \/ /\ stray' = stray /\ ~Orphan(c) /\ call[c].who \in members'[r]
              /\ call[c].op = "create" => answer = "ok"
              /\ call[c].op = "join" => page[<<call[c].who, call[c].tab>>].leave = "no"
    PROVE  IInv'
<1> DEFINE p == call[c].who
           g0 == <<call[c].who, call[c].tab>>
<1>1. /\ p \in Participants
      /\ \A g \in Pages : Waits(g, c) => ~Orphan(c) /\ g = g0 /\ g[1] = p
      /\ ~Orphan(c) => g0 \in Pages /\ Waits(g0, c)
    BY Whose
<1>2. /\ \A d \in Calls \ {c} : call'[d] = call[d]
      /\ \A d \in Calls, g \in Pages : Waits(g, d)' <=> Waits(g, d)
      /\ \A g \in Pages : Waits(g, c) =>
            /\ call'[c].op = call[c].op /\ call'[c].room = r
            /\ call'[c].answer = answer
    BY Replied DEF SomeRoom
<1>3. stray \subseteq stray' /\ stray' \subseteq Participants \X Rooms
    BY <1>1 DEF IInv, TypeOK
<1>4. <<p, r>> \in stray' \/ (p \in members'[r] /\ ~Orphan(c) /\ stray' = stray)
    OBVIOUS
<1>5. \A x \in Rooms : members[x] \subseteq members'[x]
    OBVIOUS
<1> HIDE DEF p, g0
<1>6. ASSUME NEW g \in Pages PROVE MadeFor(g)' /\ IsMember(g)' /\ IsOut(g)'
    <2>1. PageOK(g)
        BY DEF IInv
    <2>2. MadeFor(g)'
        <3>1. Waits(g, c) /\ call[c].op = "create" =>
                call'[c].answer # "pending" /\ (answer # "ok" => <<g[1], r>> \in stray')
            BY <1>1, <1>2 DEF p
        <3> QED
            BY <1>2, <1>3, <2>1, <3>1 DEF PageOK, MadeFor
    <2>3. IsMember(g)'
        <3>1. page[g].step \in {"token", "connecting", "in"} => page[g].room \in Rooms
            BY <2>1 DEF PageOK, RoomFits
        <3>2. Waits(g, c) => <<g[1], r>> \in stray' \/ g[1] \in members'[r]
            BY <1>1, <1>4
        <3>3. \A d \in Calls : Waits(g, d) /\ call[d].op \in {"join", "create"}
                    /\ call[d].answer = "ok" => call[d].room \in Rooms
            BY DEF IInv, CallsHaveRooms, Waits
        <3> QED
            BY <1>2, <1>3, <1>5, <2>1, <3>1, <3>2, <3>3 DEF PageOK, IsMember
    <2>4. IsOut(g)'
        <3> SUFFICES ASSUME NEW d \in Calls, Waits(g, d), d # c,
                            call[d].op = "leave", call[d].answer = "ok",
                            NEW x \in Rooms, g[1] \notin crowded, <<g[1], x>> \notin stray',
                            g[1] \in members'[x]
                     PROVE  FALSE
            BY <1>2 DEF IsOut
        <3>1. g[1] \notin members[x]
            BY <1>3, <2>1 DEF PageOK, IsOut
        <3>2. x = r /\ g[1] = p
            BY <3>1 DEF p
        <3>3. ~Orphan(c) /\ g0 \in Pages /\ Waits(g0, c) /\ g0[1] = p
            BY <1>1, <1>4, <3>2 DEF g0, p
        <3>4. InRoomPage(g) /\ InRoomPage(g0)
            BY <3>3, WaitsInRoom
        <3>5. g = g0
            BY <3>2, <3>3, <3>4, TwoPages
        <3>6. page[g].leave # "no" /\ page[g].room \in Rooms
            BY <2>1 DEF PageOK, CallsFit, IInv, CallsHaveRooms, Waits
        <3>7. call[c].op = "join"
            BY <2>1, <3>3, <3>5, <3>6, ConstantsAssumption DEF PageOK, CallsFit, RoomFits
        <3> QED
            BY <3>2, <3>5, <3>6, <3>7 DEF g0, p
    <2> QED
        BY <2>2, <2>3, <2>4
<1>7. Attended'
    <2> SUFFICES ASSUME NEW q \in Participants, NEW x \in Rooms, q \in members'[x],
                        q \notin crowded, <<q, x>> \notin stray'
                 PROVE  \E t \in Tabs : Attends(<<q, t>>, x)'
        BY DEF Attended
    <2>1. CASE q \in members[x]
        <3>1. PICK t \in Tabs : Attends(<<q, t>>, x)
            BY <1>3, <2>1 DEF IInv, Attended
        <3>2. <<q, t>> \in Pages /\ <<q, t>>[1] = q
            BY Pairs
        <3>3. Waits(<<q, t>>, c) /\ call[c].op = "create" => call[c].room # x
            BY <3>2, ConstantsAssumption DEF IInv, PageOK, MadeFor
        <3>4. Waits(<<q, t>>, c) => call'[c].op = call[c].op
            BY <1>2, <3>2
        <3> QED
            BY <1>2, <3>1, <3>2, <3>3, <3>4, AttendsStays
    <2>2. CASE q \notin members[x]
        <3>1. x = r /\ q = p
            BY <2>2 DEF p
        <3>2. PICK t \in Tabs : <<q, t>> \in Pages /\ Waits(<<q, t>>, c)
            BY <1>1, <1>4, <3>1, Pairs DEF p
        <3> DEFINE g == <<q, t>>
        <3>3. InRoomPage(g)'
            BY <3>2, WaitsInRoom DEF InRoomPage
        <3>4. x \in {page'[g].room}
                    \cup {call'[d].room : d \in {e \in Calls : Waits(g, e)' /\ call'[e].op = "create"}}
            <4>1. CASE call[c].op = "create"
                BY <1>2, <3>1, <3>2, <4>1
            <4>2. CASE call[c].op = "join"
                BY <3>1, <3>2, <4>2 DEF IInv, PageOK, CallsFit
            <4> QED
                BY <4>1, <4>2
        <3>5. <<q, x>> \in Unattended(g)'
            BY <3>4 DEF Unattended
        <3> QED
            BY <3>2, <3>3, <3>5 DEF Attends
    <2> QED
        BY <2>1, <2>2
<1>8. NoneIsEmpty'
    BY DEF IInv, NoneIsEmpty
<1> QED
    BY <1>3, <1>6, <1>7, <1>8, ServerStep DEF SomeRoom

\* A Leave: whoever it is answered to is in no room any more, and a page that is
\* still in a room is another one's.
LEMMA ServeLeaveKeeps ==
    ASSUME IInv, NEW c \in Calls, call[c] # Idle, call[c].answer = "pending", ServeLeave(c),
           UNCHANGED <<page, saved, crowded, visits>>
    PROVE  IInv'
<1> DEFINE p == call[c].who
           r == call[c].room
<1>1. /\ call[c].op = "leave" /\ Reply(c, "ok", r) /\ r \in Rooms /\ p \in Participants
      /\ \A g \in Pages : Waits(g, c) => ~Orphan(c) /\ g[1] = p
    BY Whose DEF ServeLeave, IInv, CallsHaveRooms
<1>2. /\ \A d \in Calls \ {c} : call'[d] = call[d]
      /\ \A d \in Calls, g \in Pages : Waits(g, d)' <=> Waits(g, d)
      /\ \A g \in Pages : Waits(g, c) =>
            /\ call'[c].op = call[c].op /\ call'[c].room = r
            /\ call'[c].answer = "ok"
    BY <1>1, Replied DEF SomeRoom
<1>3. /\ state' \in [Rooms -> {"none", "open", "closed"}]
      /\ members' \in [Rooms -> SUBSET (Participants \cup Guests)]
      /\ \A x \in Rooms : /\ members'[x] = IF x = r THEN members[x] \ {p} ELSE members[x]
                          /\ state'[x] = "none" => state[x] = "none"
    BY <1>1 DEF ServeLeave, Server!Depart, IInv, TypeOK
<1>4. /\ stray' \subseteq Participants \X Rooms
      /\ \A y \in stray : y # <<p, r>> => y \in stray'
      /\ Orphan(c) => stray \subseteq stray' /\ <<p, r>> \in stray'
    BY <1>1 DEF ServeLeave, IInv, TypeOK
<1>5. ASSUME NEW g \in Pages, InRoomPage(g), g[1] = p, g[1] \notin crowded
      PROVE  Orphan(c) \/ Waits(g, c)
    <2>1. CASE ~Orphan(c)
        <3> DEFINE h == <<call[c].who, call[c].tab>>
        <3>1. h \in Pages /\ Waits(h, c) /\ h[1] = p
            BY <2>1, Whose
        <3>2. InRoomPage(h)
            BY <3>1, WaitsInRoom
        <3>3. g = h
            BY <1>5, <3>1, <3>2, TwoPages
        <3> QED
            BY <3>1, <3>3
    <2> QED
        BY <2>1
<1> HIDE DEF p, r
<1>6. ASSUME NEW g \in Pages PROVE MadeFor(g)' /\ IsMember(g)' /\ IsOut(g)'
    <2>1. PageOK(g)
        BY DEF IInv
    <2>2. MadeFor(g)'
        <3> SUFFICES ASSUME NEW d \in Calls, Waits(g, d), d # c, call[d].op = "create",
                            g[1] \notin crowded
                     PROVE  /\ call[d].answer = "pending" => call[d].room = Nothing
                            /\ call[d].answer # "ok" =>
                                call[d].room = Nothing \/ <<g[1], call[d].room>> \in stray'
            BY <1>1, <1>2 DEF MadeFor
        <3>1. /\ call[d].answer = "pending" => call[d].room = Nothing
              /\ call[d].answer # "ok" =>
                    call[d].room = Nothing \/ <<g[1], call[d].room>> \in stray
            BY <2>1 DEF PageOK, MadeFor
        <3>2. CASE g[1] = p
            <4>1. InRoomPage(g) /\ page[g].room = Nothing
                BY <2>1, WaitsInRoom DEF PageOK, CallsFit, RoomFits
            <4>2. ~Waits(g, c)
                BY <1>1, <2>1, <4>1, ConstantsAssumption DEF PageOK, CallsFit, r
            <4> QED
                BY <1>4, <1>5, <3>1, <3>2, <4>1, <4>2
        <3>3. CASE g[1] # p
            BY <1>4, <3>1, <3>3
        <3> QED
            BY <3>2, <3>3
    <2>3. IsMember(g)'
        <3>1. ASSUME page[g].leave = "no", g[1] \notin crowded, InRoomPage(g),
                     NEW x \in Rooms, <<g[1], x>> \in stray \/ g[1] \in members[x]
              PROVE  <<g[1], x>> \in stray' \/ g[1] \in members'[x]
            <4>1. CASE g[1] = p /\ x = r
                <5>1. ~Waits(g, c)
                    BY <1>1, <2>1, <3>1 DEF PageOK, CallsFit
                <5> QED
                    BY <1>4, <1>5, <3>1, <4>1, <5>1
            <4>2. CASE g[1] # p \/ x # r
                BY <1>3, <1>4, <3>1, <4>2
            <4> QED
                BY <4>1, <4>2
        <3>2. page[g].step \in {"token", "connecting", "in"} =>
                page[g].room \in Rooms /\ InRoomPage(g)
            BY <2>1 DEF PageOK, RoomFits, InRoomPage, RoomSteps
        <3>3. \A d \in Calls : Waits(g, d) /\ call[d].op \in {"join", "create"}
                    /\ call[d].answer = "ok" => call[d].room \in Rooms /\ InRoomPage(g)
            BY WaitsInRoom DEF IInv, CallsHaveRooms, Waits
        <3>4. \A d \in Calls : Waits(g, d)' /\ call'[d].op \in {"join", "create"}
                => d # c /\ Waits(g, d) /\ call'[d] = call[d]
            BY <1>1, <1>2
        <3> QED
            BY <2>1, <3>1, <3>2, <3>3, <3>4 DEF PageOK, IsMember
    <2>4. IsOut(g)'
        <3> SUFFICES ASSUME NEW d \in Calls, Waits(g, d), call[d].op = "leave",
                            d # c => call[d].answer = "ok",
                            NEW x \in Rooms, g[1] \notin crowded, <<g[1], x>> \notin stray',
                            g[1] \in members'[x]
                     PROVE  FALSE
            BY <1>1, <1>2 DEF IsOut
        <3>1. ~(g[1] = p /\ x = r) /\ g[1] \in members[x] /\ <<g[1], x>> \notin stray
            BY <1>3, <1>4
        <3>2. d = c
            BY <2>1, <3>1 DEF PageOK, IsOut
        <3>3. g[1] = p /\ page[g].room = r /\ x # r
            BY <1>1, <2>1, <3>1, <3>2 DEF PageOK, CallsFit, r
        <3>4. g[1] \in Participants /\ g = <<g[1], g[2]>>
            BY Pairs
        <3>5. PICK t \in Tabs : Attends(<<g[1], t>>, x)
            BY <3>1, <3>4 DEF IInv, Attended
        <3>6. <<g[1], t>> = g
            <4>1. <<g[1], t>> \in Pages /\ <<g[1], t>>[1] = g[1]
                BY <3>4, Pairs
            <4>2. InRoomPage(g) /\ InRoomPage(<<g[1], t>>)
                BY <3>5, WaitsInRoom DEF Attends
            <4> QED
                BY <4>1, <4>2, TwoPages
        <3>7. x \notin {call[e].room : e \in {f \in Calls : Waits(g, f) /\ call[f].op = "create"}}
            BY <1>1, <2>1, <3>3, ConstantsAssumption DEF PageOK, CallsFit, RoomFits
        <3>8. page[g].step \in {"load", "failed"} => x # Target(g)
            <4>1. page[g].step # "load"
                BY WaitsInRoom
            <4>2. CASE page[g].step = "failed"
                <5>1. \/ page[g].url = r
                      \/ page[g].url = Nothing /\ page[g].session = Nothing /\ saved[g[1]] = Nothing
                    BY <1>1, <2>1, <3>3, <4>2, ConstantsAssumption DEF PageOK, RoomFits
                <5> QED
                    BY <1>1, <3>3, <5>1, ConstantsAssumption DEF Target
            <4> QED
                BY <4>1, <4>2
        <3> QED
            BY <3>3, <3>5, <3>6, <3>7, <3>8 DEF Attends, Unattended
    <2> QED
        BY <2>2, <2>3, <2>4
<1>7. Attended'
    <2> SUFFICES ASSUME NEW q \in Participants, NEW x \in Rooms, q \in members'[x],
                        q \notin crowded, <<q, x>> \notin stray'
                 PROVE  \E t \in Tabs : Attends(<<q, t>>, x)'
        BY DEF Attended
    <2>1. q \in members[x] /\ <<q, x>> \notin stray
        BY <1>3, <1>4
    <2>2. PICK t \in Tabs : Attends(<<q, t>>, x)
        BY <2>1 DEF IInv, Attended
    <2>3. <<q, t>> \in Pages
        BY Pairs
    <2> QED
        BY <1>1, <1>2, <2>2, <2>3, AttendsStays
<1>8. NoneIsEmpty'
    BY <1>3 DEF IInv, NoneIsEmpty
<1> QED
    BY <1>1, <1>3, <1>4, <1>6, <1>7, <1>8, ServerStep DEF SomeRoom, r

LEMMA ServeStep == ASSUME IInv, NEW c \in Calls, Serve(c) PROVE IInv'
<1>1. /\ call[c] # Idle /\ call[c].answer = "pending"
      /\ UNCHANGED <<page, saved, crowded, visits>>
    BY DEF Serve
<1>2. call[c].who \in Participants /\ call[c].room \in SomeRoom
    BY <1>1, Whose
<1>3. CASE ServeCreate(c)
    <2>1. PICK r \in Fresh, M \in {{call[c].who}, {}}, answer \in {"ok", "failed"} :
            /\ Server!Open(r, M)
            /\ Reply(c, answer, r)
            /\ Past(c, r, Orphan(c) \/ answer = "failed" \/ M = {})
        BY <1>3 DEF ServeCreate
    <2>2. r \in Rooms /\ members[r] = {} /\ call[c].op = "create"
        BY <1>3 DEF Fresh, IInv, NoneIsEmpty, ServeCreate
    <2>3. /\ state' \in [Rooms -> {"none", "open", "closed"}]
          /\ members' \in [Rooms -> SUBSET (Participants \cup Guests)]
          /\ \A x \in Rooms \ {r} : state'[x] = state[x] /\ members'[x] = members[x]
          /\ state'[r] = "open" /\ members'[r] = M
        BY <1>2, <2>1, <2>2 DEF Server!Open, IInv, TypeOK
    <2>4. \/ stray' = stray \cup {<<call[c].who, r>>}
          \/ stray' = stray /\ ~Orphan(c) /\ answer = "ok" /\ M = {call[c].who}
        BY <2>1 DEF Past
    <2> QED
        BY <1>1, <2>1, <2>2, <2>3, <2>4, EnterKeeps
<1>4. CASE ServeJoin(c)
    <2>1. call[c].room \in Rooms /\ call[c].op = "join"
        BY <1>1, <1>4 DEF ServeJoin, IInv, CallsHaveRooms
    <2>2. CASE state[call[c].room] = "open"
        <3> DEFINE r == call[c].room
        <3>1. PICK answer \in {"ok", "failed"} :
                /\ Server!Enter(r, call[c].who)
                /\ Reply(c, answer, r)
                /\ Past(c, r, Orphan(c) \/ page[<<call[c].who, call[c].tab>>].leave # "no")
            BY <1>4, <2>2 DEF ServeJoin
        <3>2. /\ state' \in [Rooms -> {"none", "open", "closed"}]
              /\ members' \in [Rooms -> SUBSET (Participants \cup Guests)]
              /\ \A x \in Rooms \ {r} : state'[x] = state[x] /\ members'[x] = members[x]
              /\ state'[r] = "open" /\ members'[r] = members[r] \cup {call[c].who}
            BY <1>2, <2>1, <2>2, <3>1 DEF Server!Enter, IInv, TypeOK
        <3>3. \/ stray' = stray \cup {<<call[c].who, r>>}
              \/ /\ stray' = stray /\ ~Orphan(c)
                 /\ page[<<call[c].who, call[c].tab>>].leave = "no"
            BY <3>1 DEF Past
        <3> QED
            BY <1>1, <2>1, <3>1, <3>2, <3>3, EnterKeeps
    <2>3. CASE state[call[c].room] # "open"
        <3>1. Reply(c, "refused", call[c].room) /\ UNCHANGED <<server, stray>>
            BY <1>4, <2>3 DEF ServeJoin
        <3> QED
            BY <1>1, <2>1, <3>1, QuietReply
    <2> QED
        BY <2>2, <2>3
<1>5. CASE ServeToken(c)
    <2>1. PICK answer \in {"ok", "refused"} : Reply(c, answer, call[c].room)
        BY <1>5 DEF ServeToken
    <2> QED
        BY <1>1, <1>5, <2>1, QuietReply DEF ServeToken
<1>6. CASE ServeLeave(c)
    BY <1>1, <1>6, ServeLeaveKeeps
<1> QED
    BY <1>3, <1>4, <1>5, <1>6 DEF Serve

LEMMA FailStep == ASSUME IInv, NEW c \in Calls, Fail(c) PROVE IInv'
<1>1. PICK answer \in {"refused", "failed"} :
        Reply(c, answer, call[c].room) /\ (answer = "refused" => call[c].op = "join")
    BY DEF Fail
<1> QED
    BY <1>1, QuietReply DEF Fail, aux

\* The others open rooms nobody is in, and depart by themselves.
LEMMA ElsewhereStep == ASSUME IInv, Elsewhere PROVE IInv'
<1>1. PICK o \in Guests, r \in Rooms : Server!Open(r, {o}) \/ Server!Depart(r, o)
    BY DEF Elsewhere
<1>2. UNCHANGED <<page, saved, call, visits, aux>>
    BY DEF Elsewhere
<1>3. o \notin Participants
    BY ConstantsAssumption
<1>4. /\ state' \in [Rooms -> {"none", "open", "closed"}]
      /\ members' \in [Rooms -> SUBSET (Participants \cup Guests)]
      /\ NoneIsEmpty'
      /\ \A p \in Participants, x \in Rooms : p \in members'[x] <=> p \in members[x]
    <2>1. CASE Server!Open(r, {o})
        <3>1. members[r] = {}
            BY <2>1 DEF Server!Open, IInv, NoneIsEmpty
        <3> QED
            BY <1>3, <2>1, <3>1 DEF Server!Open, IInv, TypeOK, NoneIsEmpty
    <2>2. CASE Server!Depart(r, o)
        BY <1>3, <2>2 DEF Server!Depart, IInv, TypeOK, NoneIsEmpty
    <2> QED
        BY <1>1, <2>1, <2>2
<1>5. TypeOK' /\ CallsHaveRooms' /\ CrowdsAreSeen'
    BY <1>2, <1>4 DEF aux, IInv, TypeOK, CallsHaveRooms, CrowdsAreSeen, InRoomPage
<1>6. \A g \in Pages, c \in Calls : Waits(g, c)' <=> Waits(g, c)
    BY <1>2 DEF Waits
<1>7. \A g \in Pages : Target(g)' = Target(g) /\ (InRoomPage(g)' <=> InRoomPage(g))
    BY <1>2 DEF Target, InRoomPage
<1>8. ASSUME NEW g \in Pages PROVE PageOK(g)'
    <2>1. PageOK(g) /\ g[1] \in Participants
        BY Pairs DEF IInv
    <2>2. Blank(g)' /\ AsAsked(g)' /\ NothingOld(g)'
        BY <1>2, <1>6, <1>7, <2>1 DEF PageOK, Blank, AsAsked, NothingOld, aux
    <2>3. CallsFit(g)' /\ RoomFits(g)' /\ MadeFor(g)'
        BY <1>2, <1>6, <2>1 DEF PageOK, CallsFit, RoomFits, MadeFor, aux
    <2>4. IsMember(g)'
        <3>1. page[g].step \in {"token", "connecting", "in"} => page[g].room \in Rooms
            BY <2>1 DEF PageOK, RoomFits
        <3>2. \A d \in Calls : Waits(g, d) /\ call[d].op \in {"join", "create"}
                    /\ call[d].answer = "ok" => call[d].room \in Rooms
            BY DEF IInv, CallsHaveRooms, Waits
        <3> QED
            BY <1>2, <1>4, <1>6, <2>1, <3>1, <3>2 DEF PageOK, IsMember, aux
    <2>5. IsOut(g)'
        BY <1>2, <1>4, <1>6, <2>1 DEF PageOK, IsOut, aux
    <2> QED
        BY <2>2, <2>3, <2>4, <2>5 DEF PageOK
<1>9. Attended'
    <2>1. ASSUME NEW p \in Participants, NEW x \in Rooms, NEW t \in Tabs, Attends(<<p, t>>, x)
          PROVE  Attends(<<p, t>>, x)'
        <3>1. <<p, t>> \in Pages
            BY Pairs
        <3> QED
            BY <1>2, <1>6, <1>7, <2>1, <3>1 DEF Attends, Unattended
    <2> QED
        BY <1>2, <1>4, <2>1 DEF IInv, Attended, aux
<1> QED
    BY <1>4, <1>5, <1>8, <1>9 DEF IInv

-----------------------------------------------------------------------------
(* The theorems. *)

LEMMA InvInit == Init => IInv
<1> SUFFICES ASSUME Init PROVE IInv
    OBVIOUS
<1>1. Menu \in Page /\ Menu.step = "menu" /\ Menu.room = Nothing /\ Menu.media = FALSE
      /\ Menu.leave = "no" /\ Menu.asked = "any"
    BY MenuType
<1>2. TypeOK
    BY <1>1, ConstantsAssumption DEF Init, Server!Init, TypeOK, SomeRoom
<1>3. CallsHaveRooms /\ CrowdsAreSeen
    BY <1>1, Pairs DEF Init, CallsHaveRooms, CrowdsAreSeen, InRoomPage, RoomSteps
<1>4. NoneIsEmpty /\ Attended
    BY DEF Init, Server!Init, NoneIsEmpty, Attended
<1>5. \A g \in Pages : page[g] = Menu /\ \A c \in Calls : ~Waits(g, c)
    BY DEF Init, Waits
<1>6. \A g \in Pages : Blank(g) /\ AsAsked(g) /\ NothingOld(g)
    BY <1>1, <1>5, ConstantsAssumption DEF Blank, AsAsked, NothingOld, InRoomPage, RoomSteps
<1>7. \A g \in Pages : CallsFit(g) /\ RoomFits(g) /\ MadeFor(g) /\ IsMember(g) /\ IsOut(g)
    BY <1>1, <1>5 DEF CallsFit, RoomFits, MadeFor, IsMember, IsOut
<1> QED
    BY <1>2, <1>3, <1>4, <1>6, <1>7 DEF IInv, PageOK

LEMMA InvStep == IInv /\ [Next]_vars => IInv'
<1> SUFFICES ASSUME IInv, [Next]_vars PROVE IInv'
    OBVIOUS
<1>1. ASSUME NEW g \in Pages, User(g) PROVE IInv'
    BY <1>1, UserStep, LeaveClickStep, GoAwayStep, ReloadStep DEF User
<1>2. ASSUME NEW g \in Pages, Script(g) PROVE IInv'
    BY <1>2, LoadFailedStep, InitRoomStep, JoinAnsweredStep, CreateAnsweredStep,
       TokenAnsweredStep, ConnectedStep, LeaveDisconnectedStep, LeaveAnsweredStep
       DEF Script
<1>3. CASE UNCHANGED vars
    <2>1. UNCHANGED <<state, members, page, saved, call, visits, stray, crowded>>
        BY <1>3 DEF vars, server, aux
    <2>2. /\ \A g \in Pages : InRoomPage(g)' = InRoomPage(g) /\ Unattended(g)' = Unattended(g)
          /\ \A g \in Pages, c \in Calls : Waits(g, c)' = Waits(g, c)
        BY <2>1 DEF InRoomPage, Unattended, Target, Waits
    <2>3. TypeOK' /\ CallsHaveRooms' /\ NoneIsEmpty' /\ CrowdsAreSeen' /\ Attended'
        BY <2>1, <2>2, Pairs
           DEF IInv, TypeOK, CallsHaveRooms, NoneIsEmpty, CrowdsAreSeen, Attended, Attends
    <2>4. \A g \in Pages : PageOK(g)'
        BY <2>1, <2>2 DEF IInv, PageOK, Blank, AsAsked, NothingOld, CallsFit, RoomFits,
                          MadeFor, IsMember, IsOut
    <2> QED
        BY <2>3, <2>4 DEF IInv
<1> QED
    BY <1>1, <1>2, <1>3, ServeStep, FailStep, ElsewhereStep DEF Next

\* Pages, storage and requests keep their types, whatever fails and whoever leaves.
THEOREM TypeCorrect == Spec => []TypeOK
<1>1. IInv => TypeOK
    BY DEF IInv
<1> QED
    BY <1>1, InvInit, InvStep, PTL DEF Spec

\* A page enters the room its user asked for, and a new one if they asked for a
\* new one, although the tabs of a browser share the saved room (initRoom).
THEOREM RightRoomHolds == Spec => []RightRoom
<1>1. IInv => RightRoom
    BY DEF IInv, PageOK, AsAsked, NothingOld, RightRoom, InRoomPage, RoomSteps
<1> QED
    BY <1>1, InvInit, InvStep, PTL DEF Spec

\* Who has gone by the leave button is in no room any more, whatever state
\* initRoom was in and whichever answers were lost on the way in.
THEOREM LeaversAreOutHolds == Spec => []LeaversAreOut
<1>1. IInv => LeaversAreOut
    BY DEF IInv, Attended, Attends, LeaversAreOut
<1> QED
    BY <1>1, InvInit, InvStep, PTL DEF Spec

\* A page that is connected to the media of its room is there as a participant
\* for the server too (initRoom joins before it asks for the token).
THEOREM ConnectedAreMembersHolds == Spec => []ConnectedAreMembers
<1>1. IInv => ConnectedAreMembers
    BY DEF IInv, PageOK, IsMember, ConnectedAreMembers
<1> QED
    BY <1>1, InvInit, InvStep, PTL DEF Spec
=============================================================================
