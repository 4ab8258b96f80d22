--------------------------- MODULE RecLinkProofs ---------------------------
(***************************************************************************)
(* Proofs about RecLink, for every table, every set of threads, rooms and  *)
(* faults: types, heartbeats and the ownership of the sockets.             *)
(***************************************************************************)
EXTENDS RecLink, TLAPS, SequenceTheorems

-----------------------------------------------------------------------------
LEMMA Constants ==
  /\ CHANNEL_CONNECT_MAX_NUM \in Nat /\ 1 =< CHANNEL_CONNECT_MAX_NUM
  /\ ROOM_ID_MAX \in Nat /\ 1 =< ROOM_ID_MAX
  /\ MaxRequests \in Nat /\ MaxHearts \in Nat /\ MaxFirewalls \in Nat
  /\ 0 \notin Links /\ 0 \notin Slots /\ Slots \subseteq Nat
BY TableAssumption, BoundAssumption, ThreadAssumption DEF Slots

LEMMA StartValues == Cleared \in Info /\ NoThread \in Thread
BY Constants DEF Cleared, Info, Status, NoThread, Thread

\* The list of rooms of a request or of the start-up answer.
LEMMA EntriesType ==
  ASSUME NEW r \in Requests
  PROVE  Entries(r) \in Seq(Int) \ {<<>>}
<1>1. r \in Seq(Int)
  BY RoomAssumption
<1>2. \A i \in 1..ROOM_ID_MAX : i =< Len(r) => r[i] \in Int
  <2> TAKE i \in 1..ROOM_ID_MAX
  <2>1. Len(r) \in Nat /\ \A k \in 1..Len(r) : r[k] \in Int
    BY <1>1
  <2> QED BY <2>1
<1>3. Entries(r) \in [1..ROOM_ID_MAX -> Int]
  BY <1>2 DEF Entries, UNSET
<1>4. Entries(r) \in Seq(Int) /\ Len(Entries(r)) = ROOM_ID_MAX
  BY <1>3, Constants
<1>5. Entries(r) # <<>>
  BY <1>4, Constants
<1> QED BY <1>4, <1>5

LEMMA IdleType ==
  ASSUME NEW t \in Seq(Server)
  PROVE  Idle(t) \in Actor /\ Idle(t).pc = "next"
BY DEF Idle, Actor

LEMMA NextRoomType ==
  ASSUME NEW w \in Actors, web[w] \in Actor, web[w].todo # <<>>
  PROVE  NextRoom(w) \in Actor /\ NextRoom(w).pc = "next"
<1> DEFINE t == web[w].todo
           rest == IF Len(Rooms(w)) = 1 THEN <<>>
                   ELSE <<[ip |-> Ip(w), rooms |-> Tail(Rooms(w))]>>
<1>1. t \in Seq(Server) /\ t # <<>>
  BY DEF Actor
<1>2. Head(t) \in Server /\ Tail(t) \in Seq(Server)
  BY <1>1
<1>3. Ip(w) \in Boxes /\ Rooms(w) \in Seq(Int) /\ Rooms(w) # <<>>
  BY <1>2 DEF Ip, Rooms, Server
<1>4. rest \in Seq(Server)
  <2>1. CASE Len(Rooms(w)) = 1
    BY <2>1
  <2>2. CASE Len(Rooms(w)) # 1
    <3>1. Tail(Rooms(w)) \in Seq(Int) /\ Len(Rooms(w)) \in Nat /\ Len(Rooms(w)) # 0
      BY <1>3
    <3>2. Len(Tail(Rooms(w))) # 0
      BY <1>3, <2>2, <3>1
    <3>3. [ip |-> Ip(w), rooms |-> Tail(Rooms(w))] \in Server
      <4>1. Tail(Rooms(w)) # <<>>
        BY <3>1, <3>2, EmptySeq
      <4> QED BY <4>1, <3>1, <1>3, Zenon DEF Server
    <3>4. rest = <<[ip |-> Ip(w), rooms |-> Tail(Rooms(w))]>>
      BY <2>2
    <3> HIDE DEF rest
    <3>5. \A x \in Server : <<x>> \in Seq(Server)
      OBVIOUS
    <3> QED BY <3>3, <3>4, <3>5
  <2> QED BY <2>1, <2>2
<1>5. rest \o Tail(t) \in Seq(Server)
  <2> HIDE DEF rest
  <2> QED BY <1>2, <1>4
<1>6. NextRoom(w) = Idle(rest \o Tail(t))
  BY DEF NextRoom
<1> QED BY <1>5, <1>6, IdleType

LEMMA RoomType ==
  ASSUME NEW w \in Actors, web[w] \in Actor, web[w].todo # <<>>
  PROVE  Ip(w) \in Boxes /\ Room(w) \in Int /\ Tail(web[w].todo) \in Seq(Server)
<1>1. web[w].todo \in Seq(Server)
  BY DEF Actor
<1>2. Head(web[w].todo) \in Server /\ Tail(web[w].todo) \in Seq(Server)
  BY <1>1
<1>3. Rooms(w) \in Seq(Int) /\ Rooms(w) # <<>> /\ Ip(w) \in Boxes
  BY <1>2 DEF Rooms, Server, Ip
<1> QED BY <1>2, <1>3 DEF Room

-----------------------------------------------------------------------------
(***************************************************************************)
(* The inductive invariant.                                                *)
(***************************************************************************)
IInv == TypeOK /\ HeartWhileOK /\ SocketOwned

LEMMA InitInv == Init => IInv
<1> SUFFICES ASSUME Init PROVE IInv
  OBVIOUS
<1>1. Boot \in Seq(Server) /\ <<>> \in Seq(Server)
  BY RoomAssumption DEF Server
<1>2. web \in [Actors -> Actor] /\ \A w \in Actors : web[w].pc = "next"
  BY <1>1, IdleType DEF Init
<1>3. TypeOK
  BY <1>2, StartValues, Constants DEF Init, TypeOK, NoThread
<1>4. HeartWhileOK /\ SocketOwned
  BY DEF Init, Cleared, HeartWhileOK, SocketOwned
<1> QED BY <1>3, <1>4 DEF IInv

-----------------------------------------------------------------------------
(***************************************************************************)
(* The link threads.  All but the start of a heart thread and the end of a *)
(* link thread go through LinkGoes: the thread moves to p, its slot        *)
(* becomes c.                                                              *)
(***************************************************************************)
Places == {"connect", "password", "verify", "request", "test", "poll", "lost", "fire",
           "ok", "clear", "flag", "heart", "exit", "zero", "check", "again"}
Owners == {"test", "poll", "lost", "fire", "ok", "clear", "flag", "heart", "exit", "zero"}
Risers == {"clear", "flag", "heart"}

Moves(l, p) ==
  /\ link' \in [Links -> Thread]
  /\ \A k \in Links : /\ link'[k].slot = link[k].slot
                      /\ link'[k].pc = IF k = l THEN p ELSE link[k].pc

\* Where a link thread is, it works on a slot.
LEMMA ThreadFields ==
  ASSUME TypeOK, NEW l \in Links
  PROVE  /\ link[l] \in Thread /\ link[l].slot \in Slots \cup {0}
         /\ link[l].pc # "none" =>
              /\ Me(l) \in Slots /\ con[Me(l)] \in Info
              /\ con[Me(l)].tcp \in Links \cup {0} /\ con[Me(l)].status \in Status
         /\ peer \in [Links -> {"none", "up", "fin"}] /\ DOMAIN con = Slots
         /\ con = [con EXCEPT ![Me(l)] = con[Me(l)]]
<1>1. link[l] \in Thread /\ con \in [Slots -> Info]
      /\ peer \in [Links -> {"none", "up", "fin"}] /\ (link[l].pc # "none" => Me(l) # 0)
  BY DEF TypeOK
<1>2. link[l].slot \in Slots \cup {0}
  BY <1>1 DEF Thread
<1>3. link[l].pc # "none" => Me(l) \in Slots /\ con[Me(l)] \in Info
  BY <1>1, <1>2 DEF Me
<1>4. \A c \in Info : c.tcp \in Links \cup {0} /\ c.status \in Status
  BY DEF Info
<1> QED BY <1>1, <1>2, <1>3, <1>4

LEMMA GotoMoves ==
  ASSUME TypeOK, NEW l \in Links, link[l].pc # "none", NEW p \in Places, Goto(l, p)
  PROVE  Moves(l, p)
<1>1. link \in [Links -> Thread]
  BY DEF TypeOK
<1>2. [link[l] EXCEPT !.pc = p] \in Thread
  BY <1>1 DEF Thread, Places
<1> QED BY <1>1, <1>2 DEF Goto, Moves, Thread

LEMMA LinkGoes ==
  ASSUME IInv, NEW l \in Links, link[l].pc # "none",
         NEW p \in Places, Moves(l, p),
         NEW c \in Info, con' = [con EXCEPT ![Me(l)] = c],
         peer' \in [Links -> {"none", "up", "fin"}],
         UNCHANGED <<hearts, data, web, requests, exited>>,
         unheard' \in [Slots -> BOOLEAN],
         \A t \in Slots : unheard[t] => unheard'[t] \/ (t = Me(l) /\ p = "clear"),
         link[l].pc \in Risers => p \in Risers \/ unheard'[Me(l)],
         c.status = "OK" => con[Me(l)].status = "OK" \/ p = "clear",
         \/ c.tcp = 0
         \/ c.tcp = con[Me(l)].tcp /\ (c.tcp = l => p \in Owners)
         \/ c.tcp = l /\ p \in Owners
  PROVE  IInv'
<1> DEFINE s == Me(l)
<1>1. s \in Slots /\ con \in [Slots -> Info] /\ p # "none"
  BY ThreadFields DEF IInv, TypeOK, Places
<1>2. /\ con'[s] = c /\ \A t \in Slots \ {s} : con'[t] = con[t]
      /\ con' \in [Slots -> Info]
      /\ \A k \in Links : Me(k)' = Me(k)
  BY <1>1 DEF Moves, Me
<1>3. TypeOK'
  <2>1. \A k \in Links : link'[k].pc # "none" => Me(k)' # 0
    BY <1>1, <1>2 DEF Moves, IInv, TypeOK, Slots
  <2> QED BY <1>2, <2>1 DEF IInv, TypeOK, data, Moves
<1>4. HeartWhileOK'
  <2> SUFFICES ASSUME NEW t \in Slots, con'[t].status = "OK"
               PROVE  \/ hearts[t] > 0 \/ unheard'[t]
                      \/ \E k \in Links : Me(k) = t /\ link'[k].pc \in Risers
    BY <1>2 DEF HeartWhileOK, At, Rising, Risers
  <2>1. CASE con[t].status = "OK"
    <3>1. CASE unheard[t]
      BY <3>1 DEF Moves, Risers
    <3>2. ASSUME NEW k \in Links, Me(k) = t, link[k].pc \in Risers
          PROVE  unheard'[t] \/ link'[k].pc \in Risers
      BY <3>2 DEF Moves
    <3> QED BY <2>1, <3>1, <3>2 DEF IInv, HeartWhileOK, At, Rising, Risers
  <2>2. CASE con[t].status # "OK"
    <3>1. t = s /\ p = "clear"
      BY <2>2, <1>2
    <3> QED BY <3>1 DEF Moves, Risers
  <2> QED BY <2>1, <2>2
<1>5. SocketOwned'
  <2> SUFFICES ASSUME NEW t \in Slots, con'[t].tcp # 0
               PROVE  link'[con'[t].tcp].slot = t /\ link'[con'[t].tcp].pc \in Owners
    BY DEF SocketOwned, Owners, Me
  <2> DEFINE k == con'[t].tcp
  <2>1. k \in Links
    BY <1>2 DEF Info
  <2>2. CASE k = con[t].tcp
    <3>1. Me(k) = t /\ link[k].pc \in Owners
      BY <2>2 DEF IInv, SocketOwned, Owners
    <3>2. k = l => p \in Owners
      BY <3>1, <2>2, <1>2
    <3> QED BY <2>1, <3>1, <3>2 DEF Moves, Me
  <2>3. CASE k # con[t].tcp
    <3>1. t = s /\ k = l /\ p \in Owners
      BY <2>3, <1>2
    <3> QED BY <3>1, <2>1 DEF Moves, Me
  <2> QED BY <2>2, <2>3
<1> QED BY <1>3, <1>4, <1>5 DEF IInv

\* Most steps neither raise a slot nor start or miss its heart thread.
LEMMA LinkKeeps ==
  ASSUME IInv, NEW l \in Links, link[l].pc # "none",
         NEW p \in Places, Moves(l, p),
         NEW c \in Info, con' = [con EXCEPT ![Me(l)] = c],
         peer' \in [Links -> {"none", "up", "fin"}], UNCHANGED others,
         link[l].pc \in Risers => p \in Risers,
         c.status = "OK" => con[Me(l)].status = "OK",
         \/ c.tcp = 0
         \/ c.tcp = con[Me(l)].tcp /\ (c.tcp = l => p \in Owners)
         \/ c.tcp = l /\ p \in Owners
  PROVE  IInv'
<1>1. unheard' = unheard /\ unheard \in [Slots -> BOOLEAN]
      /\ UNCHANGED <<hearts, data, web, requests, exited>>
  BY DEF others, ghosts, IInv, TypeOK
<1> QED BY <1>1, LinkGoes

\* Steps that leave the table alone.
LEMMA LinkMovesOn ==
  ASSUME IInv, NEW l \in Links, link[l].pc # "none", link[l].pc \notin Risers,
         NEW p \in Places, Moves(l, p), con' = con,
         peer' \in [Links -> {"none", "up", "fin"}], UNCHANGED others,
         link[l].pc \in Owners => p \in Owners
  PROVE  IInv'
<1> DEFINE c == con[Me(l)]
<1>1. c \in Info /\ con' = [con EXCEPT ![Me(l)] = c]
  BY ThreadFields DEF IInv
<1>2. c.tcp = l => link[l].pc \in Owners
  <2>1. Me(l) \in Slots /\ l # 0
    BY ThreadFields, Constants DEF IInv
  <2> QED BY <2>1 DEF IInv, SocketOwned, Owners
<1>3. p \in Places /\ (c.tcp = l => p \in Owners)
  BY <1>2
<1>4. c.status = "OK" => con[Me(l)].status = "OK"
  OBVIOUS
<1>5. c.tcp = con[Me(l)].tcp /\ (c.tcp = l => p \in Owners)
  BY <1>3
<1> HIDE DEF c
<1> QED BY <1>1, <1>3, <1>4, <1>5, LinkKeeps

LEMMA LoginInv ==
  ASSUME IInv, NEW l \in Links, Login(l)
  PROVE  IInv'
<1>0. TypeOK /\ peer \in [Links -> {"none", "up", "fin"}]
  BY DEF IInv, TypeOK
<1>1. CASE ConnectOK(l)
  <2>1. [link[l] EXCEPT !.pc = "password", !.greeted = 0] \in Thread
    <3>1. link[l] \in Thread /\ 0 \in 0..MaxFirewalls
      BY <1>0, ThreadFields, Constants
    <3> QED BY <3>1 DEF Thread
  <2>2. Moves(l, "password")
    BY <1>0, <1>1, <2>1 DEF ConnectOK, Moves, TypeOK, Thread
  <2> QED BY <1>0, <1>1, <2>2, LinkMovesOn DEF ConnectOK, At, Places, Owners, Risers
<1>2. CASE ConnectFails(l)
  BY <1>0, <1>2, GotoMoves, LinkMovesOn DEF ConnectFails, At, Places, Owners, Risers
<1>3. CASE PasswordOK(l)
  BY <1>0, <1>3, GotoMoves, LinkMovesOn DEF PasswordOK, At, Places, Owners, Risers
<1>4. CASE PasswordFails(l)
  <2>1. PICK p \in {"connect", "exit"} : Goto(l, p)
    BY <1>4 DEF PasswordFails
  <2>2. Moves(l, p)
    BY <1>0, <1>4, <2>1, GotoMoves DEF PasswordFails, At, Places
  <2> QED BY <1>0, <1>4, <2>2, LinkMovesOn DEF PasswordFails, At, Places, Owners, Risers
<1>5. CASE VerifyDone(l)
  BY <1>0, <1>5, GotoMoves, LinkMovesOn DEF VerifyDone, At, Places, Owners, Risers
<1>6. CASE VerifyFails(l)
  BY <1>0, <1>6, GotoMoves, LinkMovesOn DEF VerifyFails, At, Places, Owners, Risers
<1>7. CASE RequestOK(l)
  <2> DEFINE c == [con[Me(l)] EXCEPT !.tcp = l]
  <2>1. link[l].pc = "request" /\ Moves(l, "test")
    BY <1>0, <1>7, GotoMoves DEF RequestOK, At, Places
  <2>2. con[Me(l)] \in Info
    BY <1>0, <2>1, ThreadFields
  <2>3. c \in Info /\ c.tcp = l /\ c.status = con[Me(l)].status
    BY <2>2 DEF Info
  <2>4. con' = [con EXCEPT ![Me(l)] = c]
    BY <1>7 DEF RequestOK
  <2>5. "test" \in Places /\ "test" \in Owners /\ link[l].pc # "none"
        /\ link[l].pc \notin Risers
    BY <2>1 DEF Places, Owners, Risers
  <2>6. peer' \in [Links -> {"none", "up", "fin"}] /\ UNCHANGED others
    BY <1>0, <1>7 DEF RequestOK
  <2> HIDE DEF c
  <2> QED BY <2>1, <2>3, <2>4, <2>5, <2>6, LinkKeeps
<1>8. CASE RequestFails(l)
  BY <1>0, <1>8, GotoMoves, LinkMovesOn DEF RequestFails, At, Places, Owners, Risers
<1> QED BY <1>1, <1>2, <1>3, <1>4, <1>5, <1>6, <1>7, <1>8 DEF Login

LEMMA RecvLoopInv ==
  ASSUME IInv, NEW l \in Links, RecvLoop(l)
  PROVE  IInv'
<1>0. TypeOK /\ peer \in [Links -> {"none", "up", "fin"}]
  BY DEF IInv, TypeOK
<1>1. CASE LoopTest(l)
  <2>1. PICK p \in {"poll", "exit"} : Goto(l, p)
    BY <1>1 DEF LoopTest
  <2>2. Moves(l, p)
    BY <1>0, <1>1, <2>1, GotoMoves DEF LoopTest, At, Places
  <2> QED BY <1>0, <1>1, <2>2, LinkMovesOn DEF LoopTest, At, Places, Owners, Risers
<1>2. CASE PollNothing(l)
  BY <1>0, <1>2, GotoMoves, LinkMovesOn DEF PollNothing, At, Places, Owners, Risers
<1>3. CASE PollClosed(l)
  <2> DEFINE c == [con[Me(l)] EXCEPT !.status = "CLOSE"]
  <2>1. link[l].pc = "poll" /\ Moves(l, "lost")
    BY <1>0, <1>3, GotoMoves DEF PollClosed, At, Places
  <2>2. con[Me(l)] \in Info
    BY <1>0, <2>1, ThreadFields
  <2>3. c \in Info /\ c.tcp = con[Me(l)].tcp /\ c.status # "OK"
    BY <2>2 DEF Info, Status
  <2>4. con' = [con EXCEPT ![Me(l)] = c]
    BY <1>3 DEF PollClosed
  <2> HIDE DEF c
  <2> QED BY <1>0, <1>3, <2>1, <2>3, <2>4, LinkKeeps DEF PollClosed, Places, Owners, Risers
<1>4. CASE Lost(l)
  <2> DEFINE c == [con[Me(l)] EXCEPT !.bt = 1]
  <2>1. link[l].pc = "lost" /\ Moves(l, "test")
    BY <1>0, <1>4, GotoMoves DEF Lost, At, Places
  <2>2. con[Me(l)] \in Info
    BY <1>0, <2>1, ThreadFields
  <2>3. c \in Info /\ c.tcp = con[Me(l)].tcp /\ c.status = con[Me(l)].status
    BY <2>2 DEF Info
  <2>4. con' = [con EXCEPT ![Me(l)] = c]
    BY <1>4 DEF Lost
  <2> HIDE DEF c
  <2> QED BY <1>0, <1>4, <2>1, <2>3, <2>4, LinkKeeps DEF Lost, Places, Owners, Risers
<1>5. CASE PollFirewall(l)
  <2>1. Sock(l) \in Links /\ link[l].pc = "poll" /\ link \in [Links -> Thread]
    BY <1>0, <1>5, ThreadFields DEF PollFirewall, Sock, At, TypeOK
  <2>2. link[Sock(l)].greeted + 1 \in 0..MaxFirewalls
    BY <1>5, <2>1, Constants DEF PollFirewall, Thread
  <2>3. \A k \in Links : /\ [link[k] EXCEPT !.pc = "fire"] \in Thread
                         /\ [link[Sock(l)] EXCEPT !.greeted = @ + 1] \in Thread
                         /\ [[link[Sock(l)] EXCEPT !.greeted = @ + 1] EXCEPT !.pc = "fire"]
                              \in Thread
    BY <2>1, <2>2 DEF Thread
  <2>4. Moves(l, "fire")
    BY <1>5, <2>1, <2>3 DEF PollFirewall, Moves, Thread
  <2> QED BY <1>0, <1>5, <2>1, <2>4, LinkMovesOn DEF PollFirewall, Places, Owners, Risers
<1>6. CASE FirePacks(l)
  <2> DEFINE c == [con[Me(l)] EXCEPT !.udp = TRUE, !.quiet = FALSE]
  <2>1. link[l].pc = "fire" /\ Moves(l, "ok")
    BY <1>0, <1>6, GotoMoves DEF FirePacks, At, Places
  <2>2. con[Me(l)] \in Info
    BY <1>0, <2>1, ThreadFields
  <2>3. c \in Info /\ c.tcp = con[Me(l)].tcp /\ c.status = con[Me(l)].status
    BY <2>2 DEF Info
  <2>4. con' = [con EXCEPT ![Me(l)] = c]
    BY <1>6 DEF FirePacks
  <2> HIDE DEF c
  <2> QED BY <1>0, <1>6, <2>1, <2>3, <2>4, LinkKeeps DEF FirePacks, Places, Owners, Risers
<1>7. CASE FireFails(l)
  BY <1>0, <1>7, GotoMoves, LinkMovesOn DEF FireFails, At, Places, Owners, Risers
<1>8. CASE FireOK(l)
  <2> DEFINE c == [con[Me(l)] EXCEPT !.status = "OK"]
  <2>1. link[l].pc = "ok" /\ Moves(l, "clear")
    BY <1>0, <1>8, GotoMoves DEF FireOK, At, Places
  <2>2. con[Me(l)] \in Info
    BY <1>0, <2>1, ThreadFields
  <2>3. c \in Info /\ c.tcp = con[Me(l)].tcp
    BY <2>2 DEF Info, Status
  <2>4. con' = [con EXCEPT ![Me(l)] = c]
    BY <1>8 DEF FireOK
  <2>5. /\ unheard' \in [Slots -> BOOLEAN]
        /\ \A t \in Slots : t # Me(l) => unheard'[t] = unheard[t]
    BY <1>0, <1>8 DEF FireOK, TypeOK
  <2> HIDE DEF c
  <2>6. UNCHANGED <<hearts, data, web, requests, exited>>
        /\ peer' \in [Links -> {"none", "up", "fin"}]
    BY <1>0, <1>8 DEF FireOK
  <2>7. "clear" \in Places /\ "clear" \in Owners /\ "clear" \in Risers
    BY DEF Places, Owners, Risers
  <2> QED BY <2>1, <2>3, <2>4, <2>5, <2>6, <2>7, LinkGoes
<1>9. CASE FireClears(l)
  <2> DEFINE c == [con[Me(l)] EXCEPT !.bt = 0]
  <2>1. link[l].pc = "clear" /\ Moves(l, "flag")
    BY <1>0, <1>9, GotoMoves DEF FireClears, At, Places
  <2>2. con[Me(l)] \in Info
    BY <1>0, <2>1, ThreadFields
  <2>3. c \in Info /\ c.tcp = con[Me(l)].tcp /\ c.status = con[Me(l)].status
    BY <2>2 DEF Info
  <2>4. con' = [con EXCEPT ![Me(l)] = c]
    BY <1>9 DEF FireClears
  <2> HIDE DEF c
  <2> QED BY <1>0, <1>9, <2>1, <2>3, <2>4, LinkKeeps DEF FireClears, Places, Owners, Risers
<1>10. CASE FireFlags(l)
  <2> DEFINE c == [con[Me(l)] EXCEPT !.change = 1]
  <2>1. link[l].pc = "flag" /\ Moves(l, "heart")
    BY <1>0, <1>10, GotoMoves DEF FireFlags, At, Places
  <2>2. con[Me(l)] \in Info
    BY <1>0, <2>1, ThreadFields
  <2>3. c \in Info /\ c.tcp = con[Me(l)].tcp /\ c.status = con[Me(l)].status
    BY <2>2 DEF Info
  <2>4. con' = [con EXCEPT ![Me(l)] = c]
    BY <1>10 DEF FireFlags
  <2> HIDE DEF c
  <2> QED BY <1>0, <1>10, <2>1, <2>3, <2>4, LinkKeeps DEF FireFlags, Places, Owners, Risers
<1>11. CASE StartHeart(l)
  <2> DEFINE s == Me(l)
  <2>1. link[l].pc = "heart" /\ Moves(l, "test") /\ s \in Slots
    BY <1>0, <1>11, GotoMoves, ThreadFields DEF StartHeart, At, Places
  <2>2. /\ hearts' \in [Slots -> 0..MaxHearts] /\ hearts'[s] > 0
        /\ \A t \in Slots : hearts[t] > 0 => hearts'[t] > 0
    <3>1. hearts \in [Slots -> 0..MaxHearts] /\ hearts[s] < MaxHearts
          /\ hearts' = [hearts EXCEPT ![s] = hearts[s] + 1]
      BY <1>0, <1>11 DEF StartHeart, TypeOK
    <3>2. hearts[s] + 1 \in 0..MaxHearts /\ hearts[s] + 1 > 0
      <4> HIDE DEF s
      <4>1. hearts[s] \in 0..MaxHearts /\ hearts[s] < MaxHearts
        BY <3>1, <2>1
      <4> QED BY <4>1, Constants
    <3> QED BY <3>1, <3>2, <2>1
  <2>3. TypeOK'
    <3>1. \A k \in Links : link'[k].pc # "none" => Me(k)' # 0
      BY <1>0, <2>1, Constants DEF Moves, TypeOK, Me
    <3> QED BY <1>0, <1>11, <2>1, <2>2, <3>1 DEF StartHeart, TypeOK, data, ghosts, Moves
  <2>4. HeartWhileOK'
    BY <1>11, <2>1, <2>2 DEF IInv, HeartWhileOK, StartHeart, ghosts, Moves, At, Me, Rising
  <2>5. SocketOwned'
    <3>1. con' = con /\ \A t \in Slots : con[t].tcp \in Links \cup {0}
      BY <1>0, <1>11 DEF StartHeart, TypeOK, Info
    <3> QED BY <2>1, <3>1 DEF IInv, SocketOwned, Moves, Me
  <2> QED BY <2>3, <2>4, <2>5 DEF IInv
<1>12. CASE HeartFails(l)
  <2> DEFINE c == con[Me(l)]
  <2>1. link[l].pc = "heart" /\ Moves(l, "exit")
    BY <1>0, <1>12, GotoMoves DEF HeartFails, At, Places
  <2>2. c \in Info /\ Me(l) \in Slots /\ con = [con EXCEPT ![Me(l)] = c]
    BY <1>0, <2>1, ThreadFields
  <2>3. con' = [con EXCEPT ![Me(l)] = c]
    BY <1>12, <2>2 DEF HeartFails
  <2>4. /\ unheard' \in [Slots -> BOOLEAN] /\ unheard'[Me(l)]
        /\ \A t \in Slots : unheard[t] => unheard'[t]
    BY <1>0, <1>12, <2>2 DEF HeartFails, TypeOK
  <2>5. UNCHANGED <<hearts, data, web, requests, exited>>
        /\ peer' \in [Links -> {"none", "up", "fin"}]
    BY <1>0, <1>12 DEF HeartFails
  <2>6. "exit" \in Places /\ "exit" \in Owners /\ c.tcp = con[Me(l)].tcp
        /\ c.status = con[Me(l)].status
    BY DEF Places, Owners
  <2> HIDE DEF c
  <2> QED BY <2>1, <2>2, <2>3, <2>4, <2>5, <2>6, LinkGoes
<1> QED BY <1>1, <1>2, <1>3, <1>4, <1>5, <1>6, <1>7, <1>8, <1>9, <1>10, <1>11, <1>12
        DEF RecvLoop

LEMMA LeavingInv ==
  ASSUME IInv, NEW l \in Links, Leaving(l)
  PROVE  IInv'
<1>0. TypeOK /\ peer \in [Links -> {"none", "up", "fin"}]
  BY DEF IInv, TypeOK
<1>1. CASE ExitClose(l)
  <2>1. peer' \in [Links -> {"none", "up", "fin"}]
    BY <1>0, <1>1 DEF ExitClose
  <2> QED BY <1>0, <1>1, <2>1, GotoMoves, LinkMovesOn DEF ExitClose, At, Places, Owners, Risers
<1>2. CASE ExitForget(l)
  <2> DEFINE c == [con[Me(l)] EXCEPT !.tcp = 0, !.udp = FALSE]
  <2>1. link[l].pc = "zero" /\ Moves(l, "check")
    BY <1>0, <1>2, GotoMoves DEF ExitForget, At, Places
  <2>2. con[Me(l)] \in Info
    BY <1>0, <2>1, ThreadFields
  <2>3. c \in Info /\ c.tcp = 0 /\ c.status = con[Me(l)].status
    BY <2>2 DEF Info
  <2>4. con' = [con EXCEPT ![Me(l)] = c]
    BY <1>2 DEF ExitForget
  <2> HIDE DEF c
  <2> QED BY <1>0, <1>2, <2>1, <2>3, <2>4, LinkKeeps DEF ExitForget, Places, Owners, Risers
<1>3. CASE ExitCheck(l) /\ Goto(l, "again")
  BY <1>0, <1>3, GotoMoves, LinkMovesOn DEF ExitCheck, At, Places, Owners, Risers
<1>4. CASE ExitCheck(l) /\ ~Goto(l, "again")
  <2>1. /\ link' = [link EXCEPT ![l] = NoThread] /\ link[l].pc = "check"
        /\ UNCHANGED <<con, peer, others>> /\ link \in [Links -> Thread]
    BY <1>0, <1>4 DEF ExitCheck, At, TypeOK
  <2>2. TypeOK'
    BY <1>0, <2>1, StartValues DEF TypeOK, others, ghosts, data, Me, NoThread
  <2>3. HeartWhileOK'
    BY <2>1 DEF IInv, HeartWhileOK, others, ghosts, At, Me, Rising
  <2>4. SocketOwned'
    <3> SUFFICES ASSUME NEW s \in Slots, con[s].tcp # 0
                 PROVE  link'[con[s].tcp] = link[con[s].tcp]
      BY <2>1 DEF IInv, SocketOwned, Me
    <3>1. link[con[s].tcp].pc \in Owners
      BY DEF IInv, SocketOwned, Owners
    <3> QED BY <2>1, <3>1 DEF Owners
  <2> QED BY <2>2, <2>3, <2>4 DEF IInv
<1>5. CASE Reconnect(l)
  <2> DEFINE c == [con[Me(l)] EXCEPT !.status = "CONNECTING"]
  <2>1. link[l].pc = "again" /\ Moves(l, "connect")
    BY <1>0, <1>5, GotoMoves DEF Reconnect, At, Places
  <2>2. con[Me(l)] \in Info /\ Me(l) \in Slots
    BY <1>0, <2>1, ThreadFields
  <2>3. c \in Info /\ c.tcp = con[Me(l)].tcp /\ c.status # "OK"
    BY <2>2 DEF Info, Status
  <2>4. con' = [con EXCEPT ![Me(l)] = c]
    BY <1>5 DEF Reconnect
  <2>5. c.tcp # l
    BY <2>1, <2>2, <2>3, Constants DEF IInv, SocketOwned
  <2> HIDE DEF c
  <2> QED BY <1>0, <1>5, <2>1, <2>3, <2>4, <2>5, LinkKeeps DEF Reconnect, Places, Owners, Risers
<1> QED BY <1>1, <1>2, <1>3, <1>4, <1>5 DEF Leaving

LEMMA PeerClosesInv ==
  ASSUME IInv, NEW l \in Links, PeerCloses(l)
  PROVE  IInv'
<1>1. TypeOK'
  BY DEF IInv, TypeOK, PeerCloses, others, ghosts, data, Me
<1>2. HeartWhileOK' /\ SocketOwned'
  BY DEF IInv, HeartWhileOK, SocketOwned, PeerCloses, others, ghosts, At, Me, Rising
<1> QED BY <1>1, <1>2 DEF IInv

-----------------------------------------------------------------------------
(***************************************************************************)
(* The other threads.  SlotKeeps: the slot s becomes c, the link and heart *)
(* threads stay where they are.                                            *)
(***************************************************************************)
LEMMA SlotKeeps ==
  ASSUME HeartWhileOK, SocketOwned, NEW s \in Slots, con \in [Slots -> Info],
         NEW c \in Info, con' = [con EXCEPT ![s] = c], UNCHANGED <<link, hearts>>,
         \A t \in Slots : t # s \/ c.status = "OK" => unheard'[t] = unheard[t],
         c.status = "OK" => con[s].status = "OK", c.tcp \in {0, con[s].tcp}
  PROVE  con' \in [Slots -> Info] /\ HeartWhileOK' /\ SocketOwned'
<1>1. con'[s] = c /\ (\A t \in Slots \ {s} : con'[t] = con[t]) /\ con' \in [Slots -> Info]
  OBVIOUS
<1>2. HeartWhileOK'
  BY <1>1 DEF HeartWhileOK, At, Me, Rising
<1>3. SocketOwned'
  BY <1>1 DEF SocketOwned, Me
<1> QED BY <1>1, <1>2, <1>3

LEMMA HeartInv ==
  ASSUME IInv, NEW s \in Slots, HeartEnds(s)
  PROVE  IInv'
<1>1. /\ hearts \in [Slots -> 0..MaxHearts] /\ hearts[s] > 0 /\ MaxHearts \in Nat
      /\ hearts' = [hearts EXCEPT ![s] = hearts[s] - 1]
  BY Constants DEF IInv, TypeOK, HeartEnds
<1>2. hearts[s] - 1 \in 0..MaxHearts
  BY <1>1
<1>3. hearts' \in [Slots -> 0..MaxHearts] /\ \A t \in Slots \ {s} : hearts'[t] = hearts[t]
  BY <1>1, <1>2
<1>4. TypeOK'
  BY <1>3 DEF IInv, TypeOK, HeartEnds, data, ghosts, Me
<1>5. HeartWhileOK' /\ SocketOwned'
  BY <1>3 DEF IInv, HeartWhileOK, SocketOwned, HeartEnds, ghosts, At, Me, Rising
<1> QED BY <1>4, <1>5 DEF IInv

LEMMA DataInv ==
  ASSUME IInv, DataStep
  PROVE  IInv'
<1>0. TypeOK /\ HeartWhileOK /\ SocketOwned /\ con \in [Slots -> Info]
  BY DEF IInv, TypeOK
<1>1. CASE DataScan
  <2>1. TypeOK'
    BY <1>0, <1>1 DEF TypeOK, DataScan, ghosts, Me
  <2>2. HeartWhileOK' /\ SocketOwned'
    BY <1>0, <1>1 DEF HeartWhileOK, SocketOwned, DataScan, ghosts, At, Me, Rising
  <2> QED BY <2>1, <2>2 DEF IInv
<1>2. ASSUME NEW s \in Slots, NEW some \in BOOLEAN, DataVisit(s, some) PROVE IInv'
  <2> DEFINE c == [con[s] EXCEPT !.quiet = ~some]
  <2>1. c \in Info /\ c.status = con[s].status /\ c.tcp = con[s].tcp
    BY <1>0 DEF Info
  <2>2. con' = [con EXCEPT ![s] = c] /\ UNCHANGED <<link, hearts, unheard>>
    BY <1>2 DEF DataVisit, ghosts
  <2> HIDE DEF c
  <2>3. con' \in [Slots -> Info] /\ HeartWhileOK' /\ SocketOwned'
    BY <1>0, <2>1, <2>2, SlotKeeps
  <2>4. TypeOK'
    BY <1>0, <1>2, <2>3 DEF TypeOK, DataVisit, ghosts, Me
  <2> QED BY <2>3, <2>4 DEF IInv
<1>3. ASSUME NEW s \in Slots, DataTimeout(s) PROVE IInv'
  <2> DEFINE c == [con[s] EXCEPT !.status = "CLOSE"]
  <2>1. c \in Info /\ c.status # "OK" /\ c.tcp = con[s].tcp
    BY <1>0 DEF Info, Status
  <2>2. con' = [con EXCEPT ![s] = c] /\ UNCHANGED <<link, hearts, unheard>>
    BY <1>3 DEF DataTimeout, ghosts
  <2> HIDE DEF c
  <2>3. con' \in [Slots -> Info] /\ HeartWhileOK' /\ SocketOwned'
    BY <1>0, <2>1, <2>2, SlotKeeps
  <2>4. TypeOK'
    BY <1>0, <1>3, <2>3 DEF TypeOK, DataTimeout, ghosts, Me
  <2> QED BY <2>3, <2>4 DEF IInv
<1>4. CASE DataGivesUp
  <2> DEFINE c == [con[timedOut] EXCEPT !.change = 1, !.bt = 1]
  <2>0. timedOut \in Slots
    BY <1>0, <1>4 DEF TypeOK, DataGivesUp
  <2>1. c \in Info /\ c.status = con[timedOut].status /\ c.tcp = con[timedOut].tcp
    BY <1>0, <2>0 DEF Info
  <2>2. con' = [con EXCEPT ![timedOut] = c] /\ UNCHANGED <<link, hearts, unheard>>
    BY <1>4 DEF DataGivesUp, ghosts
  <2> HIDE DEF c
  <2>3. con' \in [Slots -> Info] /\ HeartWhileOK' /\ SocketOwned'
    BY <1>0, <2>0, <2>1, <2>2, SlotKeeps
  <2>4. TypeOK'
    BY <1>0, <1>4, <2>3 DEF TypeOK, DataGivesUp, ghosts, Me
  <2> QED BY <2>3, <2>4 DEF IInv
<1> QED BY <1>1, <1>2, <1>3, <1>4 DEF DataStep

-----------------------------------------------------------------------------
(***************************************************************************)
(* The web threads and the report thread.                                  *)
(***************************************************************************)
WebOK == /\ web \in [Actors -> Actor]
         /\ \A w \in Actors : /\ web[w].pc \in {"init", "create"} => web[w].slot # 0
                              /\ web[w].pc # "next" => web[w].todo # <<>>

LEMMA WebKeeps ==
  ASSUME WebOK, NEW w \in Actors, NEW r \in Actor, Update(w, r),
         r.pc \in {"init", "create"} => r.slot # 0,
         r.pc # "next" => r.todo # <<>>
  PROVE  WebOK'
BY DEF WebOK, Update

LEMMA TypeParts == IInv => TypeOK /\ WebOK /\ HeartWhileOK /\ SocketOwned
BY DEF IInv, TypeOK, WebOK

\* What remains of the invariant when a command changes neither slots nor threads.
LEMMA OnlyWeb ==
  ASSUME IInv, WebOK', UNCHANGED <<con, link, peer, hearts, data, ghosts>>,
         requests' \in 0..MaxRequests
  PROVE  IInv'
<1>1. TypeOK'
  BY DEF IInv, TypeOK, WebOK, data, ghosts, Me
<1>2. HeartWhileOK' /\ SocketOwned'
  BY DEF IInv, HeartWhileOK, SocketOwned, ghosts, At, Me, Rising
<1> QED BY <1>1, <1>2 DEF IInv

LEMMA ReceiveInv ==
  ASSUME IInv, NEW w \in Actors, NEW ip \in Boxes, NEW r \in Requests, Receive(w, ip, r)
  PROVE  IInv'
<1> DEFINE e == [ip |-> ip, rooms |-> Entries(r)]
<1>1. e \in Server
  BY EntriesType DEF Server
<1> HIDE DEF e
<1>2. \A x \in Server : <<x>> \in Seq(Server)
  OBVIOUS
<1>3. <<e>> \in Seq(Server) /\ Update(w, Idle(<<e>>))
  BY <1>1, <1>2 DEF Receive, e
<1>4. WebOK'
  BY <1>3, IdleType, TypeParts, WebKeeps
<1>5. requests' \in 0..MaxRequests
  BY Constants DEF IInv, TypeOK, Receive
<1> QED BY <1>4, <1>5, OnlyWeb DEF Receive

LEMMA CommandInv ==
  ASSUME IInv, NEW w \in Actors, Command(w)
  PROVE  IInv'
<1>0. /\ WebOK /\ TypeOK /\ HeartWhileOK /\ SocketOwned /\ con \in [Slots -> Info]
      /\ web[w] \in Actor /\ web[w].todo \in Seq(Server)
      /\ requests \in 0..MaxRequests
  BY TypeParts DEF WebOK, TypeOK, Actor
<1>1. CASE FindFree(w)
  <2>1. CASE Update(w, Idle(Tail(web[w].todo)))
    <3>1. Tail(web[w].todo) \in Seq(Server)
      BY <1>0, <1>1, RoomType DEF FindFree, HasRoom
    <3>2. WebOK'
      BY <2>1, <3>1, <1>0, IdleType, WebKeeps
    <3> QED BY <1>0, <1>1, <3>2, OnlyWeb DEF FindFree
  <2>2. CASE \E s \in Free : Update(w, [web[w] EXCEPT !.pc = "init", !.slot = s])
    <3>1. PICK s \in Slots : Update(w, [web[w] EXCEPT !.pc = "init", !.slot = s])
      BY <2>2 DEF Free
    <3> DEFINE r == [web[w] EXCEPT !.pc = "init", !.slot = s]
    <3>2. r \in Actor /\ r.slot # 0 /\ r.todo = web[w].todo
      BY <1>0, Constants DEF Actor
    <3>3. web[w].todo # <<>>
      BY <1>1 DEF FindFree, HasRoom
    <3> HIDE DEF r
    <3>4. WebOK'
      BY <1>0, <3>1, <3>2, <3>3, WebKeeps DEF r
    <3> QED BY <1>0, <1>1, <3>4, OnlyWeb DEF FindFree
  <2> QED BY <1>1, <2>1, <2>2 DEF FindFree
<1>2. CASE InitSlot(w)
  <2> DEFINE s == web[w].slot
             c == [Cleared EXCEPT !.ip = Ip(w), !.room = Room(w), !.status = "CONNECTING"]
             r == [web[w] EXCEPT !.pc = "create"]
  <2>1. s \in Slots /\ web[w].todo # <<>>
    BY <1>0, <1>2 DEF WebOK, Actor, InitSlot, Doing
  <2>2. c \in Info /\ c.status # "OK" /\ c.tcp = 0
    BY <1>0, <2>1, RoomType, StartValues DEF Cleared, Info, Status
  <2>3. /\ con' = [con EXCEPT ![s] = c] /\ UNCHANGED <<link, hearts>>
        /\ unheard' = [unheard EXCEPT ![s] = FALSE]
    BY <1>2 DEF InitSlot
  <2> HIDE DEF c
  <2>4. con' \in [Slots -> Info] /\ HeartWhileOK' /\ SocketOwned'
    BY <1>0, <2>1, <2>2, <2>3, SlotKeeps DEF TypeOK
  <2>5. r \in Actor /\ r.slot # 0 /\ r.todo = web[w].todo
    BY <1>0, <2>1, Constants DEF Actor
  <2>6. Update(w, r)
    BY <1>2 DEF InitSlot
  <2> HIDE DEF r
  <2>7. WebOK'
    BY <1>0, <2>1, <2>5, <2>6, WebKeeps
  <2>8. TypeOK'
    BY <1>0, <1>2, <2>4, <2>7 DEF TypeOK, WebOK, InitSlot, data, ghosts, Me
  <2> QED BY <2>4, <2>8 DEF IInv
<1>3. CASE FindUsed(w)
  <2> DEFINE r == [web[w] EXCEPT !.pc = "exit", !.exits = Used(Ip(w))]
  <2>1. r \in Actor /\ r.pc = "exit" /\ r.todo = web[w].todo /\ web[w].todo # <<>>
    BY <1>0, <1>3 DEF Actor, Used, FindUsed, HasRoom
  <2>2. Update(w, r)
    BY <1>3 DEF FindUsed
  <2> HIDE DEF r
  <2>3. WebOK'
    BY <1>0, <2>1, <2>2, WebKeeps
  <2> QED BY <1>0, <1>3, <2>3, OnlyWeb DEF FindUsed
<1>4. CASE ExitsDone(w)
  <2>1. web[w].todo # <<>> /\ Update(w, NextRoom(w))
    BY <1>0, <1>4 DEF WebOK, ExitsDone, Doing
  <2>2. WebOK'
    BY <1>0, <2>1, NextRoomType, WebKeeps
  <2> QED BY <1>0, <1>4, <2>2, OnlyWeb DEF ExitsDone
<1>5. ASSUME NEW l \in Links, CreateLink(w, l) PROVE IInv'
  <2> DEFINE n == [NoThread EXCEPT !.slot = web[w].slot, !.pc = "connect"]
  <2>1. web[w].todo # <<>> /\ Update(w, NextRoom(w)) /\ web[w].slot \in Slots
    BY <1>0, <1>5 DEF WebOK, CreateLink, Doing, Actor
  <2>2. WebOK'
    BY <1>0, <2>1, NextRoomType, WebKeeps
  <2>3. /\ link \in [Links -> Thread] /\ link[l].pc = "none"
        /\ link' = [link EXCEPT ![l] = n]
        /\ UNCHANGED <<con, peer, hearts, data, requests, ghosts>>
    BY <1>0, <1>5 DEF TypeOK, CreateLink, NoThread
  <2>4. n \in Thread /\ n.slot # 0
    BY <2>1, StartValues, Constants DEF Thread, NoThread
  <2> HIDE DEF n
  <2>5. TypeOK'
    BY <1>0, <2>2, <2>3, <2>4 DEF TypeOK, WebOK, data, ghosts, Me
  <2>6. HeartWhileOK'
    BY <1>0, <2>3 DEF HeartWhileOK, ghosts, At, Me, Rising
  <2>7. SocketOwned'
    <3> SUFFICES ASSUME NEW s \in Slots, con[s].tcp # 0
                 PROVE  link'[con[s].tcp] = link[con[s].tcp]
      BY <1>0, <2>3 DEF SocketOwned, Me
    <3>1. link[con[s].tcp].pc \in Owners
      BY <1>0 DEF SocketOwned, Owners
    <3> QED BY <2>3, <3>1 DEF Owners
  <2> QED BY <2>5, <2>6, <2>7 DEF IInv
<1>6. ASSUME NEW s \in Slots, ExitLink(w, s) PROVE IInv'
  <2> DEFINE c == [con[s] EXCEPT !.status = "CLOSE", !.change = 1, !.bt = 0]
             r == [web[w] EXCEPT !.exits = web[w].exits \ {s}]
  <2>1. c \in Info /\ c.status # "OK" /\ c.tcp = con[s].tcp
    BY <1>0 DEF Info, Status
  <2>2. con' = [con EXCEPT ![s] = c] /\ UNCHANGED <<link, hearts, unheard>>
    BY <1>6 DEF ExitLink
  <2> HIDE DEF c
  <2>3. con' \in [Slots -> Info] /\ HeartWhileOK' /\ SocketOwned'
    BY <1>0, <2>1, <2>2, SlotKeeps
  <2>4. r \in Actor /\ r.pc = "exit" /\ r.todo = web[w].todo /\ web[w].todo # <<>>
    BY <1>0, <1>6 DEF Actor, WebOK, ExitLink, Doing
  <2>5. Update(w, r)
    BY <1>6 DEF ExitLink
  <2> HIDE DEF r
  <2>6. WebOK'
    BY <1>0, <2>4, <2>5, WebKeeps
  <2>7. TypeOK'
    BY <1>0, <1>6, <2>3, <2>6 DEF TypeOK, WebOK, ExitLink, data, ghosts, Me
  <2> QED BY <2>3, <2>7 DEF IInv
<1>7. CASE CreateFails(w)
  <2>1. web[w].todo # <<>>
    BY <1>0, <1>7 DEF WebOK, CreateFails, Doing
  <2>2. CASE Update(w, NextRoom(w))
    <3>1. WebOK'
      BY <1>0, <2>1, <2>2, NextRoomType, WebKeeps
    <3> QED BY <1>0, <1>7, <3>1, OnlyWeb DEF CreateFails
  <2>3. CASE Update(w, Idle(Tail(web[w].todo)))
    <3>1. Tail(web[w].todo) \in Seq(Server)
      BY <1>0, <2>1, RoomType
    <3>2. WebOK'
      BY <2>3, <3>1, <1>0, IdleType, WebKeeps
    <3> QED BY <1>0, <1>7, <3>2, OnlyWeb DEF CreateFails
  <2> QED BY <1>7, <2>2, <2>3 DEF CreateFails
<1> QED BY <1>1, <1>2, <1>3, <1>4, <1>5, <1>6, <1>7 DEF Command

-----------------------------------------------------------------------------
LEMMA NextInv == IInv /\ [Next]_vars => IInv'
<1> SUFFICES ASSUME IInv, [Next]_vars PROVE IInv'
  OBVIOUS
<1>1. ASSUME NEW l \in Links, LinkStep(l) PROVE IInv'
  BY <1>1, LoginInv, RecvLoopInv, LeavingInv DEF LinkStep
<1>2. CASE UNCHANGED vars
  <2>1. TypeOK'
    BY <1>2 DEF IInv, TypeOK, vars, ghosts, data, Me
  <2>2. HeartWhileOK' /\ SocketOwned'
    BY <1>2 DEF IInv, HeartWhileOK, SocketOwned, vars, ghosts, At, Me, Rising
  <2> QED BY <2>1, <2>2 DEF IInv
<1> QED BY <1>1, <1>2, PeerClosesInv, HeartInv, DataInv, CommandInv, ReceiveInv DEF Next

\* The conjunction of the three invariants holds, for every set of threads and faults.
THEOREM Invariance == Spec => []IInv
<1> QED BY InitInv, NextInv, PTL DEF Spec

\* Types; a web thread that initialises or starts a slot has one.
THEOREM TypeCorrect == Spec => []TypeOK
<1>1. IInv => TypeOK
  BY DEF IInv
<1> QED BY <1>1, Invariance, PTL

\* A slot that is OK (m_connect_status) has a heart thread, or is about to get one,
\* however many link threads share it and whenever older heart threads end; the one
\* exception is a slot whose heart thread could not be created.
THEOREM Heartbeats == Spec => []HeartWhileOK
<1>1. IInv => HeartWhileOK
  BY DEF IInv
<1> QED BY <1>1, Invariance, PTL

\* m_tcp_socket is never the socket of another slot's thread or of one that has ended.
THEOREM SocketOwnership == Spec => []SocketOwned
<1>1. IInv => SocketOwned
  BY DEF IInv
<1> QED BY <1>1, Invariance, PTL
=============================================================================
