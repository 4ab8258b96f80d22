------------------------------ MODULE RecLink ------------------------------
(***************************************************************************)
(* The control links to the recording servers (src/intermedia):            *)
(* g_connect_info is a table of slots, one per recorded room, written      *)
(* without a lock by                                                       *)
(*   - link threads (create_connect_thread), which log in to the recording *)
(*     server, wait for its FIREWALL message and reconnect when it is lost;*)
(*   - heart threads (heart_thread), alive while the status is OK;         *)
(*   - the data thread (create_msg_data_thread), which gives up a slot that*)
(*     has been without UDP data for three seconds;                        *)
(*   - web threads, which connect and exit slots for the media centre, and *)
(*     the report thread, which connects the rooms it is told at start-up. *)
(* One action is one access to the shared table, or several where nothing  *)
(* another thread does in between makes a difference.                      *)
(***************************************************************************)
EXTENDS Integers, Sequences, FiniteSets, Functions

CONSTANTS CHANNEL_CONNECT_MAX_NUM, \* size of g_connect_info
          ROOM_ID_MAX,   \* entries of a MSGCODE_TCP_REC_SERV request
          Boxes,         \* addresses of recording servers
          Boot,          \* servers and rooms the report thread connects, in order
          Requests,      \* sequences of room ids the media centre may send
          Webs,          \* web threads
          Links,         \* bound of the model: link threads alive at a time
          MaxRequests,   \* bound of the model: requests of the media centre
          MaxHearts,     \* bound of the model: heart threads per slot
          MaxFirewalls,  \* FIREWALL messages a server sends per connection
          Faults         \* what may go wrong: in the network "fin", "udp", "send";
                         \* "thread": pthread_create fails

ASSUME TableAssumption == /\ CHANNEL_CONNECT_MAX_NUM \in Nat \ {0}
                          /\ ROOM_ID_MAX \in Nat \ {0}
ASSUME BoundAssumption == /\ MaxRequests \in Nat
                          /\ MaxHearts \in Nat \ {0}
                          /\ MaxFirewalls \in Nat
ASSUME RoomAssumption  ==
  /\ Boot \in Seq([ip : Boxes, rooms : Seq(Int) \ {<<>>}])
  /\ \A b \in Range(Boot) : -1 \notin Range(b.rooms)
  /\ \A r \in Requests : r \in Seq(Int) /\ Len(r) =< ROOM_ID_MAX
ASSUME ThreadAssumption == "report" \notin Webs /\ 0 \notin Links

VARIABLES con,           \* g_connect_info
          link,          \* the link threads
          peer,          \* kernel: the TCP connection a link thread opened last
          hearts,        \* number of heart threads of a slot
          snap,          \* data thread: slots in its select set
          timedOut,      \* data thread: slot it is giving up, 0 if none
          web,           \* the web threads and the report thread
          requests,      \* number of requests received
          exited,        \* ghost: live_rec_server_exit was the last command of a slot
          unheard        \* ghost: the heart thread of a slot could not be created

data == <<snap, timedOut>>
ghosts == <<exited, unheard>>
vars == <<con, link, peer, hearts, data, web, requests, ghosts>>

Slots  == 1..CHANNEL_CONNECT_MAX_NUM
Actors == Webs \cup {"report"}
Status == {"CLOSE", "CONNECTING", "OK"}

UNSET   == -2            \* an entry of rec_room_id the request did not fill
ALL     == -1            \* the entry that exits every link of a server
NoBox   == "none"

\* connect_server_info_t.  tcp is the link thread that opened m_tcp_socket, udp
\* says that m_udp_socket is filled, quiet that time_udp_no_data is set.
Info == [ip : Boxes \cup {NoBox}, room : Int, status : Status, bt : {0, 1},
         change : {0, 1}, tcp : Links \cup {0}, udp : BOOLEAN, quiet : BOOLEAN]
Cleared == [ip |-> NoBox, room |-> 0, status |-> "CLOSE", bt |-> 0, change |-> 0,
            tcp |-> 0, udp |-> FALSE, quiet |-> FALSE]

Thread == [slot : Slots \cup {0}, greeted : 0..MaxFirewalls,
           pc : {"none", "connect", "password", "verify", "request", "test", "poll",
                 "lost", "fire", "ok", "clear", "flag", "heart", "exit", "zero", "check",
                 "again"}]
NoThread == [slot |-> 0, greeted |-> 0, pc |-> "none"]

Server == [ip : Boxes, rooms : Seq(Int) \ {<<>>}]
Actor == [pc : {"next", "init", "create", "exit"}, todo : Seq(Server),
          slot : Slots \cup {0}, exits : SUBSET Slots]
Idle(todo) == [pc |-> "next", todo |-> todo, slot |-> 0, exits |-> {}]

\* g_connect_info_init; the report thread has the answer to its ServInfo request.
Init ==
  /\ con = [s \in Slots |-> Cleared]
  /\ link = [l \in Links |-> NoThread]
  /\ peer = [l \in Links |-> "none"]
  /\ hearts = [s \in Slots |-> 0]
  /\ snap = {} /\ timedOut = 0
  /\ web = [w \in Actors |-> Idle(IF w = "report" THEN Boot ELSE <<>>)]
  /\ requests = 0
  /\ exited = [s \in Slots |-> FALSE]
  /\ unheard = [s \in Slots |-> FALSE]

-----------------------------------------------------------------------------
(***************************************************************************)
(* The link thread l.  At(l, p): it is at p, in the slot Me(l); Goto(l, p) *)
(* moves it.                                                               *)
(***************************************************************************)
Me(l) == link[l].slot
At(l, p) == link[l].pc = p
Goto(l, p) == link' = [link EXCEPT ![l].pc = p]
others == <<hearts, data, web, requests, ghosts>>

\* connect_live_server.  While it fails and the status is not CLOSE the thread
\* sleeps and tries again, which changes nothing.
ConnectOK(l) ==
  /\ At(l, "connect")
  /\ link' = [link EXCEPT ![l] = [@ EXCEPT !.pc = "password", !.greeted = 0]]
  /\ peer' = [peer EXCEPT ![l] = "up"]
  /\ UNCHANGED <<con, others>>
ConnectFails(l) ==
  /\ At(l, "connect")
  /\ con[Me(l)].status = "CLOSE"
  /\ Goto(l, "exit")
  /\ UNCHANGED <<con, peer, others>>

\* send_tcp_password; it closes the socket itself when it fails.
PasswordOK(l) ==
  /\ At(l, "password")
  /\ Goto(l, "verify")
  /\ UNCHANGED <<con, peer, others>>
PasswordFails(l) ==
  /\ At(l, "password") /\ "send" \in Faults
  /\ Goto(l, IF con[Me(l)].status # "CLOSE" THEN "connect" ELSE "exit")
  /\ peer' = [peer EXCEPT ![l] = "none"]
  /\ UNCHANGED <<con, others>>

\* recv_tcp_password: up to three messages of another type are let pass, and so is
\* a refusal (PASSWD_VERIFICATION_ERR); only a failing recv ends the attempt.
VerifyDone(l) ==
  /\ At(l, "verify")
  /\ Goto(l, "request")
  /\ UNCHANGED <<con, peer, others>>
VerifyFails(l) ==
  /\ At(l, "verify")
  /\ peer[l] = "fin"
  /\ Goto(l, "exit")
  /\ UNCHANGED <<con, peer, others>>

\* request_media_data; m_tcp_socket is set and the UDP sockets are opened.
RequestOK(l) ==
  /\ At(l, "request")
  /\ Goto(l, "test")
  /\ con' = [con EXCEPT ![Me(l)].tcp = l]
  /\ UNCHANGED <<peer, others>>
RequestFails(l) ==
  /\ At(l, "request") /\ "send" \in Faults
  /\ Goto(l, "exit")
  /\ UNCHANGED <<con, peer, others>>

-----------------------------------------------------------------------------
(***************************************************************************)
(* recv_tcp_msg: the loop on the status, and what select finds on the      *)
(* socket in m_tcp_socket, whichever thread has put it there.              *)
(***************************************************************************)
LoopTest(l) ==
  /\ At(l, "test")
  /\ Goto(l, IF con[Me(l)].status # "CLOSE" THEN "poll" ELSE "exit")
  /\ UNCHANGED <<con, peer, others>>

Sock(l) == con[Me(l)].tcp

\* select times out or fails, or the message is none the thread acts on.  A
\* connection the server has closed is readable at once.
Ended(l) == Sock(l) # 0 /\ peer[Sock(l)] = "fin"
PollNothing(l) ==
  /\ At(l, "poll")
  /\ ~Ended(l)
  /\ Goto(l, "test")
  /\ UNCHANGED <<con, peer, others>>

\* get_broadcast_headmsg_tcp reads the end of file.  SERVER_IS_CLOLSED does not
\* survive the uint16_t m_msg_type it is stored in: the loop goes on, and ends
\* because of the status.
PollClosed_Returns(l) ==
  /\ At(l, "poll")
  /\ Ended(l)
  /\ con' = [con EXCEPT ![Me(l)].bt = 1]
  /\ Goto(l, "exit")
  /\ UNCHANGED <<peer, others>>
PollClosed(l) ==
  /\ At(l, "poll")
  /\ Ended(l)
  /\ con' = [con EXCEPT ![Me(l)].status = "CLOSE"]
  /\ Goto(l, "lost")
  /\ UNCHANGED <<peer, others>>
Lost_Forgets(l) ==
  /\ At(l, "lost")
  /\ Goto(l, "test")
  /\ UNCHANGED <<con, peer, others>>
Lost(l) ==
  /\ At(l, "lost")
  /\ con' = [con EXCEPT ![Me(l)].bt = 1]
  /\ Goto(l, "test")
  /\ UNCHANGED <<peer, others>>

PollFirewall(l) ==
  /\ At(l, "poll")
  /\ Sock(l) # 0 /\ peer[Sock(l)] = "up"
  /\ link[Sock(l)].greeted < MaxFirewalls
  /\ link' = [link EXCEPT ![Sock(l)].greeted = @ + 1, ![l].pc = "fire"]
  /\ UNCHANGED <<con, peer, others>>

\* deal_broadcast_msg_tcp: the UDP sockets are announced and stored, then the
\* status, m_bt_connect and m_state_change are set, then the heart thread is
\* started.  A failing sendto leaves the loop with the status as it is, and so does
\* a heart thread that cannot be created: the status is OK by then.
FirePacks(l) ==
  /\ At(l, "fire")
  /\ con' = [con EXCEPT ![Me(l)] = [@ EXCEPT !.udp = TRUE, !.quiet = FALSE]]
  /\ Goto(l, "ok")
  /\ UNCHANGED <<peer, others>>
FireFails(l) ==
  /\ At(l, "fire") /\ "send" \in Faults
  /\ Goto(l, "exit")
  /\ UNCHANGED <<con, peer, others>>
FireOK(l) ==
  /\ At(l, "ok")
  /\ con' = [con EXCEPT ![Me(l)].status = "OK"]
  /\ unheard' = [unheard EXCEPT ![Me(l)] = FALSE]
  /\ Goto(l, "clear")
  /\ UNCHANGED <<peer, hearts, data, web, requests, exited>>
FireClears(l) ==
  /\ At(l, "clear")
  /\ con' = [con EXCEPT ![Me(l)].bt = 0]
  /\ Goto(l, "flag")
  /\ UNCHANGED <<peer, others>>
FireFlags(l) ==
  /\ At(l, "flag")
  /\ con' = [con EXCEPT ![Me(l)].change = 1]
  /\ Goto(l, "heart")
  /\ UNCHANGED <<peer, others>>
StartHeart(l) ==
  /\ At(l, "heart")
  /\ hearts[Me(l)] < MaxHearts
  /\ hearts' = [hearts EXCEPT ![Me(l)] = @ + 1]
  /\ Goto(l, "test")
  /\ UNCHANGED <<con, peer, data, web, requests, ghosts>>
HeartFails(l) ==
  /\ At(l, "heart") /\ "thread" \in Faults
  /\ unheard' = [unheard EXCEPT ![Me(l)] = TRUE]
  /\ Goto(l, "exit")
  /\ UNCHANGED <<con, peer, hearts, data, web, requests, exited>>

\* EXIT: the socket in the table is closed, then forgotten, with the UDP sockets;
\* then m_bt_connect decides whether the thread starts over or ends.
ExitClose(l) ==
  /\ At(l, "exit")
  /\ peer' = [k \in Links |-> IF k = Sock(l) THEN "none" ELSE peer[k]]
  /\ Goto(l, "zero")
  /\ UNCHANGED <<con, others>>
ExitForget_Tcp(l) ==
  /\ At(l, "zero")
  /\ con' = [con EXCEPT ![Me(l)].udp = FALSE]
  /\ Goto(l, "check")
  /\ UNCHANGED <<peer, others>>
ExitForget(l) ==
  /\ At(l, "zero")
  /\ con' = [con EXCEPT ![Me(l)] = [@ EXCEPT !.tcp = 0, !.udp = FALSE]]
  /\ Goto(l, "check")
  /\ UNCHANGED <<peer, others>>
ExitCheck_Always(l) ==
  /\ At(l, "check")
  /\ Goto(l, "again")
  /\ UNCHANGED <<con, peer, others>>
ExitCheck(l) ==
  /\ At(l, "check")
  /\ IF con[Me(l)].bt = 1 THEN Goto(l, "again")
                          ELSE link' = [link EXCEPT ![l] = NoThread]
  /\ UNCHANGED <<con, peer, others>>
Reconnect(l) ==
  /\ At(l, "again")
  /\ con' = [con EXCEPT ![Me(l)].status = "CONNECTING"]
  /\ Goto(l, "connect")
  /\ UNCHANGED <<peer, others>>

\* The recording server, or the network for it, ends the connection.
PeerCloses(l) ==
  /\ peer[l] = "up" /\ "fin" \in Faults
  /\ peer' = [peer EXCEPT ![l] = "fin"]
  /\ UNCHANGED <<con, link, others>>

-----------------------------------------------------------------------------
\* heart_thread leaves its loop when the status is not OK; a failing send does
\* not end it.
HeartEnds_OnError(s) ==
  /\ hearts[s] > 0
  /\ hearts' = [hearts EXCEPT ![s] = @ - 1]
  /\ UNCHANGED <<con, link, peer, data, web, requests, ghosts>>
HeartEnds(s) ==
  /\ hearts[s] > 0
  /\ con[s].status # "OK"
  /\ hearts' = [hearts EXCEPT ![s] = @ - 1]
  /\ UNCHANGED <<con, link, peer, data, web, requests, ghosts>>

(***************************************************************************)
(* The data thread: the slots that are OK go into the select set; each of  *)
(* them either has data or is checked by broadcast_udp_check_online, which *)
(* does not look at the status again.  A round whose select fails changes  *)
(* nothing.  The notice of a closed slot to the events thread has no       *)
(* channel and is dropped there.                                           *)
(***************************************************************************)

\* The recording server sends nothing, or the slot has no socket to receive it on.
Silence(s) == "udp" \in Faults \/ ~con[s].udp
DataScan ==
  /\ snap = {} /\ timedOut = 0
  /\ snap' = {s \in Slots : con[s].status = "OK"}
  /\ UNCHANGED <<con, link, peer, hearts, timedOut, web, requests, ghosts>>
DataVisit(s, some) ==
  /\ timedOut = 0 /\ s \in snap
  /\ some \/ Silence(s)
  /\ snap' = snap \ {s}
  /\ con' = [con EXCEPT ![s].quiet = ~some]
  /\ UNCHANGED <<link, peer, hearts, timedOut, web, requests, ghosts>>
DataTimeout(s) ==
  /\ timedOut = 0 /\ s \in snap
  /\ Silence(s) /\ con[s].quiet
  /\ snap' = snap \ {s}
  /\ timedOut' = s
  /\ con' = [con EXCEPT ![s].status = "CLOSE"]
  /\ UNCHANGED <<link, peer, hearts, web, requests, ghosts>>
\* A slot is also given up, and the rest of the round, when the clock went back.
DataGivesUp ==
  /\ timedOut # 0
  /\ timedOut' = 0
  /\ snap' \in {snap, {}}
  /\ con' = [con EXCEPT ![timedOut] = [@ EXCEPT !.change = 1, !.bt = 1]]
  /\ UNCHANGED <<link, peer, hearts, web, requests, ghosts>>

-----------------------------------------------------------------------------
(***************************************************************************)
(* msgcode_tcp_rec_serv_func: every entry of rec_room_id but ALL connects  *)
(* a room, those the request did not fill included.  The report thread     *)
(* runs the same loop over the rooms of its ServInfo answer.               *)
(***************************************************************************)
Entries(r) == [i \in 1..ROOM_ID_MAX |-> IF i =< Len(r) THEN r[i] ELSE UNSET]
Free == {s \in Slots : con[s].status = "CLOSE"}
Used(ip) == {s \in Slots : con[s].status = "OK" /\ con[s].ip = ip}
Doing(w, p) == web[w].pc = p
HasRoom(w) == Doing(w, "next") /\ web[w].todo # <<>>
Ip(w)   == Head(web[w].todo).ip
Rooms(w) == Head(web[w].todo).rooms
Room(w) == Head(Rooms(w))
Update(w, r) == web' = [web EXCEPT ![w] = r]
NextRoom(w) ==
  Idle((IF Len(Rooms(w)) = 1 THEN <<>> ELSE <<[ip |-> Ip(w), rooms |-> Tail(Rooms(w))]>>)
       \o Tail(web[w].todo))

Receive(w, ip, r) ==
  /\ Doing(w, "next") /\ web[w].todo = <<>>
  /\ w # "report" /\ requests < MaxRequests
  /\ requests' = requests + 1
  /\ Update(w, Idle(<<[ip |-> ip, rooms |-> Entries(r)]>>))
  /\ UNCHANGED <<con, link, peer, hearts, data, ghosts>>

\* Traverse_gAmarry_free; without a free slot the server's other rooms are dropped.
FindFree_NoCheck(w) ==
  /\ HasRoom(w) /\ Room(w) # ALL
  /\ \E s \in Free \cup {0} : /\ \A t \in Free : s # 0 /\ s =< t
                            /\ Update(w, [web[w] EXCEPT !.pc = "init", !.slot = s])
  /\ UNCHANGED <<con, link, peer, hearts, data, requests, ghosts>>
FindFree(w) ==
  /\ HasRoom(w) /\ Room(w) # ALL
  /\ \/ Free = {} /\ Update(w, Idle(Tail(web[w].todo)))
     \/ \E s \in Free : /\ \A t \in Free : s =< t
                        /\ Update(w, [web[w] EXCEPT !.pc = "init", !.slot = s])
  /\ UNCHANGED <<con, link, peer, hearts, data, requests, ghosts>>

\* live_rec_server_init, whatever the slot has become in between.
InitSlot(w) ==
  LET s == web[w].slot IN
  /\ Doing(w, "init")
  /\ con' = [con EXCEPT ![s] = [Cleared EXCEPT !.ip = Ip(w), !.room = Room(w),
                                               !.status = "CONNECTING"]]
  /\ exited' = [exited EXCEPT ![s] = FALSE]
  /\ unheard' = [unheard EXCEPT ![s] = FALSE]
  /\ Update(w, [web[w] EXCEPT !.pc = "create"])
  /\ UNCHANGED <<link, peer, hearts, data, requests>>

\* live_rec_server_connect.  Without a thread the slot stays CONNECTING; a web thread
\* then drops the server's other rooms, the report thread does not.
CreateLink(w, l) ==
  /\ Doing(w, "create")
  /\ link[l] = NoThread
  /\ link' = [link EXCEPT ![l] = [NoThread EXCEPT !.slot = web[w].slot, !.pc = "connect"]]
  /\ Update(w, NextRoom(w))
  /\ UNCHANGED <<con, peer, hearts, data, requests, ghosts>>
CreateFails(w) ==
  /\ Doing(w, "create") /\ "thread" \in Faults
  /\ Update(w, IF w = "report" THEN NextRoom(w) ELSE Idle(Tail(web[w].todo)))
  /\ UNCHANGED <<con, link, peer, hearts, data, requests, ghosts>>

\* Traverse_gAmarry_usd.
FindUsed(w) ==
  /\ HasRoom(w) /\ Room(w) = ALL
  /\ Update(w, [web[w] EXCEPT !.pc = "exit", !.exits = Used(Ip(w))])
  /\ UNCHANGED <<con, link, peer, hearts, data, requests, ghosts>>

\* live_rec_server_exit.
ExitLink_BtOnly(w, s) ==
  /\ Doing(w, "exit") /\ s \in web[w].exits
  /\ con' = [con EXCEPT ![s] = [@ EXCEPT !.change = 1, !.bt = 0]]
  /\ exited' = [exited EXCEPT ![s] = TRUE]
  /\ Update(w, [web[w] EXCEPT !.exits = @ \ {s}])
  /\ UNCHANGED <<link, peer, hearts, data, requests, unheard>>
ExitLink(w, s) ==
  /\ Doing(w, "exit") /\ s \in web[w].exits
  /\ con' = [con EXCEPT ![s] = [@ EXCEPT !.status = "CLOSE", !.change = 1, !.bt = 0]]
  /\ exited' = [exited EXCEPT ![s] = TRUE]
  /\ Update(w, [web[w] EXCEPT !.exits = @ \ {s}])
  /\ UNCHANGED <<link, peer, hearts, data, requests, unheard>>
ExitsDone(w) ==
  /\ Doing(w, "exit") /\ web[w].exits = {}
  /\ Update(w, NextRoom(w))
  /\ UNCHANGED <<con, link, peer, hearts, data, requests, ghosts>>

-----------------------------------------------------------------------------
Login(l) == \/ ConnectOK(l) \/ ConnectFails(l) \/ PasswordOK(l) \/ PasswordFails(l)
            \/ VerifyDone(l) \/ VerifyFails(l)
            \/ RequestOK(l) \/ RequestFails(l)
RecvLoop(l) == \/ LoopTest(l) \/ PollNothing(l) \/ PollClosed(l) \/ Lost(l)
               \/ PollFirewall(l) \/ FirePacks(l) \/ FireFails(l) \/ FireOK(l)
               \/ FireClears(l) \/ FireFlags(l) \/ StartHeart(l) \/ HeartFails(l)
Leaving(l) == ExitClose(l) \/ ExitForget(l) \/ ExitCheck(l) \/ Reconnect(l)
LinkStep(l) == Login(l) \/ RecvLoop(l) \/ Leaving(l)

DataStep == \/ DataScan \/ DataGivesUp
            \/ \E s \in Slots : DataTimeout(s) \/ \E some \in BOOLEAN : DataVisit(s, some)

Command(w) == \/ FindFree(w) \/ InitSlot(w) \/ CreateFails(w) \/ FindUsed(w) \/ ExitsDone(w)
              \/ \E l \in Links : CreateLink(w, l)
              \/ \E s \in Slots : ExitLink(w, s)

Next == \/ \E l \in Links : LinkStep(l) \/ PeerCloses(l)
        \/ \E s \in Slots : HeartEnds(s)
        \/ DataStep
        \/ \E w \in Actors : Command(w) \/ \E ip \in Boxes, r \in Requests : Receive(w, ip, r)

Spec == Init /\ [][Next]_vars

(***************************************************************************)
(* Fairness: every thread keeps running, and a recording server that keeps *)
(* the connection up sends its FIREWALL message: the link thread, which    *)
(* polls again and again, sees it in the end.                              *)
(***************************************************************************)
Fairness == /\ \A l \in Links : WF_vars(LinkStep(l)) /\ SF_vars(PollFirewall(l))
            /\ \A s \in Slots : WF_vars(HeartEnds(s))
            /\ WF_vars(DataStep)
            /\ \A w \in Actors : WF_vars(Command(w))
FairSpec == Spec /\ Fairness

-----------------------------------------------------------------------------
(***************************************************************************)
(* Properties.                                                             *)
(***************************************************************************)

\* The variables have their types; a web thread that initialises or starts a slot
\* has one (Traverse_gAmarry_free may find none).
TypeOK ==
  /\ con \in [Slots -> Info]
  /\ link \in [Links -> Thread]
  /\ \A l \in Links : link[l].pc # "none" => Me(l) # 0
  /\ peer \in [Links -> {"none", "up", "fin"}]
  /\ hearts \in [Slots -> 0..MaxHearts]
  /\ snap \subseteq Slots /\ timedOut \in Slots \cup {0}
  /\ web \in [Actors -> Actor]
  /\ \A w \in Actors : /\ web[w].pc \in {"init", "create"} => web[w].slot # 0
                       /\ web[w].pc # "next" => web[w].todo # <<>>
  /\ requests \in 0..MaxRequests
  /\ exited \in [Slots -> BOOLEAN] /\ unheard \in [Slots -> BOOLEAN]

\* The link thread l has set the status and is to start the heart thread.
Rising(l) == At(l, "clear") \/ At(l, "flag") \/ At(l, "heart")

\* While a slot is OK the recording server is sent heartbeats: a heart thread runs,
\* or the link thread is about to start it.  Heart threads of an earlier connection
\* end on their own, at a moment of their choice, and must not be counted on.  Only
\* where pthread_create has failed is a slot OK without heartbeats.
HeartWhileOK ==
  \A s \in Slots : con[s].status = "OK" =>
    hearts[s] > 0 \/ unheard[s] \/ \E l \in Links : Me(l) = s /\ Rising(l)

\* The socket in m_tcp_socket, which link threads select on, heart threads send on and
\* EXIT closes, is one opened for this slot by a thread that has not left it yet,
\* whatever threads share the slot and whoever initialised it meanwhile.
SocketOwned ==
  \A s \in Slots : con[s].tcp # 0 =>
    /\ Me(con[s].tcp) = s
    /\ link[con[s].tcp].pc \in {"test", "poll", "lost", "fire", "ok", "clear", "flag", "heart",
                                "exit", "zero"}

\* A slot that is OK has a link thread in its receive loop, on the socket in
\* m_tcp_socket, and UDP sockets to select on: what the data thread, the heart
\* threads and the reports to the media centre take an OK for.  There is one way to
\* an OK without a connection: the heart thread could not be created.
OKConnected ==
  \A s \in Slots : con[s].status = "OK" /\ ~unheard[s] =>
    /\ con[s].udp
    /\ \E l \in Links : /\ Me(l) = s /\ con[s].tcp = l
                        /\ link[l].pc \in {"clear", "flag", "heart", "test", "poll"}

\* A link that was up and is cut, and that no command has exited, has a link thread that
\* starts over: m_bt_connect is set, or the thread that has just taken the slot out of
\* OK is about to set it.  The slot is not left behind in CLOSE, unless the link thread
\* had ended before, without a heart thread; that its room is still the one it was is
\* another matter (Reconnects).  With two link threads on a slot it can be: what one
\* sets when its link is cut, the other clears on its way to OK.
NeverAbandoned ==
  \A s \in Slots :
    /\ ~exited[s] /\ ~unheard[s]
    /\ con[s].bt = 1 \/ (con[s].status = "CLOSE" /\ con[s].ip # NoBox)
    => \E l \in Links : Me(l) = s /\ (con[s].bt = 1 \/ At(l, "lost"))

\* Room r of box ip is being received.
Received(ip, r) == \E s \in Slots : /\ con[s].ip = ip /\ con[s].room = r
                                    /\ con[s].status = "OK"
\* It has a slot whose link thread has ended for want of a heart thread.
Unheard(ip, r) == \E s \in Slots : con[s].ip = ip /\ con[s].room = r /\ unheard[s]
BootRooms == UNION {[ip : {b.ip}, room : Range(b.rooms)] : b \in Range(Boot)}
Named == BootRooms \cup UNION {[ip : Boxes, room : Range(r)] : r \in Requests}

\* From some moment on the network works and threads can be created.
Fault == \/ \E l \in Links : \/ PeerCloses(l) \/ PasswordFails(l) \/ RequestFails(l)
                              \/ FireFails(l) \/ HeartFails(l)
         \/ \E w \in Actors : CreateFails(w)
         \/ \E s \in Slots : DataTimeout(s)
Healed == <>[][~Fault]_vars

\* pkg/readme:49 and 56: a link that was up and is cut comes back (reconnection
\* after network errors, after the recording server's disconnection) once the
\* network works again, unless its heart thread could not be created.
Reconnects ==
  Healed => \A e \in Named : <>Received(e.ip, e.room) =>
                              []<>(Received(e.ip, e.room) \/ Unheard(e.ip, e.room))

\* live_rec_server_exit ("leave the server", connect_rec_server.c:1206) sticks: a
\* slot that was exited is not connected again before its next initialisation.
ExitSticks == \A s \in Slots : exited[s] => con[s].status = "CLOSE"

\* An exit releases what the slot holds: its link thread, sockets and heart thread,
\* unless the slot is initialised again before that.
Released ==
  \A s \in Slots : exited[s] ~> \/ ~exited[s]
                                \/ /\ \A l \in Links : Me(l) # s
                                   /\ hearts[s] = 0 /\ con[s].tcp = 0 /\ ~con[s].udp

-----------------------------------------------------------------------------
(***************************************************************************)
(* What the code supposes without seeing to it, and some of the properties *)
(* need: premises of the theorems in SlotProofs.                           *)
(***************************************************************************)

\* The slot a web thread has found and is to initialise or start is not one that
\* another web thread works on.  Traverse_gAmarry_free marks nothing.
WebsApart ==
  \A w \in Actors : Doing(w, "init") \/ Doing(w, "create") =>
    \A v \in Actors \ {w} :
      /\ Doing(v, "init") \/ Doing(v, "create") => web[v].slot # web[w].slot
      /\ web[w].slot \notin web[v].exits

\* Nor is it one that a link thread still holds, as when its link has just been cut
\* (the slot is CLOSE) and the thread is on its way to reconnect.
SlotsApart ==
  /\ WebsApart
  /\ \A w \in Actors, l \in Links : Doing(w, "init") \/ Doing(w, "create") => Me(l) # web[w].slot

=============================================================================
