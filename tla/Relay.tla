------------------------------- MODULE Relay -------------------------------
(***************************************************************************)
(* The events thread of the live node (src/live): one thread around one    *)
(* edge-triggered epoll set.  Ingest connections (a local socket) hand it  *)
(* media packets, which it links into one list per channel; viewers (TCP)  *)
(* log in, ask for a channel and are sent that list, each at the pace of   *)
(* its own socket.  A channel keeps at most MAX_LIST_LEN packets: whoever  *)
(* still needs the oldest one when the next arrives is closed.             *)
(*                                                                         *)
(* Inside the thread one action is one pass of one of its loops, so that   *)
(* the kernel and the peers (Drain, and every choice of what a call to     *)
(* recv or send returns) come in between any two system calls.             *)
(***************************************************************************)
EXTENDS Integers, FiniteSets

CONSTANTS MAX_USERS,     \* size of the table g_send_client
          MAX_CH,        \* size of the channel table lds
          MAX_LIST_LEN,  \* packets a channel may hold
          Channels,      \* the channel ids the ingest side may send
          ReqIds,        \* the channel ids a viewer may ask for (int32_t)
          UINT16,        \* ids are compared modulo this after a cast to uint16_t
          UserLimit,     \* UserLimit of live_cfg.xml
          PktLen,        \* units of a packet one send may split
          MaxPackets,    \* bound of the model: packets queued per channel
          Draining       \* slots whose viewer never stops reading (fairness)

NoChannel == -1          \* m_channel of a slot that asked for nothing

ASSUME SizeAssumption == /\ MAX_USERS \in Nat \ {0}
                         /\ MAX_CH \in Nat
                         /\ MAX_LIST_LEN \in Nat \ {0}
                         /\ PktLen \in Nat \ {0}
                         /\ MaxPackets \in Nat
                         /\ UserLimit \in Int
                         /\ UINT16 \in Nat \ {0}
ASSUME IdAssumption == /\ Channels \subseteq 0..(UINT16 - 1)
                       /\ ReqIds \subseteq Int
                       /\ NoChannel \notin ReqIds
ASSUME DrainingAssumption == Draining \subseteq 1..MAX_USERS

VARIABLES users,         \* g_send_client, the connection table
          registered,    \* channel ids that own an entry of lds
          head, tail,    \* numbers of the first and the last packet of a list
          list_len,      \* lds[].list_len, the counter kept beside the list
          pc,            \* what the thread runs: wait, local, net, fan, send
          ev,            \* slot of the event being handled
          alsoOut,       \* the event being handled carries EPOLLOUT as well
          fan,           \* index of send_user_process; 0 outside of it
          blocked,       \* kernel: the send buffer of the socket is full
          edge,          \* kernel: an EPOLLOUT edge nobody has collected
          wire,          \* ghost: the last media unit written on the connection
          auth           \* ghost: a LOGIN of the connection was accepted

kernel == <<blocked, edge>>
ghosts == <<wire, auth>>
lists  == <<registered, head, tail, list_len>>
thread == <<pc, ev, alsoOut, fan>>
vars == <<users, lists, thread, kernel, ghosts>>

Slots == 1..MAX_USERS
Bool  == {TRUE, FALSE}

(***************************************************************************)
(* A list node is named by its channel and the number of its packet.  Only *)
(* the tail of a list grows and only its head is freed, so the linked list *)
(* of channel c is at every moment the run head[c]..tail[c].               *)
(***************************************************************************)
NoNode == [ch |-> NoChannel, num |-> 0]
Nodes  == [ch : Channels, num : Nat \ {0}]
Node(c, n) == [ch |-> c, num |-> n]
InList(n)  == n.ch \in Channels /\ n.num \in head[n.ch]..tail[n.ch]
HasNext(n) == n.num < tail[n.ch]
DelHead_Kept(h, t) == h
DelHead(h, t) == IF h < t THEN h + 1 ELSE h

(***************************************************************************)
(* user_t.  kind stands for m_invalid and the two handler pointers; data   *)
(* is the packet m_media_d.m_last points into and left is m_end - m_last.  *)
(***************************************************************************)
Status == {"NOT_SENT", "NOT_AFTER_SENDING", "IS_SENDING", "NOT_CAN_SEND"}
User == [kind    : {"free", "local", "net"},
         is_send : {-1, 0, 1},
         status  : Status,
         channel : ReqIds \cup {NoChannel},
         node    : Nodes \cup {NoNode},
         data    : Nodes \cup {NoNode},
         left    : 0..PktLen]

InitUser_Zeroed == [kind |-> "free", is_send |-> 0, status |-> "NOT_SENT",
                    channel |-> NoChannel, node |-> NoNode, data |-> NoNode, left |-> 0]
InitUser == [kind |-> "free", is_send |-> -1, status |-> "NOT_SENT",
             channel |-> NoChannel, node |-> NoNode, data |-> NoNode, left |-> 0]

NoPos == [ch |-> NoChannel, num |-> 0, off |-> 0]
Garbled == [ch |-> NoChannel, num |-> 1, off |-> 0]
Position == [ch : Channels, num : Nat \ {0}, off : 1..PktLen]

(***************************************************************************)
(* The wire after units from+1..to of packet p were written behind w: the  *)
(* new position if they are the next units of w's channel, else Garbled.   *)
(***************************************************************************)
Wrote(w, p, from, to) ==
  IF \/ w = NoPos /\ from = 0
     \/ from > 0 /\ w = [ch |-> p.ch, num |-> p.num, off |-> from]
     \/ from = 0 /\ w = [ch |-> p.ch, num |-> p.num - 1, off |-> PktLen]
  THEN [ch |-> p.ch, num |-> p.num, off |-> to]
  ELSE Garbled

-----------------------------------------------------------------------------
(***************************************************************************)
(* What the functions of src/live do to one user_t.                        *)
(***************************************************************************)
Attach(r, n) == [r EXCEPT !.node = n, !.data = n, !.left = PktLen,
                          !.status = "NOT_AFTER_SENDING", !.is_send = 1]

ReadyNext(r) ==
  IF HasNext(r.node)
  THEN LET n == Node(r.node.ch, r.node.num + 1)
       IN  [r EXCEPT !.status = "IS_SENDING", !.node = n, !.data = n, !.left = PktLen]
  ELSE [r EXCEPT !.status = "NOT_CAN_SEND", !.data = NoNode, !.left = 0]

Prepared(r) == IF r.status = "NOT_CAN_SEND" THEN ReadyNext(r) ELSE r

OnlineUsers == Cardinality({u \in Slots : users[u].channel # NoChannel})
ChannelUsers(c) == {u \in Slots : users[u].channel = c}
Waiting(r, c) == r.node = NoNode /\ r.status = "NOT_SENT" /\ r.channel = c

\* close_client of one slot: the socket goes, and with it all the kernel kept.
Close(u) ==
  /\ users'   = [users EXCEPT ![u] = InitUser]
  /\ blocked' = [blocked EXCEPT ![u] = FALSE]
  /\ edge'    = [edge EXCEPT ![u] = FALSE]
  /\ wire'    = [wire EXCEPT ![u] = NoPos]
  /\ auth'    = [auth EXCEPT ![u] = FALSE]

\* close_client of every slot of S, in the loop of local_recv_process.
CloseAll(S) ==
  /\ blocked' = [u \in Slots |-> blocked[u] /\ u \notin S]
  /\ edge'    = [u \in Slots |-> edge[u] /\ u \notin S]
  /\ wire'    = [u \in Slots |-> IF u \in S THEN NoPos ELSE wire[u]]
  /\ auth'    = [u \in Slots |-> auth[u] /\ u \notin S]

-----------------------------------------------------------------------------
Init ==
  /\ users = [u \in Slots |-> InitUser]
  /\ registered = {}
  /\ head = [c \in Channels |-> 1]
  /\ tail = [c \in Channels |-> 0]
  /\ list_len = [c \in Channels |-> 0]
  /\ pc = "wait" /\ ev = 0 /\ fan = 0 /\ alsoOut = FALSE
  /\ blocked = [u \in Slots |-> FALSE]
  /\ edge = [u \in Slots |-> FALSE]
  /\ wire = [u \in Slots |-> NoPos]
  /\ auth = [u \in Slots |-> FALSE]

(***************************************************************************)
(* epoll_wait returns.  The new connection takes the first free slot; a    *)
(* viewer's socket is writable at once and epoll says so (edge).  With the *)
(* table full the accepted socket is in no table and nothing changes.      *)
(***************************************************************************)
Accept(kind) ==
  /\ pc = "wait"
  /\ \E u \in Slots :
       /\ users[u].kind = "free"
       /\ \A v \in 1..(u - 1) : users[v].kind # "free"
       /\ users' = [users EXCEPT ![u].kind = kind]
       /\ edge' = [edge EXCEPT ![u] = (kind = "net")]
  /\ UNCHANGED <<lists, thread, blocked, ghosts>>

\* EPOLLIN; a writable viewer is reported with EPOLLOUT in the same event.
EventIn(u) ==
  /\ pc = "wait"
  /\ users[u].kind # "free"
  /\ pc' = users[u].kind
  /\ ev' = u
  /\ alsoOut' = (users[u].kind = "net" /\ ~blocked[u])
  /\ edge' = [edge EXCEPT ![u] = FALSE]
  /\ UNCHANGED <<users, lists, fan, blocked, ghosts>>

\* net_send_process: only a viewer with m_is_send = 1 is sent anything.
NetSendProcess(u) ==
  IF users[u].is_send = 1 THEN pc' = "send" /\ ev' = u
                          ELSE pc' = "wait" /\ ev' = 0

\* EPOLLOUT alone.
EventOut_Dropped(u) ==
  /\ pc = "wait"
  /\ edge[u]
  /\ edge' = [edge EXCEPT ![u] = FALSE]
  /\ UNCHANGED <<users, lists, thread, blocked, ghosts>>
EventOut(u) ==
  /\ pc = "wait"
  /\ edge[u]
  /\ edge' = [edge EXCEPT ![u] = FALSE]
  /\ NetSendProcess(u)
  /\ UNCHANGED <<users, lists, alsoOut, fan, blocked, ghosts>>

\* EPOLLERR or EPOLLHUP: the peer is gone.
EventHup(u) ==
  /\ pc = "wait"
  /\ users[u].kind # "free"
  /\ Close(u)
  /\ UNCHANGED <<lists, thread>>

\* The viewer reads: the socket can take more, and epoll notes the edge.
Drain(u) ==
  /\ blocked[u]
  /\ blocked' = [blocked EXCEPT ![u] = FALSE]
  /\ edge' = [edge EXCEPT ![u] = TRUE]
  /\ UNCHANGED <<users, lists, thread, ghosts>>

-----------------------------------------------------------------------------
(***************************************************************************)
(* local_recv_process: one pass of its loop per action.                    *)
(***************************************************************************)
Register_NoLimit(c) == registered' = registered \cup {c}
Register(c) ==
  registered' = IF Cardinality(registered) < MAX_CH \/ c \in registered
                THEN registered \cup {c} ELSE registered

\* A packet of a channel nobody asked for is freed at once.
DropPacket(c) ==
  /\ pc = "local"
  /\ ChannelUsers(c) = {}
  /\ Register(c)
  /\ UNCHANGED <<users, head, tail, list_len, thread, kernel, ghosts>>

\* One more packet does not fit into the list.
Overflow_OffByOne(c) == list_len[c] + 1 >= MAX_LIST_LEN
Overflow(c) == list_len[c] + 1 > MAX_LIST_LEN

\* get_user_node(index) == head: the users the oldest packet is still held for.
AtHead_Sending(c) == {u \in Slots : users[u].is_send = 1 /\ users[u].node = Node(c, head[c])}
AtHead(c) == {u \in Slots : users[u].node = Node(c, head[c])}

\* append_node; on overflow the users at the head are closed and the head is
\* freed; set_new_req_user then puts the waiting viewers on the new packet.
QueuePacket(c) ==
  LET n    == tail[c] + 1
      full == Overflow(c)
      Cut  == IF full THEN AtHead(c) ELSE {}
      Kept(u) == IF u \in Cut THEN InitUser ELSE users[u]
  IN
  /\ pc = "local"
  /\ ChannelUsers(c) # {}
  /\ n =< MaxPackets
  /\ Register(c)
  /\ tail' = [tail EXCEPT ![c] = n]
  /\ head' = [head EXCEPT ![c] = IF full THEN DelHead(@, n) ELSE @]
  /\ list_len' = [list_len EXCEPT ![c] = IF full THEN @ ELSE @ + 1]
  /\ users' = [u \in Slots |-> IF Waiting(Kept(u), c) THEN Attach(Kept(u), Node(c, n))
                                                      ELSE Kept(u)]
  /\ CloseAll(Cut)
  /\ UNCHANGED thread

\* EAGAIN ends the loop; send_user_process follows.
LocalDone_NoFan ==
  /\ pc = "local"
  /\ pc' = "wait" /\ ev' = 0
  /\ UNCHANGED <<users, lists, alsoOut, fan, kernel, ghosts>>
LocalDone ==
  /\ pc = "local"
  /\ pc' = "fan" /\ fan' = 1
  /\ UNCHANGED <<users, lists, ev, alsoOut, kernel, ghosts>>

\* End of file or an error: the ingest connection is closed first.
LocalFails ==
  /\ pc = "local"
  /\ pc' = "fan" /\ fan' = 1
  /\ Close(ev)
  /\ UNCHANGED <<lists, ev, alsoOut>>

-----------------------------------------------------------------------------
(***************************************************************************)
(* net_recv_process: one message per action.  Reply(r, a) is the end of a  *)
(* pass, r being the user_t the handler leaves and a whether this LOGIN    *)
(* was accepted: the reply is written straight to the socket; a refused    *)
(* viewer (m_is_send = -1) or a failed write closes the connection and     *)
(* leaves the loop; a short write is not remembered.                       *)
(***************************************************************************)
NetCloses ==
  /\ Close(ev)
  /\ pc' = "fan" /\ fan' = 1
  /\ UNCHANGED <<lists, ev, alsoOut>>

Reply(r, a) ==
  \/ NetCloses
  \/ /\ r.is_send # -1
     /\ users' = [users EXCEPT ![ev] = r]
     /\ auth' = [auth EXCEPT ![ev] = @ \/ a]
     /\ \/ blocked[ev] /\ UNCHANGED kernel
        \/ /\ ~blocked[ev]
           /\ \E short \in Bool : blocked' = [blocked EXCEPT ![ev] = short]
           /\ edge' = [edge EXCEPT ![ev] = @ /\ ~blocked'[ev]]
     /\ UNCHANGED <<lists, thread, wire>>

\* MSG_TYPE_LOGIN: first the limits, then check_net_user.
NetLogin(overloaded, valid) ==
  /\ pc = "net"
  /\ LET ok == ~overloaded /\ OnlineUsers < UserLimit /\ valid
     IN  Reply([users[ev] EXCEPT !.is_send = IF ok THEN 0 ELSE -1], ok)

\* MSG_TYPE_DATAREQ: is_valid_channel_id sees the id cut to 16 bits.
NetDataReq_AnyTime(chid) ==
  /\ pc = "net"
  /\ LET r  == users[ev]
         ok == chid % UINT16 \in registered /\ r.is_send # -1
     IN  Reply(IF ok THEN [r EXCEPT !.channel = chid]
                     ELSE [r EXCEPT !.is_send = -1], FALSE)
NetDataReq(chid) ==
  /\ pc = "net"
  /\ LET r  == users[ev]
         ok == chid % UINT16 \in registered /\ r.is_send = 0
     IN  Reply(IF ok THEN [r EXCEPT !.channel = chid]
                     ELSE [r EXCEPT !.is_send = -1], FALSE)

\* Any other type of message.
NetUnknown ==
  /\ pc = "net"
  /\ Reply([users[ev] EXCEPT !.is_send = -1], FALSE)

\* End of file or an error of recv.
NetFails == pc = "net" /\ NetCloses

\* EAGAIN, or a message without a body.
NetDone ==
  /\ pc = "net"
  /\ pc' = "fan" /\ fan' = 1
  /\ UNCHANGED <<users, lists, ev, alsoOut, kernel, ghosts>>

-----------------------------------------------------------------------------
(***************************************************************************)
(* send_user_process: one slot per action.                                 *)
(***************************************************************************)
FanVisit ==
  /\ pc = "fan"
  /\ fan \in Slots
  /\ IF users[fan].kind = "net" /\ users[fan].is_send = 1
     THEN pc' = "send" /\ UNCHANGED fan
     ELSE fan' = fan + 1 /\ UNCHANGED pc
  /\ UNCHANGED <<users, lists, ev, alsoOut, kernel, ghosts>>

\* The loop ends; the EPOLLOUT of the same event is still to be handled,
\* unless the connection was closed meanwhile.
FanEnd ==
  /\ pc = "fan"
  /\ fan = MAX_USERS + 1
  /\ fan' = 0
  /\ alsoOut' = FALSE
  /\ IF alsoOut /\ users[ev].kind = "net" THEN NetSendProcess(ev)
                                          ELSE pc' = "wait" /\ ev' = 0
  /\ UNCHANGED <<users, lists, kernel, ghosts>>

-----------------------------------------------------------------------------
(***************************************************************************)
(* send_client_video_data for user Cur: one pass of its loop per action.   *)
(* Prepared is the move to the next node the pass starts with when the     *)
(* last one had left the user at the end of the list.                      *)
(***************************************************************************)
Cur == IF fan = 0 THEN ev ELSE fan

\* Back to the caller: send_user_process, or the handler of EPOLLOUT.
SendReturn ==
  IF fan = 0 THEN pc' = "wait" /\ ev' = 0 /\ UNCHANGED <<fan, alsoOut>>
             ELSE pc' = "fan" /\ fan' = fan + 1 /\ UNCHANGED <<ev, alsoOut>>

CaughtUp(r) == r.status = "NOT_CAN_SEND" /\ ~HasNext(r.node)

\* The whole rest of the packet goes out; the next node is made ready.
SendFull ==
  LET r == Prepared(users[Cur]) IN
  /\ pc = "send"
  /\ ~CaughtUp(users[Cur])
  /\ ~blocked[Cur]
  /\ users' = [users EXCEPT ![Cur] = ReadyNext(r)]
  /\ wire' = [wire EXCEPT ![Cur] = Wrote(@, r.data, PktLen - r.left, PktLen)]
  /\ UNCHANGED <<lists, thread, kernel, auth>>

\* Only k units fit; the rest waits for EPOLLOUT.
SendShort_Restart(k) ==
  LET r == Prepared(users[Cur]) IN
  /\ pc = "send"
  /\ ~CaughtUp(users[Cur])
  /\ ~blocked[Cur]
  /\ k < r.left
  /\ users' = [users EXCEPT ![Cur] = [r EXCEPT !.status = "NOT_AFTER_SENDING"]]
  /\ wire' = [wire EXCEPT ![Cur] = Wrote(@, r.data, PktLen - r.left, PktLen - r.left + k)]
  /\ blocked' = [blocked EXCEPT ![Cur] = TRUE]
  /\ edge' = [edge EXCEPT ![Cur] = FALSE]
  /\ SendReturn
  /\ UNCHANGED <<lists, auth>>
SendShort(k) ==
  LET r == Prepared(users[Cur]) IN
  /\ pc = "send"
  /\ ~CaughtUp(users[Cur])
  /\ ~blocked[Cur]
  /\ k < r.left
  /\ users' = [users EXCEPT ![Cur] = [r EXCEPT !.status = "NOT_AFTER_SENDING",
                                               !.left = @ - k]]
  /\ wire' = [wire EXCEPT ![Cur] = Wrote(@, r.data, PktLen - r.left, PktLen - r.left + k)]
  /\ blocked' = [blocked EXCEPT ![Cur] = TRUE]
  /\ edge' = [edge EXCEPT ![Cur] = FALSE]
  /\ SendReturn
  /\ UNCHANGED <<lists, auth>>

\* EAGAIN before the first unit.
SendAgain ==
  /\ pc = "send"
  /\ ~CaughtUp(users[Cur])
  /\ blocked[Cur]
  /\ users' = [users EXCEPT ![Cur] =
                 [Prepared(users[Cur]) EXCEPT !.status = "NOT_AFTER_SENDING"]]
  /\ SendReturn
  /\ UNCHANGED <<lists, kernel, ghosts>>

\* Any other error closes the viewer.
SendFails ==
  /\ pc = "send"
  /\ ~CaughtUp(users[Cur])
  /\ Close(Cur)
  /\ SendReturn
  /\ UNCHANGED lists

\* ready_next_node finds no next node.
SendIdle ==
  /\ pc = "send"
  /\ CaughtUp(users[Cur])
  /\ users' = [users EXCEPT ![Cur] = ReadyNext(@)]
  /\ SendReturn
  /\ UNCHANGED <<lists, kernel, ghosts>>

-----------------------------------------------------------------------------
LocalRecv == LocalDone \/ LocalFails \/ \E c \in Channels : DropPacket(c) \/ QueuePacket(c)

NetRecv == \/ NetDone \/ NetFails \/ NetUnknown
           \/ \E overloaded, valid \in Bool : NetLogin(overloaded, valid)
           \/ \E chid \in ReqIds : NetDataReq(chid)

SendLoop == \/ SendFull \/ SendAgain \/ SendFails \/ SendIdle
            \/ \E k \in 1..(PktLen - 1) : SendShort(k)

Events == \/ Accept("local") \/ Accept("net")
          \/ \E u \in Slots : EventIn(u) \/ EventOut(u) \/ EventHup(u)

Next == \/ Events \/ LocalRecv \/ NetRecv \/ FanVisit \/ FanEnd \/ SendLoop
        \/ \E u \in Slots : Drain(u)

Spec == Init /\ [][Next]_vars

(***************************************************************************)
(* Fairness: the thread does not stop inside a handler; the ingest sockets *)
(* and the viewers' requests run dry now and then (LocalDone, NetDone);    *)
(* epoll serves its ready list in turn, so an edge is collected in the end *)
(* however many other events there are; and a viewer in Draining reads.    *)
(***************************************************************************)
Fairness == /\ WF_vars(FanVisit \/ FanEnd \/ SendLoop)
            /\ WF_vars(LocalDone) /\ WF_vars(NetDone)
            /\ \A u \in Slots : SF_vars(EventOut(u))
            /\ \A u \in Draining : WF_vars(Drain(u))
FairSpec == Spec /\ Fairness

-----------------------------------------------------------------------------
(***************************************************************************)
(* Properties.                                                             *)
(***************************************************************************)

TableType ==
  /\ users \in [Slots -> User]
  /\ blocked \in [Slots -> BOOLEAN] /\ edge \in [Slots -> BOOLEAN]
  /\ wire \in [Slots -> Position \cup {NoPos, Garbled}]
  /\ auth \in [Slots -> BOOLEAN]
ListType ==
  /\ registered \subseteq Channels /\ Cardinality(registered) =< MAX_CH
  /\ head \in [Channels -> Nat \ {0}] /\ tail \in [Channels -> Nat]
  /\ list_len \in [Channels -> 0..MAX_LIST_LEN]
ThreadType ==
  /\ pc \in {"wait", "local", "net", "fan", "send"}
  /\ ev \in Slots \cup {0} /\ alsoOut \in BOOLEAN
  /\ fan \in 0..(MAX_USERS + 1)

\* The variables have their types; the channel table never holds more than
\* MAX_CH ids (get_local_data_index), a list no more than MAX_LIST_LEN packets.
TypeOK == TableType /\ ListType /\ ThreadType

\* No user's m_node, and no packet its m_media_d still points into, has been
\* freed by the eviction in local_recv_process (client.c:130-149).
CursorLive ==
  \A u \in Slots : LET r == users[u] IN
    /\ r.node # NoNode => InList(r.node)
    /\ r.data # NoNode => r.data = r.node

\* list_len, kept by hand beside the linked list, is the length of the list, so
\* the bound MAX_LIST_LEN bounds the memory a channel really holds.
ListLenExact ==
  \A c \in Channels : list_len[c] = tail[c] - head[c] + 1

\* Something of its channel is still to be sent to u.
Lagging(u) == users[u].is_send = 1 /\ ~CaughtUp(users[u])

\* The thread never sleeps in epoll_wait while a viewer it owes data has a
\* writable socket of which no edge is pending: with EPOLLET nothing would ever
\* wake it up for that viewer.
NoLostWakeup ==
  pc = "wait" => \A u \in Slots : Lagging(u) => blocked[u] \/ edge[u]

\* Media is written, and a viewer counts as asking for a channel, only on a
\* connection whose LOGIN passed check_net_user (user.h:23).
AuthBeforeMedia ==
  \A u \in Slots : wire[u] # NoPos \/ users[u].channel # NoChannel => auth[u]

\* A viewer being sent to has its cursor in the list of the channel it asked for
\* last: no sequence of LOGIN and DATAREQ makes the two diverge while media flows.
FollowsRequest ==
  \A u \in Slots : users[u].is_send = 1 => users[u].node.ch = users[u].channel

\* Queueing a packet of c closes a viewer only if that viewer still stands on the
\* oldest packet of a full list of c, and touches no viewer of another channel.
EvictsOnlyLaggards ==
  [][\A c \in Channels : tail'[c] # tail[c] =>
       \A u \in Slots : users'[u] # users[u] =>
         \/ users[u].channel = c /\ users'[u] = Attach(users[u], Node(c, tail'[c]))
         \/ /\ users'[u] = InitUser
            /\ users[u].node.ch = c
            /\ tail[c] - users[u].node.num + 1 = MAX_LIST_LEN]_vars

\* What reaches the viewers is what LiveStream promises: each connection gets one
\* channel from the start of a packet, nothing twice, nothing missing.
Stream == INSTANCE LiveStream WITH pub <- tail, at <- wire, Conns <- Slots
StreamSpec == Stream!Spec

\* A viewer that keeps reading gets every packet queued while it is being sent
\* to, whatever the other viewers do, unless it is closed or logs in again.
Delivery ==
  \A u \in Draining, c \in Channels, n \in 1..MaxPackets :
    (users[u].is_send = 1 /\ users[u].node.ch = c /\ tail[c] = n)
      ~> \/ users[u].is_send # 1
         \/ wire[u].ch = c /\ (wire[u].num > n \/ (wire[u].num = n /\ wire[u].off = PktLen))

-----------------------------------------------------------------------------
(***************************************************************************)
(* The inductive invariant behind the safety properties.                   *)
(***************************************************************************)

\* The user_t of slot u against the lists and against what was written so far.
Cursor(r, w) ==
  /\ InList(r.node)
  /\ \/ /\ r.status = "NOT_CAN_SEND"
        /\ r.data = NoNode /\ r.left = 0
        /\ w = [ch |-> r.node.ch, num |-> r.node.num, off |-> PktLen]
     \/ /\ r.status \in {"NOT_AFTER_SENDING", "IS_SENDING"}
        /\ r.data = r.node /\ r.left \in 1..PktLen
        /\ IF r.left = PktLen
           THEN w \in {NoPos, [ch |-> r.node.ch, num |-> r.node.num - 1, off |-> PktLen]}
           ELSE w = [ch |-> r.node.ch, num |-> r.node.num, off |-> PktLen - r.left]

NoCursor(r, w) ==
  /\ r.node = NoNode /\ r.status = "NOT_SENT"
  /\ r.data = NoNode /\ r.left = 0
  /\ w = NoPos

UserOK(u) ==
  LET r == users[u] IN
  /\ r.kind # "net" => r.is_send = -1 /\ ~edge[u] /\ ~blocked[u]
  /\ r.is_send # -1 => auth[u]
  /\ r.channel # NoChannel => r.is_send # -1
  /\ \/ NoCursor(r, wire[u]) /\ r.is_send # 1
     \/ Cursor(r, wire[u]) /\ r.channel # NoChannel
  /\ r.is_send = 1 => r.node.ch = r.channel

UserInv == \A u \in Slots : UserOK(u)

\* Where the thread is, and whom it is working for.
ThreadInv ==
  /\ pc = "wait" => fan = 0 /\ ev = 0
  /\ pc \in {"local", "net"} => fan = 0 /\ ev \in Slots /\ users[ev].kind = pc
  /\ pc = "fan" => fan # 0 /\ ev \in Slots
  /\ pc = "send" => Cur \in Slots /\ ev \in Slots /\ users[Cur].is_send = 1

\* The users the thread is done with for this event.
Served(u) == \/ pc = "wait"
             \/ pc = "fan" /\ u < fan
             \/ pc = "send" /\ IF fan = 0 THEN u # ev ELSE u < fan

WakeInv == \A u \in Slots : Served(u) /\ Lagging(u) => blocked[u] \/ edge[u]

IInv == TypeOK /\ ListLenExact /\ UserInv /\ ThreadInv /\ WakeInv

-----------------------------------------------------------------------------
(***************************************************************************)
(* What the documents say and the code does not do.                        *)
(***************************************************************************)

\* pkg/readme: the number of viewers online is limited (UserLimit).
OnlineWithinLimit == OnlineUsers =< UserLimit

\* Part of a packet is on the wire, the rest is not.
InPacket(w) == w.off \in 1..(PktLen - 1)

\* client.c:33-34: a reply is put in only where a node has just begun to be sent.
\* A LOGIN or DATAREQ that changed the user was answered on its writable socket.
Answered == pc = "net" /\ pc' = "net" /\ ~blocked[ev] /\ users'[ev] # users[ev]
ReplyAtFrameBoundary == [][Answered => ~InPacket(wire[ev])]_vars

=============================================================================
