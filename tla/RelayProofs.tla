---------------------------- MODULE RelayProofs ----------------------------
(***************************************************************************)
(* Proofs about Relay, for every table size, list bound, packet length and *)
(* set of channels.  IInv is inductive; the safety properties follow.      *)
(***************************************************************************)
EXTENDS Relay, TLAPS, FiniteSetTheorems

-----------------------------------------------------------------------------
(***************************************************************************)
(* The functions on one user_t: what they return, field by field.          *)
(***************************************************************************)
LEMMA Constants ==
  /\ PktLen \in Nat /\ PktLen > 0 /\ MAX_LIST_LEN \in Nat /\ MAX_LIST_LEN > 0
  /\ MAX_USERS \in Nat /\ MAX_USERS > 0 /\ MAX_CH \in Nat
  /\ NoChannel \notin Channels /\ NoChannel = -1
  /\ 0 \notin Slots /\ Slots \subseteq Nat
BY SizeAssumption, IdAssumption DEF NoChannel, Slots

LEMMA InitUserType == InitUser \in User
<1>1. 0 \in 0..PktLen
  BY Constants
<1> QED BY <1>1 DEF InitUser, User, Status

LEMMA UserFields ==
  ASSUME NEW r \in User
  PROVE  /\ r.kind \in {"free", "local", "net"} /\ r.is_send \in {-1, 0, 1}
         /\ r.status \in Status /\ r.channel \in ReqIds \cup {NoChannel}
         /\ r.node \in Nodes \cup {NoNode} /\ r.data \in Nodes \cup {NoNode}
         /\ r.left \in 0..PktLen
BY DEF User

LEMMA NoNodeApart == NoNode \notin Nodes
BY DEF NoNode, Nodes

LEMMA NodeFields ==
  ASSUME NEW c \in Channels, NEW n \in Nat \ {0}
  PROVE  Node(c, n) \in Nodes /\ Node(c, n).ch = c /\ Node(c, n).num = n
BY DEF Node, Nodes

LEMMA AttachFields ==
  ASSUME NEW r \in User, NEW n \in Nodes
  PROVE  LET s == Attach(r, n) IN
         /\ s \in User
         /\ s.kind = r.kind /\ s.is_send = 1 /\ s.status = "NOT_AFTER_SENDING"
         /\ s.channel = r.channel /\ s.node = n /\ s.data = n /\ s.left = PktLen
<1>1. PktLen \in 0..PktLen /\ "NOT_AFTER_SENDING" \in Status /\ 1 \in {-1, 0, 1}
  BY Constants DEF Status
<1>2. n \in Nodes \cup {NoNode}
  OBVIOUS
<1> QED BY <1>1, <1>2, Zenon DEF Attach, User

\* ready_next_node with a next node.
LEMMA ReadyNextFields ==
  ASSUME NEW r \in User, r.node \in Nodes, HasNext(r.node)
  PROVE  LET s == ReadyNext(r)
             n == Node(r.node.ch, r.node.num + 1)
         IN  /\ s \in User /\ n \in Nodes
             /\ s.kind = r.kind /\ s.is_send = r.is_send /\ s.status = "IS_SENDING"
             /\ s.channel = r.channel /\ s.node = n /\ s.data = n /\ s.left = PktLen
<1> DEFINE n == Node(r.node.ch, r.node.num + 1)
<1>1. PktLen \in 0..PktLen /\ "IS_SENDING" \in Status
  BY Constants DEF Status
<1>2. n \in Nodes /\ n \in Nodes \cup {NoNode}
  BY DEF Node, Nodes
<1>3. ReadyNext(r) = [r EXCEPT !.status = "IS_SENDING", !.node = n, !.data = n, !.left = PktLen]
  BY Zenon DEF ReadyNext
<1> HIDE DEF n
<1>4. /\ ReadyNext(r) \in User
      /\ ReadyNext(r).kind = r.kind /\ ReadyNext(r).is_send = r.is_send
      /\ ReadyNext(r).status = "IS_SENDING"
      /\ ReadyNext(r).channel = r.channel /\ ReadyNext(r).node = n
      /\ ReadyNext(r).data = n /\ ReadyNext(r).left = PktLen
  BY <1>1, <1>2, <1>3, Zenon DEF User
<1> QED BY <1>2, <1>4, Zenon DEF n

\* ready_next_node at the end of the list.
LEMMA ReadyNextIdle ==
  ASSUME NEW r \in User, ~HasNext(r.node)
  PROVE  LET s == ReadyNext(r) IN
         /\ s \in User
         /\ s.kind = r.kind /\ s.is_send = r.is_send /\ s.status = "NOT_CAN_SEND"
         /\ s.channel = r.channel /\ s.node = r.node /\ s.data = NoNode /\ s.left = 0
<1>1. 0 \in 0..PktLen /\ "NOT_CAN_SEND" \in Status /\ NoNode \in Nodes \cup {NoNode}
  BY Constants DEF Status
<1>2. ReadyNext(r) = [r EXCEPT !.status = "NOT_CAN_SEND", !.data = NoNode, !.left = 0]
  BY Zenon DEF ReadyNext
<1> QED BY <1>1, <1>2, Zenon DEF User

-----------------------------------------------------------------------------
LEMMA InitIInv == Init => IInv
<1> SUFFICES ASSUME Init PROVE IInv
  OBVIOUS
<1> USE Constants
<1>1. TypeOK
  <2>1. users \in [Slots -> User]
    BY InitUserType DEF Init
  <2>2. registered \subseteq Channels /\ Cardinality(registered) =< MAX_CH
    BY FS_EmptySet DEF Init
  <2>3. /\ head \in [Channels -> Nat \ {0}] /\ tail \in [Channels -> Nat]
        /\ list_len \in [Channels -> 0..MAX_LIST_LEN]
    BY DEF Init
  <2>4. wire \in [Slots -> Position \cup {NoPos, Garbled}]
    BY DEF Init
  <2>5. /\ blocked \in [Slots -> BOOLEAN] /\ edge \in [Slots -> BOOLEAN]
        /\ auth \in [Slots -> BOOLEAN] /\ alsoOut \in BOOLEAN
    BY DEF Init
  <2>6. ev \in Slots \cup {0} /\ fan \in 0..(MAX_USERS + 1) /\ pc = "wait"
    BY DEF Init
  <2> QED BY <2>1, <2>2, <2>3, <2>4, <2>5, <2>6 DEF TypeOK, TableType, ListType, ThreadType
<1>2. ListLenExact
  BY DEF Init, ListLenExact
<1>3. UserInv
  BY DEF Init, UserInv, UserOK, InitUser, NoCursor
<1>4. ThreadInv
  BY DEF Init, ThreadInv
<1>5. WakeInv
  BY DEF Init, WakeInv, Lagging, InitUser
<1> QED BY <1>1, <1>2, <1>3, <1>4, <1>5 DEF IInv


-----------------------------------------------------------------------------
(***************************************************************************)
(* Frame lemmas: what a step that touches one slot, or the thread alone,   *)
(* leaves true.                                                            *)
(***************************************************************************)
SameSlot(u) == /\ users'[u] = users[u] /\ wire'[u] = wire[u] /\ auth'[u] = auth[u]
               /\ edge'[u] = edge[u] /\ blocked'[u] = blocked[u]

LEMMA OneUser ==
  ASSUME UserInv, NEW x \in Slots, UNCHANGED lists,
         \A u \in Slots \ {x} : SameSlot(u),
         UserOK(x)'
  PROVE  UserInv'
<1> SUFFICES ASSUME NEW u \in Slots, u # x PROVE UserOK(u)'
  BY DEF UserInv
<1>1. UserOK(u) /\ SameSlot(u)
  BY DEF UserInv
<1> QED BY <1>1 DEF UserOK, SameSlot, Cursor, NoCursor, InList, lists

LEMMA SameLists ==
  ASSUME ListType, ListLenExact, UNCHANGED lists
  PROVE  ListType' /\ ListLenExact'
BY DEF ListType, ListLenExact, lists

LEMMA CloseEffect ==
  ASSUME TableType, NEW x \in Slots, Close(x)
  PROVE  /\ TableType'
         /\ users'[x] = InitUser /\ wire'[x] = NoPos
         /\ ~edge'[x] /\ ~blocked'[x]
         /\ UserOK(x)'
         /\ \A u \in Slots \ {x} : SameSlot(u)
<1>1. TableType'
  BY InitUserType, Zenon DEF TableType, Close
<1>2. /\ users'[x] = InitUser /\ wire'[x] = NoPos
      /\ ~edge'[x] /\ ~blocked'[x]
  BY DEF TableType, Close
<1>3. UserOK(x)'
  BY <1>2 DEF UserOK, InitUser, NoCursor
<1>4. \A u \in Slots \ {x} : SameSlot(u)
  BY DEF TableType, Close, SameSlot
<1> QED BY <1>1, <1>2, <1>3, <1>4

-----------------------------------------------------------------------------
(***************************************************************************)
(* The events.                                                             *)
(***************************************************************************)
LEMMA AcceptStep ==
  ASSUME IInv, NEW kind \in {"local", "net"}, Accept(kind)
  PROVE  IInv'
<1> USE DEF IInv
<1>1. PICK x \in Slots :
        /\ users[x].kind = "free"
        /\ users' = [users EXCEPT ![x].kind = kind]
        /\ edge' = [edge EXCEPT ![x] = (kind = "net")]
  BY Zenon DEF Accept
<1>2. /\ pc = "wait" /\ UNCHANGED thread /\ UNCHANGED lists
      /\ UNCHANGED <<blocked, wire, auth>>
  BY DEF Accept, ghosts
<1>3. TableType /\ ListType /\ ThreadType
  BY DEF TypeOK
<1> DEFINE r == [users[x] EXCEPT !.kind = kind]
<1>4. users[x] \in User
  BY <1>3 DEF TableType
<1>5. /\ r \in User
      /\ r.kind = kind /\ r.is_send = users[x].is_send /\ r.status = users[x].status
      /\ r.channel = users[x].channel /\ r.node = users[x].node
      /\ r.data = users[x].data /\ r.left = users[x].left
  BY <1>4, Zenon DEF User
<1>6. users' = [users EXCEPT ![x] = r]
  BY <1>1, <1>3, Zenon DEF TableType
<1> HIDE DEF r
<1>7. TableType'
  BY <1>1, <1>2, <1>3, <1>5, <1>6 DEF TableType
<1>8. ListType' /\ ListLenExact' /\ ThreadType'
  BY <1>2, <1>3, SameLists DEF ThreadType, thread
<1>9. UserInv'
  <2>1. users'[x] = r /\ edge'[x] = (kind = "net") /\ UNCHANGED <<blocked[x], wire[x], auth[x]>>
    BY <1>1, <1>2, <1>3, <1>6 DEF TableType
  <2>2. UserOK(x)
    BY DEF UserInv
  <2>3. UserOK(x)'
    BY <1>1, <1>2, <1>5, <2>1, <2>2
       DEF UserOK, NoCursor, Cursor, InList, lists
  <2>4. \A u \in Slots \ {x} : SameSlot(u)
    BY <1>1, <1>2, <1>3, <1>6 DEF TableType, SameSlot
  <2> QED BY <1>2, <2>3, <2>4, OneUser
<1>10. ThreadInv'
  BY <1>2 DEF ThreadInv, thread
<1>11. WakeInv'
  <2> SUFFICES ASSUME NEW u \in Slots, Lagging(u)' PROVE (blocked[u] \/ edge[u])'
    BY DEF WakeInv
  <2>1. CASE u = x
    BY <2>1, <1>5, <1>6, <1>3, <1>1 DEF Lagging, UserInv, UserOK, TableType
  <2>2. CASE u # x
    BY <2>2, <1>1, <1>2, <1>3, <1>6
       DEF Lagging, CaughtUp, HasNext, WakeInv, Served, TableType, lists, thread
  <2> QED BY <2>1, <2>2
<1> QED BY <1>7, <1>8, <1>9, <1>10, <1>11 DEF TypeOK

\* A user that keeps all it had, and was served already, still is not owed.
LEMMA WakeKept ==
  ASSUME TableType, WakeInv, UNCHANGED lists,
         \A u \in Slots : Served(u)' /\ Lagging(u)' => Served(u) /\ SameSlot(u)
  PROVE  WakeInv'
BY DEF WakeInv, SameSlot, Lagging, CaughtUp, HasNext, lists

LEMMA EventInStep ==
  ASSUME IInv, NEW u \in Slots, EventIn(u)
  PROVE  IInv'
<1> USE Constants DEF IInv, TypeOK
<1>1. /\ pc = "wait" /\ users[u].kind \in {"local", "net"}
      /\ pc' = users[u].kind /\ ev' = u /\ alsoOut' \in BOOLEAN
      /\ edge' = [edge EXCEPT ![u] = FALSE]
      /\ UNCHANGED <<users, fan, blocked, wire, auth>> /\ UNCHANGED lists
      /\ fan = 0
  BY UserFields DEF EventIn, TableType, ThreadInv, ghosts
<1>2. TypeOK' /\ ListLenExact'
  BY <1>1, SameLists DEF TableType, ThreadType
<1>3. UserInv'
  BY <1>1 DEF UserInv, UserOK, TableType, Cursor, NoCursor, InList, lists
<1>4. ThreadInv' /\ WakeInv'
  BY <1>1 DEF ThreadInv, WakeInv, Served
<1> QED BY <1>2, <1>3, <1>4

LEMMA EventOutStep ==
  ASSUME IInv, NEW u \in Slots, EventOut(u)
  PROVE  IInv'
<1> USE Constants DEF IInv, TypeOK
<1>1. /\ pc = "wait" /\ fan = 0 /\ edge' = [edge EXCEPT ![u] = FALSE]
      /\ UNCHANGED <<users, alsoOut, fan, blocked, wire, auth>> /\ UNCHANGED lists
      /\ NetSendProcess(u)
  BY DEF EventOut, ThreadInv, ghosts
<1>2. TypeOK' /\ ListLenExact'
  BY <1>1, SameLists DEF TableType, ThreadType, NetSendProcess
<1>3. UserInv'
  BY <1>1 DEF UserInv, UserOK, TableType, Cursor, NoCursor, InList, lists
<1>4. ThreadInv'
  BY <1>1 DEF ThreadInv, NetSendProcess, Cur
<1>5. ASSUME NEW v \in Slots, Served(v)', Lagging(v)' PROVE Served(v) /\ SameSlot(v)
  BY <1>1, <1>5 DEF Served, Lagging, NetSendProcess, SameSlot, TableType
<1>6. WakeInv'
  BY <1>1, <1>5, WakeKept
<1> QED BY <1>2, <1>3, <1>4, <1>6

LEMMA EventHupStep ==
  ASSUME IInv, NEW u \in Slots, EventHup(u)
  PROVE  IInv'
<1> USE DEF IInv, TypeOK
<1>1. pc = "wait" /\ Close(u) /\ UNCHANGED thread /\ UNCHANGED lists
  BY DEF EventHup
<1>2. TypeOK' /\ ListLenExact' /\ UserInv'
  BY <1>1, CloseEffect, OneUser, SameLists DEF ThreadType, thread
<1>3. ThreadInv'
  BY <1>1 DEF ThreadInv, thread
<1>4. ASSUME NEW v \in Slots, Served(v)', Lagging(v)' PROVE Served(v) /\ SameSlot(v)
  BY <1>1, <1>4, CloseEffect DEF Served, Lagging, thread, InitUser
<1>5. WakeInv'
  BY <1>1, <1>4, WakeKept
<1> QED BY <1>2, <1>3, <1>5

LEMMA DrainStep ==
  ASSUME IInv, NEW u \in Slots, Drain(u)
  PROVE  IInv'
<1> USE DEF IInv, TypeOK
<1>1. /\ blocked[u]
      /\ blocked' = [blocked EXCEPT ![u] = FALSE] /\ edge' = [edge EXCEPT ![u] = TRUE]
      /\ UNCHANGED <<users, wire, auth>> /\ UNCHANGED lists /\ UNCHANGED thread
  BY DEF Drain, ghosts
<1>2. TypeOK' /\ ListLenExact'
  BY <1>1, SameLists DEF TableType, ThreadType, thread
<1>3. UserInv'
  BY <1>1 DEF UserInv, UserOK, TableType, Cursor, NoCursor, InList, lists
<1>4. ThreadInv'
  BY <1>1 DEF ThreadInv, thread, Cur
<1>5. WakeInv'
  BY <1>1 DEF WakeInv, Served, Lagging, CaughtUp, HasNext, lists, thread, TableType
<1> QED BY <1>2, <1>3, <1>4, <1>5

-----------------------------------------------------------------------------
(***************************************************************************)
(* local_recv_process.                                                     *)
(***************************************************************************)
LEMMA RegisterType ==
  ASSUME ListType, NEW c \in Channels, Register(c)
  PROVE  registered' \subseteq Channels /\ Cardinality(registered') =< MAX_CH
<1> USE Constants
<1>1. IsFiniteSet(Channels)
  BY IdAssumption, SizeAssumption, FS_Interval, FS_Subset, 0 \in Int, UINT16 - 1 \in Int
<1>2. IsFiniteSet(registered) /\ Cardinality(registered) \in Nat
  BY <1>1, FS_Subset, FS_CardinalityType DEF ListType
<1>3. CASE c \in registered
  <2>1. registered' = registered
    BY <1>3 DEF Register
  <2> QED BY <2>1 DEF ListType
<1>4. CASE c \notin registered
  <2>1. Cardinality(registered \cup {c}) = Cardinality(registered) + 1
    BY <1>2, <1>4, FS_AddElement
  <2> QED BY <1>2, <1>4, <2>1 DEF Register, ListType
<1> QED BY <1>3, <1>4

LEMMA DropPacketStep ==
  ASSUME IInv, NEW c \in Channels, DropPacket(c)
  PROVE  IInv'
<1> USE DEF IInv, TypeOK
<1>1. /\ Register(c) /\ UNCHANGED <<head, tail, list_len>>
      /\ UNCHANGED <<users, blocked, edge, wire, auth>> /\ UNCHANGED thread
  BY DEF DropPacket, kernel, ghosts
<1>2. TypeOK' /\ ListLenExact'
  BY <1>1, RegisterType DEF TableType, ThreadType, ListType, ListLenExact, thread
<1>3. UserInv'
  BY <1>1 DEF UserInv, UserOK, Cursor, NoCursor, InList
<1>4. ThreadInv' /\ WakeInv'
  BY <1>1 DEF ThreadInv, WakeInv, Served, Lagging, CaughtUp, HasNext, thread, Cur
<1> QED BY <1>2, <1>3, <1>4

LEMMA LocalDoneStep ==
  ASSUME IInv, LocalDone
  PROVE  IInv'
<1> USE Constants DEF IInv, TypeOK
<1>1. /\ pc = "local" /\ pc' = "fan" /\ fan' = 1 /\ UNCHANGED <<ev, alsoOut>>
      /\ UNCHANGED <<users, blocked, edge, wire, auth>> /\ UNCHANGED lists
  BY DEF LocalDone, kernel, ghosts
<1>2. TypeOK' /\ ListLenExact'
  BY <1>1, SameLists DEF TableType, ThreadType
<1>3. UserInv'
  BY <1>1 DEF UserInv, UserOK, Cursor, NoCursor, InList, lists
<1>4. ThreadInv' /\ WakeInv'
  BY <1>1 DEF ThreadInv, WakeInv, Served, Slots
<1> QED BY <1>2, <1>3, <1>4

LEMMA LocalFailsStep ==
  ASSUME IInv, LocalFails
  PROVE  IInv'
<1> USE Constants DEF IInv, TypeOK
<1>1. /\ pc' = "fan" /\ fan' = 1 /\ UNCHANGED <<ev, alsoOut>> /\ UNCHANGED lists
      /\ ev \in Slots /\ Close(ev)
  BY DEF LocalFails, ThreadInv
<1>2. TypeOK' /\ ListLenExact' /\ UserInv'
  BY <1>1, CloseEffect, OneUser, SameLists DEF ThreadType
<1>3. ThreadInv' /\ WakeInv'
  BY <1>1 DEF ThreadInv, WakeInv, Served, Slots
<1> QED BY <1>2, <1>3

-----------------------------------------------------------------------------
(***************************************************************************)
(* net_recv_process.                                                       *)
(***************************************************************************)
LEMMA NetDoneStep ==
  ASSUME IInv, NetDone
  PROVE  IInv'
<1> USE Constants DEF IInv, TypeOK
<1>1. /\ pc = "net" /\ pc' = "fan" /\ fan' = 1 /\ UNCHANGED <<ev, alsoOut>>
      /\ UNCHANGED <<users, blocked, edge, wire, auth>> /\ UNCHANGED lists
  BY DEF NetDone, kernel, ghosts
<1>2. TypeOK' /\ ListLenExact'
  BY <1>1, SameLists DEF TableType, ThreadType
<1>3. UserInv'
  BY <1>1 DEF UserInv, UserOK, Cursor, NoCursor, InList, lists
<1>4. ThreadInv' /\ WakeInv'
  BY <1>1 DEF ThreadInv, WakeInv, Served, Slots
<1> QED BY <1>2, <1>3, <1>4

LEMMA NetClosesStep ==
  ASSUME IInv, pc = "net", NetCloses
  PROVE  IInv'
<1> USE Constants DEF IInv, TypeOK
<1>1. /\ pc' = "fan" /\ fan' = 1 /\ UNCHANGED <<ev, alsoOut>> /\ UNCHANGED lists
      /\ ev \in Slots /\ Close(ev)
  BY DEF NetCloses, ThreadInv
<1>2. TypeOK' /\ ListLenExact' /\ UserInv'
  BY <1>1, CloseEffect, OneUser, SameLists DEF ThreadType
<1>3. ThreadInv' /\ WakeInv'
  BY <1>1 DEF ThreadInv, WakeInv, Served, Slots
<1> QED BY <1>2, <1>3

\* The end of a pass of net_recv_process, for a handler that left r: one that
\* changes the login and the channel only, in a way the login allows.
LEMMA ReplyStep ==
  ASSUME IInv, pc = "net", NEW r \in User, NEW a \in BOOLEAN, Reply(r, a),
         r.kind = "net", r.is_send \in {-1, 0},
         r.is_send = 0 => a \/ auth[ev],
         users[ev].channel # NoChannel => r.channel # NoChannel,
         r.node = users[ev].node, r.status = users[ev].status,
         r.data = users[ev].data, r.left = users[ev].left
  PROVE  IInv'
<1> USE Constants DEF IInv, TypeOK
<1>1. ev \in Slots /\ users[ev].kind = "net" /\ fan = 0
  BY DEF ThreadInv
<1>2. CASE NetCloses
  BY <1>2, NetClosesStep
<1>3. CASE ~NetCloses
  <2>1. /\ r.is_send = 0
        /\ users' = [users EXCEPT ![ev] = r]
        /\ auth' = [auth EXCEPT ![ev] = @ \/ a]
        /\ UNCHANGED lists /\ UNCHANGED thread /\ UNCHANGED wire
    BY <1>3 DEF Reply
  <2>2. /\ blocked' \in [Slots -> BOOLEAN] /\ edge' \in [Slots -> BOOLEAN]
        /\ \A u \in Slots \ {ev} : blocked'[u] = blocked[u] /\ edge'[u] = edge[u]
    BY <1>1, <1>3 DEF Reply, TableType, kernel, Bool
  <2>3. auth' \in [Slots -> BOOLEAN]
    BY <2>1 DEF TableType
  <2>4. users' \in [Slots -> User]
    BY <2>1 DEF TableType
  <2>5. TypeOK' /\ ListLenExact'
    BY <2>1, <2>2, <2>3, <2>4, SameLists DEF TableType, ThreadType, thread
  <2>6. UserOK(ev)'
    <3>1. users'[ev] = r /\ wire'[ev] = wire[ev] /\ ev' = ev
      BY <1>1, <2>1 DEF TableType, thread
    <3>2. auth'[ev]
      BY <1>1, <2>1 DEF TableType
    <3>3. UserOK(ev)
      BY <1>1 DEF UserInv
    <3> QED BY <2>1, <3>1, <3>2, <3>3 DEF UserOK, Cursor, NoCursor, InList, lists
  <2>7. \A u \in Slots \ {ev} : SameSlot(u)
    BY <2>1, <2>2 DEF SameSlot, TableType
  <2>8. UserInv'
    BY <1>1, <2>1, <2>6, <2>7, OneUser DEF thread
  <2>9. ThreadInv' /\ WakeInv'
    BY <1>1, <2>1 DEF ThreadInv, WakeInv, Served, TableType, thread
  <2> QED BY <2>5, <2>8, <2>9
<1> QED BY <1>2, <1>3

LEMMA NetLoginStep ==
  ASSUME IInv, NEW o \in BOOLEAN, NEW v \in BOOLEAN, NetLogin(o, v)
  PROVE  IInv'
<1> DEFINE ok == ~o /\ OnlineUsers < UserLimit /\ v
           r  == [users[ev] EXCEPT !.is_send = IF ok THEN 0 ELSE -1]
<1>1. pc = "net" /\ ok \in BOOLEAN /\ Reply(r, ok)
  BY Zenon DEF NetLogin
<1>2. users[ev] \in User /\ users[ev].kind = "net" /\ ev \in Slots
  BY <1>1 DEF IInv, TypeOK, TableType, ThreadInv
<1>3. UserOK(ev)
  BY <1>2 DEF IInv, UserInv
<1>4. (IF ok THEN 0 ELSE -1) \in {-1, 0, 1}
  OBVIOUS
<1>5. /\ r \in User /\ r.kind = "net" /\ r.is_send = (IF ok THEN 0 ELSE -1)
      /\ r.channel = users[ev].channel
      /\ r.node = users[ev].node /\ r.status = users[ev].status
      /\ r.data = users[ev].data /\ r.left = users[ev].left
  BY <1>2, <1>4, Zenon DEF User
<1>6. r.is_send \in {-1, 0} /\ (r.is_send = 0 => ok)
  BY <1>5
<1> HIDE DEF r, ok
<1> QED BY <1>1, <1>5, <1>6, ReplyStep

LEMMA NetDataReqStep ==
  ASSUME IInv, NEW chid \in ReqIds, NetDataReq(chid)
  PROVE  IInv'
<1> DEFINE ok == chid % UINT16 \in registered /\ users[ev].is_send = 0
           acc == [users[ev] EXCEPT !.channel = chid]
           ref == [users[ev] EXCEPT !.is_send = -1]
<1>1. pc = "net" /\ Reply(IF ok THEN acc ELSE ref, FALSE)
  BY Zenon DEF NetDataReq
<1>2. users[ev] \in User /\ users[ev].kind = "net" /\ ev \in Slots
  BY <1>1 DEF IInv, TypeOK, TableType, ThreadInv
<1>3. UserOK(ev)
  BY <1>2 DEF IInv, UserInv
<1>4. /\ acc \in User /\ acc.kind = "net" /\ acc.is_send = users[ev].is_send
      /\ acc.channel = chid
      /\ acc.node = users[ev].node /\ acc.status = users[ev].status
      /\ acc.data = users[ev].data /\ acc.left = users[ev].left
  BY <1>2, Zenon DEF User
<1>5. /\ ref \in User /\ ref.kind = "net" /\ ref.is_send = -1
      /\ ref.channel = users[ev].channel
      /\ ref.node = users[ev].node /\ ref.status = users[ev].status
      /\ ref.data = users[ev].data /\ ref.left = users[ev].left
  BY <1>2, Zenon DEF User
<1>6. CASE ok
  <2>1. Reply(acc, FALSE) /\ users[ev].is_send = 0
    BY <1>1, <1>6, Zenon
  <2>2. auth[ev] /\ chid # NoChannel
    BY <1>3, <2>1, IdAssumption DEF UserOK
  <2>3. acc.is_send \in {-1, 0}
    BY <1>4, <2>1
  <2> HIDE DEF acc, ref, ok
  <2> QED BY <1>1, <1>4, <2>1, <2>2, <2>3, ReplyStep
<1>7. CASE ~ok
  <2>1. Reply(ref, FALSE)
    BY <1>1, <1>7, Zenon
  <2>2. ref.is_send \in {-1, 0} /\ ref.is_send # 0
    BY <1>5
  <2> HIDE DEF acc, ref, ok
  <2> QED BY <1>1, <1>5, <2>1, <2>2, ReplyStep
<1> QED BY <1>6, <1>7

LEMMA NetUnknownStep ==
  ASSUME IInv, NetUnknown
  PROVE  IInv'
<1> DEFINE ref == [users[ev] EXCEPT !.is_send = -1]
<1>1. pc = "net" /\ Reply(ref, FALSE)
  BY Zenon DEF NetUnknown
<1>2. users[ev] \in User /\ users[ev].kind = "net" /\ ev \in Slots
  BY <1>1 DEF IInv, TypeOK, TableType, ThreadInv
<1>3. -1 \in {-1, 0, 1}
  OBVIOUS
<1>4. /\ ref \in User /\ ref.kind = "net" /\ ref.is_send = -1
      /\ ref.channel = users[ev].channel
      /\ ref.node = users[ev].node /\ ref.status = users[ev].status
      /\ ref.data = users[ev].data /\ ref.left = users[ev].left
  BY <1>2, <1>3, Zenon DEF User
<1>5. ref.is_send \in {-1, 0} /\ ref.is_send # 0
  BY <1>4
<1> HIDE DEF ref
<1> QED BY <1>1, <1>4, <1>5, ReplyStep

-----------------------------------------------------------------------------
(***************************************************************************)
(* send_user_process.                                                      *)
(***************************************************************************)
LEMMA FanVisitStep ==
  ASSUME IInv, FanVisit
  PROVE  IInv'
<1> USE Constants DEF IInv, TypeOK
<1>1. /\ pc = "fan" /\ fan \in Slots /\ UNCHANGED <<ev, alsoOut>>
      /\ UNCHANGED <<users, blocked, edge, wire, auth>> /\ UNCHANGED lists
      /\ \/ users[fan].is_send = 1 /\ pc' = "send" /\ UNCHANGED fan
         \/ ~(users[fan].kind = "net" /\ users[fan].is_send = 1)
            /\ fan' = fan + 1 /\ UNCHANGED pc
  BY DEF FanVisit, kernel, ghosts
<1>2. TypeOK' /\ ListLenExact'
  BY <1>1, SameLists DEF TableType, ThreadType, Slots
<1>3. UserInv'
  BY <1>1 DEF UserInv, UserOK, Cursor, NoCursor, InList, lists
<1>4. ThreadInv'
  BY <1>1 DEF ThreadInv, Cur, Slots
<1>5. ASSUME NEW v \in Slots, Served(v)', Lagging(v)' PROVE Served(v) /\ SameSlot(v)
  <2>1. SameSlot(v) /\ v \in Nat /\ fan \in Nat
    BY <1>1, Zenon DEF SameSlot
  <2>2. CASE pc' = "send" /\ UNCHANGED fan
    BY <1>1, <1>5, <2>1, <2>2 DEF Served
  <2>3. CASE ~(users[fan].kind = "net" /\ users[fan].is_send = 1)
              /\ fan' = fan + 1 /\ UNCHANGED pc
    <3>1. v # fan
      BY <1>1, <1>5, <2>3 DEF Lagging, UserInv, UserOK
    <3> QED BY <1>1, <1>5, <2>1, <2>3, <3>1 DEF Served
  <2> QED BY <1>1, <2>2, <2>3
<1>6. WakeInv'
  BY <1>1, <1>5, WakeKept
<1> QED BY <1>2, <1>3, <1>4, <1>6

LEMMA FanEndStep ==
  ASSUME IInv, FanEnd
  PROVE  IInv'
<1> USE Constants DEF IInv, TypeOK
<1>1. /\ pc = "fan" /\ fan = MAX_USERS + 1 /\ ev \in Slots
      /\ fan' = 0 /\ alsoOut' = FALSE
      /\ UNCHANGED <<users, blocked, edge, wire, auth>> /\ UNCHANGED lists
      /\ \/ users[ev].is_send = 1 /\ pc' = "send" /\ ev' = ev
         \/ pc' = "wait" /\ ev' = 0
  BY DEF FanEnd, NetSendProcess, ThreadInv, kernel, ghosts
<1>2. TypeOK' /\ ListLenExact'
  <2>1. TableType' /\ ListType' /\ ListLenExact'
    BY <1>1, SameLists DEF TableType
  <2>2. ThreadType'
    <3>1. pc' \in {"wait", "send"} /\ ev' \in Slots \cup {0}
      BY <1>1
    <3>2. fan' \in 0..(MAX_USERS + 1)
      BY <1>1
    <3>3. alsoOut' \in BOOLEAN
      BY <1>1
    <3> QED BY <3>1, <3>2, <3>3 DEF ThreadType
  <2> QED BY <2>1, <2>2
<1>3. UserInv'
  BY <1>1 DEF UserInv, UserOK, Cursor, NoCursor, InList, lists
<1>4. ThreadInv'
  BY <1>1 DEF ThreadInv, Cur
<1>5. ASSUME NEW v \in Slots PROVE Served(v) /\ SameSlot(v)
  BY <1>1 DEF Served, SameSlot, Slots
<1>6. WakeInv'
  BY <1>1, <1>5, WakeKept
<1> QED BY <1>2, <1>3, <1>4, <1>6

-----------------------------------------------------------------------------
(***************************************************************************)
(* send_client_video_data.                                                 *)
(***************************************************************************)

\* A node in a list is a node.
LEMMA CursorNode ==
  ASSUME ListType, NEW r \in User, InList(r.node)
  PROVE  /\ r.node \in Nodes /\ r.node.ch \in Channels /\ r.node.num \in Nat \ {0}
         /\ tail[r.node.ch] \in Nat
  BY Constants, UserFields DEF ListType, InList, NoNode, Nodes

\* ready_next_node keeps the cursor in the list, and behind it the wire, when
\* the packet before is all on the wire.
LEMMA ReadyNextCursor ==
  ASSUME ListType, NEW r \in User, InList(r.node), NEW w,
         w = [ch |-> r.node.ch, num |-> r.node.num, off |-> PktLen]
  PROVE  LET s == ReadyNext(r) IN
         /\ s \in User /\ s.kind = r.kind /\ s.is_send = r.is_send
         /\ s.channel = r.channel /\ s.node.ch = r.node.ch
         /\ Cursor(s, w)
         /\ HasNext(r.node) => s.status = "IS_SENDING"
         /\ ~HasNext(r.node) => CaughtUp(s)
<1> USE Constants
<1>1. /\ r.node \in Nodes /\ r.node.ch \in Channels /\ r.node.num \in Nat \ {0}
      /\ tail[r.node.ch] \in Nat
  BY CursorNode
<1> DEFINE s == ReadyNext(r)
           n == Node(r.node.ch, r.node.num + 1)
<1>2. CASE HasNext(r.node)
  <2>1. /\ s \in User /\ s.kind = r.kind /\ s.is_send = r.is_send
        /\ s.status = "IS_SENDING" /\ s.channel = r.channel
        /\ s.node = n /\ s.data = n /\ s.left = PktLen
    BY <1>1, <1>2, ReadyNextFields
  <2>2. n.ch = r.node.ch /\ n.num = r.node.num + 1
    BY DEF Node
  <2>3. InList(s.node)
    BY <1>1, <1>2, <2>1, <2>2 DEF InList, HasNext, ListType
  <2>4. s.node.num - 1 = r.node.num /\ s.node.ch = r.node.ch
    BY <1>1, <2>1, <2>2
  <2> HIDE DEF s, n
  <2>5. Cursor(s, w)
    BY <2>1, <2>3, <2>4 DEF Cursor
  <2> QED BY <1>2, <2>1, <2>4, <2>5 DEF s
<1>3. CASE ~HasNext(r.node)
  <2>1. /\ s \in User /\ s.kind = r.kind /\ s.is_send = r.is_send
        /\ s.status = "NOT_CAN_SEND" /\ s.channel = r.channel
        /\ s.node = r.node /\ s.data = NoNode /\ s.left = 0
    BY <1>3, ReadyNextIdle
  <2> HIDE DEF s
  <2>2. Cursor(s, w) /\ CaughtUp(s)
    BY <1>3, <2>1 DEF Cursor, CaughtUp
  <2> QED BY <1>3, <2>1, <2>2 DEF s
<1> QED BY <1>2, <1>3

\* What a pass of the send loop starts from: a packet with units left to send,
\* right behind what is on the wire.
Ready(s, w) == /\ InList(s.node) /\ s.data = s.node /\ s.left \in 1..PktLen
               /\ s.status \in {"NOT_AFTER_SENDING", "IS_SENDING"}
               /\ Cursor(s, w)

LEMMA PreparedReady ==
  ASSUME ListType, NEW r \in User, NEW w, Cursor(r, w), ~CaughtUp(r)
  PROVE  LET s == Prepared(r) IN
         /\ s \in User /\ s.kind = r.kind /\ s.is_send = r.is_send
         /\ s.channel = r.channel /\ s.node.ch = r.node.ch
         /\ Ready(s, w)
<1>1. CASE r.status = "NOT_CAN_SEND"
  <2>1. Prepared(r) = ReadyNext(r) /\ HasNext(r.node) /\ InList(r.node)
    BY <1>1 DEF Prepared, CaughtUp, Cursor
  <2>2. w = [ch |-> r.node.ch, num |-> r.node.num, off |-> PktLen]
    BY <1>1 DEF Cursor
  <2>3. LET s == ReadyNext(r) IN
        /\ s \in User /\ s.kind = r.kind /\ s.is_send = r.is_send
        /\ s.channel = r.channel /\ s.node.ch = r.node.ch
        /\ Cursor(s, w) /\ s.status = "IS_SENDING"
    BY <2>1, <2>2, ReadyNextCursor
  <2> QED BY <2>1, <2>3 DEF Ready, Cursor
<1>2. CASE r.status # "NOT_CAN_SEND"
  <2>1. Prepared(r) = r
    BY <1>2, Zenon DEF Prepared
  <2>2. Ready(r, w)
    BY <1>2 DEF Ready, Cursor
  <2> QED BY <2>1, <2>2
<1> QED BY <1>1, <1>2

\* Writing the next k units moves the wire by k units.
LEMMA WroteNext ==
  ASSUME ListType, NEW s \in User, NEW w, Ready(s, w), NEW k \in 1..s.left
  PROVE  /\ Wrote(w, s.data, PktLen - s.left, PktLen - s.left + k)
              = [ch |-> s.node.ch, num |-> s.node.num, off |-> PktLen - s.left + k]
         /\ [ch |-> s.node.ch, num |-> s.node.num, off |-> PktLen - s.left + k] \in Position
<1> USE Constants
<1>1. /\ s.node.ch \in Channels /\ s.node.num \in Nat \ {0}
      /\ s.left \in 1..PktLen /\ s.data = s.node
  BY CursorNode DEF Ready
<1>2. PktLen - s.left + k \in 1..PktLen
  BY <1>1
<1>3. CASE s.left = PktLen
  <2>1. w \in {NoPos, [ch |-> s.node.ch, num |-> s.node.num - 1, off |-> PktLen]}
    BY <1>3 DEF Ready, Cursor
  <2>2. PktLen - s.left = 0
    BY <1>3
  <2> QED BY <1>1, <1>2, <2>1, <2>2 DEF Wrote, Position
<1>4. CASE s.left # PktLen
  <2>1. w = [ch |-> s.node.ch, num |-> s.node.num, off |-> PktLen - s.left]
    BY <1>4 DEF Ready, Cursor
  <2>2. PktLen - s.left > 0
    BY <1>1, <1>4
  <2> QED BY <1>1, <1>2, <2>1, <2>2 DEF Wrote, Position
<1> QED BY <1>3, <1>4

\* A pass that leaves the send loop, having touched the user it was for only.
LEMMA SendReturns ==
  ASSUME IInv, pc = "send", NEW x \in Slots, x = Cur, SendReturn, UNCHANGED lists,
         TableType', UserOK(x)', \A u \in Slots \ {x} : SameSlot(u),
         Lagging(x)' => blocked'[x] \/ edge'[x]
  PROVE  IInv'
<1> USE Constants DEF IInv, TypeOK
<1>1. /\ ev \in Slots /\ fan \in 0..(MAX_USERS + 1)
      /\ x = (IF fan = 0 THEN ev ELSE fan)
  BY DEF ThreadInv, ThreadType, Cur
<1>2. ListType' /\ ListLenExact'
  BY SameLists
<1>3. ThreadType' /\ ThreadInv'
  <2>1. CASE fan = 0
    BY <1>1, <2>1 DEF SendReturn, ThreadType, ThreadInv
  <2>2. CASE fan # 0
    <3>1. fan' = fan + 1 /\ pc' = "fan" /\ UNCHANGED <<ev, alsoOut>>
      BY <2>2 DEF SendReturn
    <3>2. fan' \in 1..(MAX_USERS + 1)
      BY <1>1, <2>2, <3>1 DEF Slots
    <3> QED BY <1>1, <3>1, <3>2 DEF ThreadType, ThreadInv
  <2> QED BY <2>1, <2>2
<1>4. UserInv'
  BY OneUser
<1>5. ASSUME NEW v \in Slots, v # x, Served(v)' PROVE Served(v) /\ SameSlot(v)
  <2>1. SameSlot(v) /\ v \in Nat
    BY <1>5
  <2>2. CASE fan = 0
    BY <1>1, <1>5, <2>1, <2>2 DEF Served
  <2>3. CASE fan # 0
    BY <1>1, <1>5, <2>1, <2>3 DEF Served, SendReturn
  <2> QED BY <2>2, <2>3
<1>6. WakeInv'
  <2> SUFFICES ASSUME NEW v \in Slots, Served(v)', Lagging(v)'
               PROVE  (blocked[v] \/ edge[v])'
    BY DEF WakeInv
  <2>1. CASE v = x
    BY <2>1
  <2>2. CASE v # x
    BY <1>5, <2>2 DEF WakeInv, SameSlot, Lagging, CaughtUp, HasNext, lists
  <2> QED BY <2>1, <2>2
<1> QED BY <1>2, <1>3, <1>4, <1>6

\* The user of a send pass: it has a cursor, and unless it is caught up there
\* is a packet ready for it.
LEMMA SendUser ==
  ASSUME IInv, pc = "send"
  PROVE  /\ Cur \in Slots /\ users[Cur] \in User /\ UserOK(Cur)
         /\ users[Cur].is_send = 1 /\ users[Cur].kind = "net" /\ auth[Cur]
         /\ users[Cur].channel # NoChannel
         /\ users[Cur].node.ch = users[Cur].channel
         /\ Cursor(users[Cur], wire[Cur]) /\ ListType
<1>1. /\ Cur \in Slots /\ users[Cur].is_send = 1 /\ UserOK(Cur) /\ users[Cur] \in User
      /\ ListType
  BY DEF IInv, TypeOK, ThreadInv, UserInv, TableType
<1>2. users[Cur].kind = "net" /\ auth[Cur] /\ users[Cur].node.ch = users[Cur].channel
  BY <1>1 DEF UserOK
<1>3. Cursor(users[Cur], wire[Cur]) /\ users[Cur].channel # NoChannel
  BY <1>1 DEF UserOK
<1> QED BY <1>1, <1>2, <1>3

LEMMA SendFullStep ==
  ASSUME IInv, SendFull
  PROVE  IInv'
<1> USE Constants DEF IInv, TypeOK
<1>1. pc = "send" /\ ~CaughtUp(users[Cur])
  BY DEF SendFull
<1>2. PICK x \in Slots : x = Cur
  BY <1>1, SendUser
<1> DEFINE r == Prepared(users[x])
           s == ReadyNext(r)
           w == Wrote(wire[x], r.data, PktLen - r.left, PktLen)
<1>3. /\ users' = [users EXCEPT ![x] = s] /\ wire' = [wire EXCEPT ![x] = w]
      /\ UNCHANGED <<blocked, edge, auth>> /\ UNCHANGED lists /\ UNCHANGED thread
  BY <1>2, Zenon DEF SendFull, kernel
<1>4. /\ r \in User /\ r.kind = "net" /\ r.is_send = 1
      /\ r.channel = users[x].channel /\ r.node.ch = users[x].channel
      /\ Ready(r, wire[x])
  BY <1>1, <1>2, SendUser, PreparedReady
<1> HIDE DEF r
<1>5. /\ w = [ch |-> r.node.ch, num |-> r.node.num, off |-> PktLen] /\ w \in Position
  <2>1. r.left \in 1..r.left /\ PktLen - r.left + r.left = PktLen
    BY <1>4 DEF Ready
  <2> QED BY <1>4, <2>1, WroteNext
<1> HIDE DEF w
<1>6. /\ s \in User /\ s.kind = "net" /\ s.is_send = 1
      /\ s.channel = users[x].channel /\ s.node.ch = users[x].channel
      /\ Cursor(s, w)
  BY <1>4, <1>5, ReadyNextCursor DEF Ready
<1> HIDE DEF s
<1>7. TypeOK' /\ ListLenExact'
  BY <1>3, <1>5, <1>6, SameLists DEF TableType, ThreadType, thread
<1>8. UserInv'
  <2>1. /\ users'[x] = s /\ wire'[x] = w /\ auth'[x]
    BY <1>1, <1>2, <1>3, SendUser DEF TableType
  <2>2. s.channel # NoChannel
    BY <1>1, <1>2, <1>6, SendUser
  <2>3. UserOK(x)'
    BY <1>3, <1>6, <2>1, <2>2 DEF UserOK, Cursor, InList, lists
  <2>4. \A u \in Slots \ {x} : SameSlot(u)
    BY <1>3 DEF TableType, SameSlot
  <2> QED BY <1>3, <2>3, <2>4, OneUser
<1>9. ThreadInv'
  BY <1>1, <1>2, <1>3, <1>6 DEF ThreadInv, Cur, thread, TableType
<1>10. ASSUME NEW v \in Slots, Served(v)', Lagging(v)' PROVE Served(v) /\ SameSlot(v)
  <2>1. Served(v)
    BY <1>3, <1>10 DEF Served, thread
  <2>2. v # x
    BY <1>1, <1>2, <2>1 DEF Served, Cur, ThreadInv, Slots
  <2> QED BY <1>3, <2>1, <2>2 DEF SameSlot, TableType
<1>11. WakeInv'
  BY <1>3, <1>10, WakeKept
<1> QED BY <1>7, <1>8, <1>9, <1>11

LEMMA SendShortStep ==
  ASSUME IInv, NEW k \in 1..(PktLen - 1), SendShort(k)
  PROVE  IInv'
<1> USE Constants DEF IInv, TypeOK
<1>1. pc = "send" /\ ~CaughtUp(users[Cur]) /\ SendReturn
  BY DEF SendShort
<1>2. PICK x \in Slots : x = Cur
  BY <1>1, SendUser
<1> DEFINE r == Prepared(users[x])
           s == [r EXCEPT !.status = "NOT_AFTER_SENDING", !.left = @ - k]
           w == Wrote(wire[x], r.data, PktLen - r.left, PktLen - r.left + k)
<1>3. /\ users' = [users EXCEPT ![x] = s] /\ wire' = [wire EXCEPT ![x] = w]
      /\ k < r.left
      /\ blocked' = [blocked EXCEPT ![x] = TRUE] /\ edge' = [edge EXCEPT ![x] = FALSE]
      /\ UNCHANGED auth /\ UNCHANGED lists
  BY <1>2, Zenon DEF SendShort
<1>4. /\ r \in User /\ r.kind = "net" /\ r.is_send = 1
      /\ r.channel = users[x].channel /\ r.node.ch = users[x].channel
      /\ Ready(r, wire[x])
  BY <1>1, <1>2, SendUser, PreparedReady
<1> HIDE DEF r
<1>5. /\ w = [ch |-> r.node.ch, num |-> r.node.num, off |-> PktLen - r.left + k]
      /\ w \in Position /\ r.left \in 1..PktLen
      /\ r.left - k \in 0..PktLen /\ r.left - k \in 1..(PktLen - 1)
  <2>1. k \in 1..r.left /\ r.left \in 1..PktLen
    BY <1>3, <1>4 DEF Ready
  <2>2. r.left - k \in 0..PktLen /\ r.left - k \in 1..(PktLen - 1)
    BY <1>3, <2>1
  <2> QED BY <1>4, <2>1, <2>2, WroteNext
<1>6. "NOT_AFTER_SENDING" \in Status
  BY DEF Status
<1>7. /\ s \in User /\ s.kind = "net" /\ s.is_send = 1
      /\ s.channel = users[x].channel /\ s.node = r.node
      /\ s.data = r.data /\ s.left = r.left - k /\ s.status = "NOT_AFTER_SENDING"
  BY <1>4, <1>5, <1>6, Zenon DEF User
<1> HIDE DEF w, s
<1>8. Cursor(s, w)
  <2>1. PktLen - (r.left - k) = PktLen - r.left + k /\ r.left - k # PktLen
    BY <1>5
  <2>2. InList(s.node) /\ s.data = s.node
    BY <1>4, <1>7 DEF Ready
  <2>3. w = [ch |-> s.node.ch, num |-> s.node.num, off |-> PktLen - s.left]
    BY <1>5, <1>7, <2>1
  <2>4. s.left \in 1..PktLen /\ s.left # PktLen
    BY <1>5, <1>7
  <2> QED BY <1>7, <2>2, <2>3, <2>4 DEF Cursor
<1>9. TableType'
  BY <1>3, <1>5, <1>7 DEF TableType
<1>10. UserOK(x)'
  <2>1. /\ users'[x] = s /\ wire'[x] = w /\ auth'[x]
    BY <1>1, <1>2, <1>3, SendUser DEF TableType
  <2>2. s.channel # NoChannel /\ s.node.ch = s.channel
    BY <1>1, <1>2, <1>4, <1>7, SendUser
  <2> QED BY <1>3, <1>7, <1>8, <2>1, <2>2 DEF UserOK, Cursor, InList, lists
<1>11. \A u \in Slots \ {x} : SameSlot(u)
  BY <1>3 DEF TableType, SameSlot
<1>12. blocked'[x]
  BY <1>3 DEF TableType
<1> QED BY <1>1, <1>2, <1>3, <1>9, <1>10, <1>11, <1>12, SendReturns

LEMMA SendAgainStep ==
  ASSUME IInv, SendAgain
  PROVE  IInv'
<1> USE Constants DEF IInv, TypeOK
<1>1. pc = "send" /\ ~CaughtUp(users[Cur]) /\ SendReturn /\ blocked[Cur]
  BY DEF SendAgain
<1>2. PICK x \in Slots : x = Cur
  BY <1>1, SendUser
<1> DEFINE r == Prepared(users[x])
           s == [r EXCEPT !.status = "NOT_AFTER_SENDING"]
<1>3. /\ users' = [users EXCEPT ![x] = s]
      /\ UNCHANGED <<wire, blocked, edge, auth>> /\ UNCHANGED lists
  BY <1>2, Zenon DEF SendAgain, kernel, ghosts
<1>4. /\ r \in User /\ r.kind = "net" /\ r.is_send = 1
      /\ r.channel = users[x].channel /\ r.node.ch = users[x].channel
      /\ Ready(r, wire[x])
  BY <1>1, <1>2, SendUser, PreparedReady
<1> HIDE DEF r
<1>5. "NOT_AFTER_SENDING" \in Status
  BY DEF Status
<1>6. /\ s \in User /\ s.kind = "net" /\ s.is_send = 1
      /\ s.channel = users[x].channel /\ s.node = r.node
      /\ s.data = r.data /\ s.left = r.left /\ s.status = "NOT_AFTER_SENDING"
  BY <1>4, <1>5, Zenon DEF User
<1> HIDE DEF s
<1>7. Cursor(s, wire[x])
  BY <1>4, <1>6 DEF Ready, Cursor
<1>8. TableType'
  BY <1>3, <1>6 DEF TableType
<1>9. UserOK(x)'
  <2>1. /\ users'[x] = s /\ wire'[x] = wire[x] /\ auth'[x]
    BY <1>1, <1>2, <1>3, SendUser DEF TableType
  <2>2. s.channel # NoChannel /\ s.node.ch = s.channel
    BY <1>1, <1>2, <1>4, <1>6, SendUser
  <2> QED BY <1>3, <1>6, <1>7, <2>1, <2>2 DEF UserOK, Cursor, InList, lists
<1>10. \A u \in Slots \ {x} : SameSlot(u)
  BY <1>3 DEF TableType, SameSlot
<1> QED BY <1>1, <1>2, <1>3, <1>8, <1>9, <1>10, SendReturns

LEMMA SendFailsStep ==
  ASSUME IInv, SendFails
  PROVE  IInv'
<1> USE DEF IInv, TypeOK
<1>1. pc = "send" /\ SendReturn /\ Close(Cur) /\ UNCHANGED lists
  BY DEF SendFails
<1>2. PICK x \in Slots : x = Cur
  BY <1>1, SendUser
<1>3. Close(x)
  BY <1>1, <1>2, Zenon
<1>4. /\ TableType' /\ UserOK(x)' /\ \A u \in Slots \ {x} : SameSlot(u)
      /\ users'[x] = InitUser
  BY <1>3, CloseEffect
<1>5. ~Lagging(x)'
  BY <1>4 DEF Lagging, InitUser
<1> QED BY <1>1, <1>2, <1>4, <1>5, SendReturns

LEMMA SendIdleStep ==
  ASSUME IInv, SendIdle
  PROVE  IInv'
<1> USE Constants DEF IInv, TypeOK
<1>1. pc = "send" /\ CaughtUp(users[Cur]) /\ SendReturn
  BY DEF SendIdle
<1>2. PICK x \in Slots : x = Cur
  BY <1>1, SendUser
<1> DEFINE s == ReadyNext(users[x])
<1>3. /\ users' = [users EXCEPT ![x] = s]
      /\ UNCHANGED <<wire, blocked, edge, auth>> /\ UNCHANGED lists
  <2>1. users' = [users EXCEPT ![x] = ReadyNext(@)]
    BY <1>2, Zenon DEF SendIdle
  <2> QED BY <2>1, Zenon DEF SendIdle, kernel, ghosts, TableType
<1>4. /\ users[x] \in User /\ InList(users[x].node) /\ ListType
      /\ ~HasNext(users[x].node)
      /\ wire[x] = [ch |-> users[x].node.ch, num |-> users[x].node.num, off |-> PktLen]
  BY <1>1, <1>2, SendUser DEF CaughtUp, Cursor
<1>5. /\ s \in User /\ s.kind = users[x].kind /\ s.is_send = users[x].is_send
      /\ s.channel = users[x].channel /\ s.node.ch = users[x].node.ch
      /\ Cursor(s, wire[x]) /\ CaughtUp(s)
  BY <1>4, ReadyNextCursor
<1> HIDE DEF s
<1>6. TableType'
  BY <1>3, <1>5 DEF TableType
<1>7. users'[x] = s /\ wire'[x] = wire[x] /\ auth'[x]
  BY <1>1, <1>2, <1>3, SendUser DEF TableType
<1>8. UserOK(x)'
  <2>1. s.kind = "net" /\ s.channel # NoChannel /\ s.node.ch = s.channel /\ s.is_send = 1
    BY <1>1, <1>2, <1>5, SendUser
  <2> QED BY <1>3, <1>5, <1>7, <2>1 DEF UserOK, Cursor, InList, lists
<1>9. \A u \in Slots \ {x} : SameSlot(u)
  BY <1>3 DEF TableType, SameSlot
<1>10. ~Lagging(x)'
  BY <1>3, <1>5, <1>7 DEF Lagging, CaughtUp, HasNext, lists
<1> QED BY <1>1, <1>2, <1>3, <1>6, <1>8, <1>9, <1>10, SendReturns

-----------------------------------------------------------------------------
(***************************************************************************)
(* local_recv_process, a packet that is queued: the eviction.              *)
(***************************************************************************)

\* The list after the append and, on overflow, the loss of its head.
LEMMA QueueLists ==
  ASSUME ListType, ListLenExact, NEW c \in Channels, QueuePacket(c)
  PROVE  /\ ListType' /\ ListLenExact'
         /\ tail' = [tail EXCEPT ![c] = tail[c] + 1]
         /\ head' = [head EXCEPT ![c] = IF Overflow(c) THEN head[c] + 1 ELSE head[c]]
         /\ head'[c] =< tail'[c]
         /\ Overflow(c) => tail[c] - head[c] + 1 = MAX_LIST_LEN
<1> USE Constants
<1>1. /\ head[c] \in Nat \ {0} /\ tail[c] \in Nat /\ list_len[c] \in 0..MAX_LIST_LEN
      /\ list_len[c] = tail[c] - head[c] + 1
  BY DEF ListType, ListLenExact
<1>2. /\ tail' = [tail EXCEPT ![c] = tail[c] + 1]
      /\ head' = [head EXCEPT ![c] = IF Overflow(c) THEN DelHead(head[c], tail[c] + 1)
                                                   ELSE head[c]]
      /\ list_len' = [list_len EXCEPT ![c] = IF Overflow(c) THEN list_len[c]
                                                           ELSE list_len[c] + 1]
      /\ Register(c)
  BY Zenon DEF QueuePacket
<1>3. Overflow(c) => list_len[c] = MAX_LIST_LEN /\ DelHead(head[c], tail[c] + 1) = head[c] + 1
  BY <1>1 DEF Overflow, DelHead
<1>4. head' = [head EXCEPT ![c] = IF Overflow(c) THEN head[c] + 1 ELSE head[c]]
  BY <1>2, <1>3
<1>5. head'[c] =< tail'[c]
  BY <1>1, <1>2, <1>4, <1>3 DEF ListType
<1>6. ~Overflow(c) => list_len[c] + 1 \in 0..MAX_LIST_LEN
  BY <1>1 DEF Overflow
<1>7. ListType'
  <2>1. head' \in [Channels -> Nat \ {0}] /\ tail' \in [Channels -> Nat]
    BY <1>1, <1>2, <1>4 DEF ListType
  <2>2. list_len' \in [Channels -> 0..MAX_LIST_LEN]
    BY <1>1, <1>2, <1>6 DEF ListType
  <2> QED BY <1>2, <2>1, <2>2, RegisterType DEF ListType
<1>8. ListLenExact'
  BY <1>1, <1>2, <1>4 DEF ListLenExact, ListType
<1> QED BY <1>1, <1>2, <1>3, <1>4, <1>5, <1>7, <1>8

\* What happens to each user: closed, put on the new packet, or left alone.
LEMMA QueueUser ==
  ASSUME TableType, ListType, NEW c \in Channels, QueuePacket(c), NEW u \in Slots
  PROVE  /\ users'[u] \in User /\ wire'[u] \in Position \cup {NoPos, Garbled}
         /\ \/ /\ Overflow(c) /\ users[u].node = Node(c, head[c])
               /\ users'[u] = InitUser /\ wire'[u] = NoPos
               /\ ~edge'[u] /\ ~blocked'[u] /\ ~auth'[u]
            \/ /\ ~(Overflow(c) /\ users[u].node = Node(c, head[c]))
               /\ Waiting(users[u], c)
               /\ users'[u] = Attach(users[u], Node(c, tail[c] + 1))
               /\ UNCHANGED <<wire[u], edge[u], blocked[u], auth[u]>>
            \/ /\ ~(Overflow(c) /\ users[u].node = Node(c, head[c]))
               /\ ~Waiting(users[u], c)
               /\ SameSlot(u)
<1> USE Constants
<1> DEFINE Cut == IF Overflow(c) THEN AtHead(c) ELSE {}
           Kept(v) == IF v \in Cut THEN InitUser ELSE users[v]
           n == Node(c, tail[c] + 1)
<1>1. /\ users' = [v \in Slots |-> IF Waiting(Kept(v), c) THEN Attach(Kept(v), n) ELSE Kept(v)]
      /\ CloseAll(Cut)
  BY Zenon DEF QueuePacket
<1>2. users[u] \in User /\ wire[u] \in Position \cup {NoPos, Garbled}
  BY DEF TableType
<1>3. n \in Nodes
  <2>1. tail[c] + 1 \in Nat \ {0}
    BY DEF ListType
  <2> QED BY <2>1, NodeFields
<1>4. u \in Cut <=> Overflow(c) /\ users[u].node = Node(c, head[c])
  BY DEF AtHead
<1> HIDE DEF Cut, n
<1>5. CASE u \in Cut
  <2>1. ~Waiting(InitUser, c)
    BY DEF Waiting, InitUser
  <2>2. users'[u] = InitUser
    BY <1>1, <1>5, <2>1
  <2>3. wire'[u] = NoPos /\ ~edge'[u] /\ ~blocked'[u] /\ ~auth'[u]
    BY <1>1, <1>5 DEF CloseAll
  <2> QED BY <1>4, <1>5, <2>2, <2>3, InitUserType
<1>6. CASE u \notin Cut
  <2>1. UNCHANGED <<wire[u], edge[u], blocked[u], auth[u]>>
    BY <1>1, <1>6 DEF CloseAll, TableType
  <2>2. CASE Waiting(users[u], c)
    <3>1. users'[u] = Attach(users[u], n)
      BY <1>1, <1>6, <2>2
    <3>2. users'[u] \in User
      BY <1>2, <1>3, <3>1, AttachFields
    <3> QED BY <1>2, <1>4, <1>6, <2>1, <2>2, <3>1, <3>2 DEF n
  <2>3. CASE ~Waiting(users[u], c)
    <3>1. users'[u] = users[u]
      BY <1>1, <1>6, <2>3
    <3> QED BY <1>2, <1>4, <1>6, <2>1, <2>3, <3>1 DEF SameSlot
  <2> QED BY <2>2, <2>3
<1> QED BY <1>5, <1>6

LEMMA QueuePacketStep ==
  ASSUME IInv, NEW c \in Channels, QueuePacket(c)
  PROVE  IInv'
<1> USE Constants DEF IInv, TypeOK
<1>1. pc = "local" /\ UNCHANGED thread
  BY DEF QueuePacket
<1>2. /\ ListType' /\ ListLenExact' /\ ListType /\ TableType
      /\ tail' = [tail EXCEPT ![c] = tail[c] + 1]
      /\ head' = [head EXCEPT ![c] = IF Overflow(c) THEN head[c] + 1 ELSE head[c]]
      /\ head'[c] =< tail'[c]
  BY QueueLists
<1>3. TableType'
  <2>1. users' \in [Slots -> User] /\ wire' \in [Slots -> Position \cup {NoPos, Garbled}]
    <3>1. DOMAIN users' = Slots /\ users' = [v \in Slots |-> users'[v]]
      BY DEF QueuePacket
    <3>2. DOMAIN wire' = Slots /\ wire' = [v \in Slots |-> wire'[v]]
      BY DEF QueuePacket, CloseAll
    <3> QED BY <3>1, <3>2, QueueUser
  <2>2. /\ blocked' \in [Slots -> BOOLEAN] /\ edge' \in [Slots -> BOOLEAN]
        /\ auth' \in [Slots -> BOOLEAN]
    BY DEF QueuePacket, CloseAll
  <2> QED BY <2>1, <2>2 DEF TableType
<1>4. TypeOK'
  BY <1>1, <1>2, <1>3 DEF ThreadType, thread
<1>5. UserInv'
  <2> SUFFICES ASSUME NEW u \in Slots PROVE UserOK(u)'
    BY DEF UserInv
  <2>1. UserOK(u) /\ users[u] \in User
    BY DEF UserInv, TableType
  <2>2. CASE /\ users'[u] = InitUser /\ wire'[u] = NoPos
             /\ ~edge'[u] /\ ~blocked'[u] /\ ~auth'[u]
    BY <2>2 DEF UserOK, InitUser, NoCursor
  <2>3. CASE /\ Waiting(users[u], c)
             /\ users'[u] = Attach(users[u], Node(c, tail[c] + 1))
             /\ UNCHANGED <<wire[u], edge[u], blocked[u], auth[u]>>
    <3>1. users[u].channel = c /\ users[u].node = NoNode
      BY <2>3 DEF Waiting
    <3>2. users[u].channel # NoChannel
      BY <3>1
    <3>3. NoCursor(users[u], wire[u])
      BY <2>1, <3>1 DEF UserOK, Cursor, InList, NoNode
    <3>4. users[u].kind = "net" /\ auth[u]
      BY <2>1, <3>2 DEF UserOK
    <3>5. tail[c] + 1 \in Nat \ {0}
      BY <1>2 DEF ListType
    <3> DEFINE n == Node(c, tail[c] + 1)
               s == Attach(users[u], n)
    <3>6. n \in Nodes /\ n.ch = c /\ n.num = tail[c] + 1
      BY <3>5, NodeFields
    <3>7. /\ s.kind = "net" /\ s.is_send = 1 /\ s.status = "NOT_AFTER_SENDING"
          /\ s.channel = c /\ s.node = n /\ s.data = n /\ s.left = PktLen
      BY <2>1, <3>1, <3>4, <3>6, AttachFields
    <3>8. n.ch \in Channels /\ n.num \in head'[n.ch]..tail'[n.ch]
      BY <1>2, <3>6 DEF ListType
    <3>9. wire'[u] = NoPos /\ auth'[u] /\ users'[u] = s
      BY <2>3, <3>3, <3>4 DEF NoCursor
    <3> HIDE DEF n, s
    <3> QED BY <3>2, <3>1, <3>6, <3>7, <3>8, <3>9 DEF UserOK, Cursor, InList
  <2>4. CASE /\ ~(Overflow(c) /\ users[u].node = Node(c, head[c]))
             /\ SameSlot(u)
    <3>1. CASE NoCursor(users[u], wire[u])
      BY <2>1, <2>4, <3>1 DEF UserOK, SameSlot, NoCursor, Cursor, InList, NoNode
    <3>2. CASE Cursor(users[u], wire[u])
      <4>1. InList(users[u].node)
        BY <3>2 DEF Cursor
      <4>2. users[u].node.num \in head'[users[u].node.ch]..tail'[users[u].node.ch]
        <5>1. CASE users[u].node.ch # c
          BY <1>2, <4>1, <5>1 DEF InList, ListType
        <5>2. CASE users[u].node.ch = c
          <6>1. users[u].node.num = head[c] => users[u].node = Node(c, head[c])
            BY <2>1, <4>1, <5>2, CursorNode, <1>2 DEF Nodes, Node
          <6>2. users[u].node.num \in head[c]..tail[c]
            BY <4>1, <5>2 DEF InList
          <6>3. head[c] \in Nat /\ tail[c] \in Nat
            BY <1>2 DEF ListType
          <6> QED BY <1>2, <2>4, <5>2, <6>1, <6>2, <6>3 DEF ListType
        <5> QED BY <5>1, <5>2
      <4>3. users'[u] = users[u] /\ wire'[u] = wire[u]
        BY <2>4 DEF SameSlot
      <4>4. Cursor(users[u], wire[u])'
        BY <3>2, <4>1, <4>2, <4>3 DEF Cursor, InList
      <4> QED BY <2>1, <2>4, <4>3, <4>4, <3>2 DEF UserOK, SameSlot, Cursor, NoCursor, InList, NoNode
    <3> QED BY <2>1, <3>1, <3>2 DEF UserOK
  <2> QED BY <2>2, <2>3, <2>4, QueueUser
<1>6. ThreadInv'
  <2>1. ev \in Slots /\ users[ev].kind = "local" /\ fan = 0
    BY <1>1 DEF ThreadInv
  <2>2. users[ev].is_send = -1 /\ users[ev].channel = NoChannel
    BY <2>1 DEF UserInv, UserOK
  <2>3. users[ev].node = NoNode
    BY <2>1, <2>2 DEF UserInv, UserOK, NoCursor
  <2>4. ~Waiting(users[ev], c)
    BY <2>2 DEF Waiting
  <2>5. users[ev].node # Node(c, head[c])
    BY <2>3 DEF NoNode, Node
  <2>6. users'[ev] = users[ev]
    BY <2>1, <2>4, <2>5, QueueUser DEF SameSlot
  <2> QED BY <1>1, <2>1, <2>6 DEF ThreadInv, thread
<1>7. WakeInv'
  BY <1>1 DEF WakeInv, Served, thread
<1> QED BY <1>2, <1>4, <1>5, <1>6, <1>7

-----------------------------------------------------------------------------
(***************************************************************************)
(* The theorems.                                                           *)
(***************************************************************************)
LEMMA NextIInv == IInv /\ [Next]_vars => IInv'
<1> SUFFICES ASSUME IInv, [Next]_vars PROVE IInv'
  OBVIOUS
<1>1. CASE Events
  BY <1>1, AcceptStep, EventInStep, EventOutStep, EventHupStep DEF Events
<1>2. CASE LocalRecv
  BY <1>2, LocalDoneStep, LocalFailsStep, DropPacketStep, QueuePacketStep DEF LocalRecv
<1>3. CASE NetRecv
  <2>1. ASSUME NEW o \in Bool, NEW v \in Bool, NetLogin(o, v) PROVE IInv'
    BY <2>1, NetLoginStep DEF Bool
  <2>2. ASSUME NetFails PROVE IInv'
    BY <2>2, NetClosesStep DEF NetFails
  <2> QED BY <1>3, <2>1, <2>2, NetDoneStep, NetUnknownStep, NetDataReqStep DEF NetRecv
<1>4. CASE FanVisit \/ FanEnd
  BY <1>4, FanVisitStep, FanEndStep
<1>5. CASE SendLoop
  BY <1>5, SendFullStep, SendAgainStep, SendFailsStep, SendIdleStep, SendShortStep DEF SendLoop
<1>6. ASSUME NEW u \in Slots, Drain(u) PROVE IInv'
  BY <1>6, DrainStep
<1>7. CASE UNCHANGED vars
  <2> USE DEF IInv, TypeOK
  <2>1. /\ UNCHANGED <<users, blocked, edge, wire, auth>> /\ UNCHANGED lists
        /\ UNCHANGED <<pc, ev, alsoOut, fan>>
    BY <1>7 DEF vars, thread, kernel, ghosts
  <2>2. TypeOK' /\ ListLenExact'
    BY <2>1, SameLists DEF TableType, ThreadType
  <2>3. UserInv'
    BY <2>1 DEF UserInv, UserOK, Cursor, NoCursor, InList, lists
  <2>4. ThreadInv' /\ WakeInv'
    BY <2>1 DEF ThreadInv, WakeInv, Served, Lagging, CaughtUp, HasNext, Cur, lists
  <2> QED BY <2>2, <2>3, <2>4
<1> QED BY <1>1, <1>2, <1>3, <1>4, <1>5, <1>6, <1>7 DEF Next

\* The inductive invariant holds in every reachable state.
THEOREM Invariance == Spec => []IInv
BY InitIInv, NextIInv, PTL DEF Spec

\* Type correctness, with the bounds on the channel table and on every list.
THEOREM TypeCorrect == Spec => []TypeOK
<1>1. IInv => TypeOK
  BY DEF IInv
<1> QED BY <1>1, Invariance, PTL

\* No cursor ever refers to a packet the eviction has freed.
THEOREM CursorSafety == Spec => []CursorLive
<1>1. IInv => CursorLive
  <2> SUFFICES ASSUME IInv, NEW u \in Slots
               PROVE  /\ users[u].node # NoNode => InList(users[u].node)
                      /\ users[u].data # NoNode => users[u].data = users[u].node
    BY DEF CursorLive
  <2>1. UserOK(u)
    BY DEF IInv, UserInv
  <2> QED BY <2>1 DEF UserOK, Cursor, NoCursor
<1> QED BY <1>1, Invariance, PTL

\* list_len is the length of the list.
THEOREM ListLength == Spec => []ListLenExact
<1>1. IInv => ListLenExact
  BY DEF IInv
<1> QED BY <1>1, Invariance, PTL

\* The thread never sleeps on a viewer it could serve.
THEOREM WakeupSafety == Spec => []NoLostWakeup
<1>1. IInv => NoLostWakeup
  BY DEF IInv, WakeInv, Served, NoLostWakeup
<1> QED BY <1>1, Invariance, PTL

\* No media before a LOGIN that passed.
THEOREM LoginFirst == Spec => []AuthBeforeMedia
<1>1. IInv => AuthBeforeMedia
  <2> SUFFICES ASSUME IInv, NEW u \in Slots, wire[u] # NoPos \/ users[u].channel # NoChannel
               PROVE  auth[u]
    BY DEF AuthBeforeMedia
  <2>1. UserOK(u)
    BY DEF IInv, UserInv
  <2> QED BY <2>1 DEF UserOK, NoCursor
<1> QED BY <1>1, Invariance, PTL

\* A viewer is sent the channel it asked for last.
THEOREM RequestFollowed == Spec => []FollowsRequest
<1>1. IInv => FollowsRequest
  BY DEF IInv, UserInv, UserOK, FollowsRequest
<1> QED BY <1>1, Invariance, PTL

-----------------------------------------------------------------------------
(***************************************************************************)
(* Which steps move the lists and the wires, and how.                      *)
(***************************************************************************)
Quiet  == UNCHANGED <<tail, wire>>
Resets == \E u \in Slots : UNCHANGED tail /\ wire' = [wire EXCEPT ![u] = NoPos]
Sends  == \E x \in Slots : \E s \in User : \E k \in 1..s.left :
            /\ Ready(s, wire[x]) /\ UNCHANGED tail
            /\ wire' = [wire EXCEPT ![x] =
                          Wrote(@, s.data, PktLen - s.left, PktLen - s.left + k)]
Queues == \E c \in Channels : QueuePacket(c)

LEMMA CloseResets ==
  ASSUME NEW x \in Slots, Close(x), UNCHANGED lists
  PROVE  Resets
BY Zenon DEF Close, Resets, lists

LEMMA ReplyMoves ==
  ASSUME IInv, pc = "net", NEW r, NEW a, Reply(r, a)
  PROVE  Quiet \/ Resets
<1>1. ev \in Slots
  BY DEF IInv, ThreadInv
<1>2. CASE NetCloses
  <2>1. \E x \in Slots : Close(x) /\ UNCHANGED lists
    BY <1>1, <1>2 DEF NetCloses
  <2> QED BY <2>1, CloseResets
<1>3. CASE ~NetCloses
  BY <1>3 DEF Reply, Quiet, lists
<1> QED BY <1>2, <1>3

LEMMA SendMoves ==
  ASSUME IInv, SendLoop
  PROVE  Quiet \/ Resets \/ Sends
<1> USE Constants
<1>0. pc = "send"
  BY DEF SendLoop, SendFull, SendAgain, SendFails, SendIdle, SendShort
<1>1. PICK x \in Slots : x = Cur
  BY <1>0, SendUser
<1>2. ~CaughtUp(users[x]) => Prepared(users[x]) \in User /\ Ready(Prepared(users[x]), wire[x])
  BY <1>0, <1>1, SendUser, PreparedReady
<1>3. CASE SendFull
  <2> DEFINE s == Prepared(users[x])
  <2>1. s \in User /\ Ready(s, wire[x])
    BY <1>1, <1>2, <1>3 DEF SendFull
  <2>2. wire' = [wire EXCEPT ![x] = Wrote(@, s.data, PktLen - s.left, PktLen)]
    BY <1>1, <1>3, Zenon DEF SendFull
  <2>3. UNCHANGED tail
    BY <1>3 DEF SendFull, lists
  <2> HIDE DEF s
  <2>4. s.left \in 1..s.left /\ PktLen = PktLen - s.left + s.left
    BY <2>1 DEF Ready
  <2>5. wire' = [wire EXCEPT ![x] =
                   Wrote(@, s.data, PktLen - s.left, PktLen - s.left + s.left)]
    BY <2>2, <2>4, Zenon
  <2> QED BY <2>1, <2>3, <2>4, <2>5, Zenon DEF Sends
<1>4. ASSUME NEW k \in 1..(PktLen - 1), SendShort(k) PROVE Sends
  <2> DEFINE s == Prepared(users[x])
  <2>1. s \in User /\ Ready(s, wire[x])
    BY <1>1, <1>2, <1>4 DEF SendShort
  <2>2. /\ wire' = [wire EXCEPT ![x] = Wrote(@, s.data, PktLen - s.left, PktLen - s.left + k)]
        /\ k < s.left
    BY <1>1, <1>4, Zenon DEF SendShort
  <2>3. UNCHANGED tail
    BY <1>4 DEF SendShort, lists
  <2> HIDE DEF s
  <2>4. k \in 1..s.left
    BY <2>1, <2>2 DEF Ready
  <2> QED BY <2>1, <2>2, <2>3, <2>4, Zenon DEF Sends
<1>5. CASE SendFails
  BY <1>1, <1>5, CloseResets DEF SendFails
<1>6. CASE SendAgain \/ SendIdle
  BY <1>6 DEF SendAgain, SendIdle, Quiet, lists, ghosts
<1> QED BY <1>3, <1>4, <1>5, <1>6 DEF SendLoop

LEMMA Moves == IInv /\ [Next]_vars => Quiet \/ Resets \/ Sends \/ Queues
<1> SUFFICES ASSUME IInv, [Next]_vars PROVE Quiet \/ Resets \/ Sends \/ Queues
  OBVIOUS
<1>1. CASE Events
  <2>1. ASSUME NEW u \in Slots, EventHup(u) PROVE Resets
    BY <2>1, CloseResets DEF EventHup
  <2> QED BY <1>1, <2>1 DEF Events, Accept, EventIn, EventOut, Quiet, lists, ghosts
<1>2. CASE LocalRecv
  <2>1. ASSUME LocalFails PROVE Resets
    <3>1. ev \in Slots
      BY <2>1 DEF LocalFails, IInv, ThreadInv
    <3>2. \E x \in Slots : Close(x) /\ UNCHANGED lists
      BY <2>1, <3>1 DEF LocalFails
    <3> QED BY <3>2, CloseResets
  <2> QED BY <1>2, <2>1 DEF LocalRecv, LocalDone, DropPacket, Queues, Quiet, lists, ghosts
<1>3. CASE NetRecv
  <2>1. ASSUME NetDone PROVE Quiet
    BY <2>1 DEF NetDone, Quiet, lists, ghosts
  <2>2. ASSUME NetFails PROVE Resets
    <3>1. ev \in Slots
      BY <2>2 DEF NetFails, IInv, ThreadInv
    <3>2. \E x \in Slots : Close(x) /\ UNCHANGED lists
      BY <2>2, <3>1 DEF NetFails, NetCloses
    <3> QED BY <3>2, CloseResets
  <2>3. ASSUME NEW o \in Bool, NEW v \in Bool, NetLogin(o, v) PROVE Quiet \/ Resets
    BY <2>3, ReplyMoves, Zenon DEF NetLogin
  <2>4. ASSUME NEW chid \in ReqIds, NetDataReq(chid) PROVE Quiet \/ Resets
    BY <2>4, ReplyMoves, Zenon DEF NetDataReq
  <2>5. ASSUME NetUnknown PROVE Quiet \/ Resets
    BY <2>5, ReplyMoves, Zenon DEF NetUnknown
  <2> QED BY <1>3, <2>1, <2>2, <2>3, <2>4, <2>5 DEF NetRecv
<1>4. CASE FanVisit \/ FanEnd
  BY <1>4 DEF FanVisit, FanEnd, Quiet, lists, ghosts
<1>5. CASE SendLoop
  BY <1>5, SendMoves
<1>6. ASSUME NEW u \in Slots, Drain(u) PROVE Quiet
  BY <1>6 DEF Drain, Quiet, lists, ghosts
<1>7. CASE UNCHANGED vars
  BY <1>7 DEF vars, Quiet, lists, ghosts
<1> QED BY <1>1, <1>2, <1>3, <1>4, <1>5, <1>6, <1>7 DEF Next

\* Room is made for a packet only at the cost of those who stand at the far end
\* of its own full list.
LEMMA EvictionStep ==
  ASSUME IInv, [Next]_vars, NEW c \in Channels, tail'[c] # tail[c],
         NEW u \in Slots, users'[u] # users[u]
  PROVE  \/ users[u].channel = c /\ users'[u] = Attach(users[u], Node(c, tail'[c]))
         \/ /\ users'[u] = InitUser
            /\ users[u].node.ch = c
            /\ tail[c] - users[u].node.num + 1 = MAX_LIST_LEN
<1> USE Constants DEF IInv, TypeOK
<1>1. PICK d \in Channels : QueuePacket(d)
  BY Moves DEF Quiet, Resets, Sends, Queues
<1>2. /\ tail' = [tail EXCEPT ![d] = tail[d] + 1]
      /\ Overflow(d) => tail[d] - head[d] + 1 = MAX_LIST_LEN
  BY <1>1, QueueLists
<1>3. c = d /\ tail'[c] = tail[c] + 1
  BY <1>2 DEF ListType
<1>4. CASE Overflow(c) /\ users[u].node = Node(c, head[c]) /\ users'[u] = InitUser
  <2>1. users[u].node.ch = c /\ users[u].node.num = head[c]
    BY <1>4 DEF Node
  <2> QED BY <1>2, <1>3, <1>4, <2>1
<1>5. CASE Waiting(users[u], c) /\ users'[u] = Attach(users[u], Node(c, tail[c] + 1))
  BY <1>3, <1>5 DEF Waiting
<1> QED BY <1>1, <1>3, <1>4, <1>5, QueueUser DEF SameSlot

\* Only laggards are evicted.
THEOREM EvictionOnlyOfLaggards == Spec => EvictsOnlyLaggards
<1> DEFINE A == \A c \in Channels : tail'[c] # tail[c] =>
                  \A u \in Slots : users'[u] # users[u] =>
                    \/ users[u].channel = c /\ users'[u] = Attach(users[u], Node(c, tail'[c]))
                    \/ /\ users'[u] = InitUser
                       /\ users[u].node.ch = c
                       /\ tail[c] - users[u].node.num + 1 = MAX_LIST_LEN
<1>1. IInv /\ [Next]_vars => [A]_vars
  BY EvictionStep
<1>2. EvictsOnlyLaggards <=> [][A]_vars
  BY DEF EvictsOnlyLaggards
<1> HIDE DEF A
<1> QED BY <1>1, <1>2, Invariance, PTL DEF Spec

-----------------------------------------------------------------------------
(***************************************************************************)
(* Relay implements LiveStream.                                            *)
(***************************************************************************)

\* A send joins a channel, continues a packet or goes on to the next one.
LEMMA SendRefines ==
  ASSUME IInv, NEW x \in Slots, NEW s \in User, NEW k \in 1..s.left,
         Ready(s, wire[x]), UNCHANGED tail,
         wire' = [wire EXCEPT ![x] = Wrote(@, s.data, PktLen - s.left, PktLen - s.left + k)]
  PROVE  Stream!Next
<1> USE Constants DEF IInv, TypeOK
<1> DEFINE c == s.node.ch
           n == s.node.num
<1>1. /\ c \in Channels /\ n \in Nat \ {0}
      /\ s.left \in 1..PktLen /\ k \in 1..PktLen
  BY CursorNode DEF Ready
<1>2. n \in 1..tail[c] /\ tail[c] \in Nat
  <2>1. n \in head[c]..tail[c] /\ head[c] \in Nat \ {0} /\ tail[c] \in Nat
    BY <1>1 DEF Ready, InList, ListType
  <2> QED BY <1>1, <2>1
<1>3. Wrote(wire[x], s.data, PktLen - s.left, PktLen - s.left + k)
        = [ch |-> c, num |-> n, off |-> PktLen - s.left + k]
  BY WroteNext
<1>4. wire' = [wire EXCEPT ![x] = [ch |-> c, num |-> n, off |-> PktLen - s.left + k]]
  BY <1>3, Zenon
<1> HIDE DEF c, n
<1>5. CASE wire[x] = NoPos
  <2>1. s.left = PktLen
    BY <1>1, <1>5 DEF Ready, Cursor, NoPos
  <2>2. PktLen - s.left + k = k
    BY <1>1, <2>1
  <2>3. Stream!Join(x, c, n, k)
    BY <1>2, <1>4, <1>5, <2>2 DEF Stream!Join, Stream!NoPos, Stream!NoChannel, NoPos, NoChannel
  <2> QED BY <1>1, <1>2, <2>3, Zenon DEF Stream!Next
<1>6. CASE wire[x] # NoPos /\ s.left = PktLen
  <2>1. wire[x] = [ch |-> c, num |-> n - 1, off |-> PktLen]
    BY <1>6 DEF Ready, Cursor, c, n
  <2>2. PktLen - s.left + k = k /\ n - 1 < tail[c] /\ (n - 1) + 1 = n
    BY <1>1, <1>2, <1>6
  <2>3. wire[x].ch = c /\ wire[x].num = n - 1 /\ wire[x].off = PktLen
    BY <2>1
  <2>4. wire' = [wire EXCEPT ![x] = [ch |-> @.ch, num |-> @.num + 1, off |-> k]]
    BY <1>4, <2>2, <2>3, Zenon
  <2>5. Stream!Advance(x, k)
    BY <1>6, <2>2, <2>3, <2>4 DEF Stream!Advance, Stream!NoPos, Stream!NoChannel, NoPos, NoChannel
  <2> QED BY <1>1, <2>5, Zenon DEF Stream!Next
<1>7. CASE wire[x] # NoPos /\ s.left # PktLen
  <2>1. wire[x] = [ch |-> c, num |-> n, off |-> PktLen - s.left]
    BY <1>7 DEF Ready, Cursor, c, n
  <2>2. (PktLen - s.left) + k =< PktLen
    BY <1>1
  <2>3. wire[x].off = PktLen - s.left
    BY <2>1
  <2>4. wire' = [wire EXCEPT ![x].off = @ + k]
    <3>1. [wire[x] EXCEPT !.off = @ + k] = [ch |-> c, num |-> n, off |-> PktLen - s.left + k]
      BY <2>1
    <3> QED BY <1>4, <3>1, Zenon
  <2>5. Stream!Continue(x, k)
    BY <1>7, <2>2, <2>3, <2>4 DEF Stream!Continue, Stream!NoPos, Stream!NoChannel, NoPos, NoChannel
  <2> QED BY <1>1, <2>5, Zenon DEF Stream!Next
<1> QED BY <1>5, <1>6, <1>7

\* Queueing a packet publishes it and resets whom it evicts.
LEMMA QueueRefines ==
  ASSUME IInv, NEW c \in Channels, QueuePacket(c)
  PROVE  Stream!Next
<1> USE DEF IInv, TypeOK
<1>1. PICK Cut \in SUBSET Slots : Cut = IF Overflow(c) THEN AtHead(c) ELSE {}
  BY DEF AtHead
<1>2. wire' = [u \in Slots |-> IF u \in Cut THEN NoPos ELSE wire[u]]
  BY <1>1, Zenon DEF QueuePacket, CloseAll
<1>3. tail' = [tail EXCEPT ![c] = tail[c] + 1]
  BY QueueLists
<1>4. Stream!Publish(c, Cut)
  BY <1>2, <1>3 DEF Stream!Publish, Stream!NoPos, Stream!NoChannel, NoPos, NoChannel
<1> QED BY <1>4, Zenon DEF Stream!Next

\* Whatever the relay does, no viewer gets anything but one channel, in order and
\* without a gap.
THEOREM Implements == Spec => StreamSpec
<1>1. Init => Stream!Init
  BY DEF Init, Stream!Init, Stream!NoPos, Stream!NoChannel, NoPos, NoChannel
<1>2. IInv /\ [Next]_vars => [Stream!Next]_<<tail, wire>>
  <2> SUFFICES ASSUME IInv, [Next]_vars PROVE [Stream!Next]_<<tail, wire>>
    OBVIOUS
  <2>1. CASE Quiet
    BY <2>1 DEF Quiet
  <2>2. CASE Resets
    <3>1. PICK u \in Slots : UNCHANGED tail /\ wire' = [wire EXCEPT ![u] = NoPos]
      BY <2>2 DEF Resets
    <3>2. Stream!Reset(u)
      BY <3>1 DEF Stream!Reset, Stream!NoPos, Stream!NoChannel, NoPos, NoChannel
    <3> QED BY <3>2, Zenon DEF Stream!Next
  <2>3. CASE Sends
    BY <2>3, SendRefines, Zenon DEF Sends
  <2>4. CASE Queues
    BY <2>4, QueueRefines DEF Queues
  <2> QED BY <2>1, <2>2, <2>3, <2>4, Moves
<1> QED BY <1>1, <1>2, Invariance, PTL DEF Spec, StreamSpec, Stream!Spec

=============================================================================
