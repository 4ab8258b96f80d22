---------------------------- MODULE ReportProofs ----------------------------
(***************************************************************************)
(* Proofs about Report, for every table, every set of threads and rooms:   *)
(* the reports leave the invariant of the links alone, and no link that is *)
(* up is left out of them unless its post has failed.                      *)
(***************************************************************************)
EXTENDS Report, RecLinkProofs

-----------------------------------------------------------------------------
(***************************************************************************)
(* The inductive invariant: a slot a thread works on was initialised once, *)
(* and m_id is never -1 again; so a slot that is OK is one the report      *)
(* copies.                                                                 *)
(***************************************************************************)
SlotsUsed ==
  /\ \A l \in Links : link[l].pc # "none" => InUse(Me(l))
  /\ \A w \in Actors : web[w].pc = "create" => InUse(web[w].slot)
  /\ \A s \in Slots : con[s].status = "OK" => InUse(s)

\* The first pass has counted no more slots than it has seen.
MsgOK == RepTypeOK /\ (rep.pc = "count" => rep.total < rep.at)

RepInv == IInv /\ MsgOK /\ SlotsUsed /\ OKReported

LEMMA FreshPass ==
  /\ Fresh \in Pass /\ Fresh.pc = "count" /\ Fresh.at = 1 /\ Fresh.total = 0 /\ 1 \in Slots
  /\ \A s \in Slots : Fresh.msg[s] = NoInfo
  /\ [Fresh EXCEPT !.pc = "off"] \in Pass
<1>1. 1 \in Slots /\ 0 \in 0..CHANNEL_CONNECT_MAX_NUM
  BY Constants DEF Slots
<1> DEFINE msg == [s \in Slots |-> NoInfo]
<1>2. msg \in [Slots -> RoomInfo \cup {NoInfo}] /\ \A s \in Slots : msg[s] = NoInfo
  OBVIOUS
<1>3. Fresh = [pc |-> "count", at |-> 1, total |-> 0, any |-> FALSE, msg |-> msg]
  BY DEF Fresh
<1> HIDE DEF msg
<1> QED BY <1>1, <1>2, <1>3 DEF Pass

LEMMA RepInitInv == RepInit => RepInv
<1> SUFFICES ASSUME RepInit PROVE RepInv
  OBVIOUS
<1>1. IInv
  BY InitInv DEF RepInit
<1>2. /\ rep \in Pass /\ rep.pc = "off" /\ rep.msg = [s \in Slots |-> NoInfo]
      /\ mc = [s \in Slots |-> NoInfo] /\ missed = {}
  BY FreshPass DEF RepInit, Fresh
<1>3. MsgOK
  BY <1>2 DEF MsgOK, RepTypeOK, Copied
<1>4. \A w \in Actors : web[w].pc = "next"
  BY DEF RepInit, Init, Idle
<1>5. SlotsUsed /\ OKReported
  BY <1>4 DEF RepInit, Init, Cleared, NoThread, SlotsUsed, OKReported
<1> QED BY <1>1, <1>3, <1>5 DEF RepInv

-----------------------------------------------------------------------------
(***************************************************************************)
(* What a step of the links' threads leaves to the report: a slot that is  *)
(* OK afterwards has its flag set or is to get it, or was OK and is        *)
(* unchanged in what is reported of it.                                    *)
(***************************************************************************)
SlotKept(s, c) ==
  /\ c.ip # NoBox \/ c.ip = con[s].ip
  /\ c.status = "OK" => con[s].status = "OK" \/ c.ip # NoBox
  /\ c.status = "OK" => \/ c.change = 1
                        \/ /\ con[s].status = "OK" /\ c.change = con[s].change
                           /\ c.ip = con[s].ip /\ c.room = con[s].room
                        \/ ToFlag(s)'
ConKept == \A s \in Slots : SlotKept(s, con'[s])
LinkKept ==
  \A l \in Links : link'[l].pc # "none" =>
    \/ link[l].pc # "none" /\ link'[l].slot = link[l].slot
    \/ \E w \in Actors : web[w].pc = "create" /\ web[w].slot = link'[l].slot
WebKept ==
  \A w \in Actors : web'[w].pc = "create" =>
    \/ web[w].pc = "create" /\ web'[w].slot = web[w].slot
    \/ con'[web'[w].slot].ip # NoBox
FlagKept == \A s \in Slots : ToFlag(s) => ToFlag(s)' \/ con'[s].change = 1

LEMMA FlagSame == link' = link => FlagKept /\ \A s \in Slots : ToFlag(s)' = ToFlag(s)
BY DEF FlagKept, ToFlag, Me, At

LEMMA ConSame == con' = con => ConKept
BY DEF ConKept, SlotKept

LEMMA ConOne ==
  ASSUME NEW s \in Slots, con \in [Slots -> Info], NEW c, con' = [con EXCEPT ![s] = c],
         SlotKept(s, c)
  PROVE  ConKept
<1> SUFFICES ASSUME NEW t \in Slots PROVE SlotKept(t, con'[t])
  BY DEF ConKept
<1>1. CASE t = s
  BY <1>1
<1>2. CASE t # s
  BY <1>2 DEF SlotKept
<1> QED BY <1>1, <1>2

LEMMA LinkSame ==
  ASSUME NEW l \in Links, link \in [Links -> Thread], NEW p, Goto(l, p),
         link[l].pc # "none"
  PROVE  LinkKept
BY DEF LinkKept, Goto, Thread

LEMMA KeptInv ==
  ASSUME TypeOK, SlotsUsed, OKReported, ConKept, LinkKept, WebKept, FlagKept,
         UNCHANGED <<rep, centre>>
  PROVE  SlotsUsed' /\ OKReported'
<1>0. /\ \A l \in Links : link[l].pc # "none" => Me(l) \in Slots
      /\ \A w \in Actors : web[w].pc = "create" => web[w].slot \in Slots
  BY DEF TypeOK, Thread, Actor, Me
<1>1. \A s \in Slots : InUse(s) => con'[s].ip # NoBox
  BY DEF ConKept, SlotKept, InUse
<1>2. \A l \in Links : link'[l].pc # "none" => con'[link'[l].slot].ip # NoBox
  BY <1>0, <1>1 DEF LinkKept, SlotsUsed, Me
<1>3. \A w \in Actors : web'[w].pc = "create" => con'[web'[w].slot].ip # NoBox
  BY <1>0, <1>1 DEF WebKept, SlotsUsed
<1>4. \A s \in Slots : con'[s].status = "OK" => con'[s].ip # NoBox
  BY <1>1 DEF ConKept, SlotKept, SlotsUsed
<1>5. SlotsUsed'
  BY <1>2, <1>3, <1>4 DEF SlotsUsed, InUse, Me
<1>6. OKReported'
  <2> SUFFICES ASSUME NEW s \in Slots, con'[s].status = "OK", con'[s].change # 1
               PROVE  \/ ToFlag(s)'
                      \/ rep.pc = "copy" /\ rep.at = s
                      \/ s \in missed \ Copied
                      \/ Told(s) = InfoOf(s)'
    BY DEF OKReported, Told, Copied, centre
  <2> SUFFICES ASSUME ~ToFlag(s)'
               PROVE  \/ rep.pc = "copy" /\ rep.at = s
                      \/ s \in missed \ Copied
                      \/ Told(s) = InfoOf(s)'
    OBVIOUS
  <2>0. ~ToFlag(s)
    BY DEF FlagKept
  <2>1. /\ con[s].status = "OK" /\ con[s].change # 1
        /\ con'[s].ip = con[s].ip /\ con'[s].room = con[s].room
    BY DEF ConKept, SlotKept
  <2>2. InfoOf(s)' = InfoOf(s)
    BY <2>1 DEF InfoOf
  <2> QED BY <2>0, <2>1, <2>2 DEF OKReported
<1> QED BY <1>5, <1>6

-----------------------------------------------------------------------------
(***************************************************************************)
(* Every step of the links' threads is such a step.                        *)
(***************************************************************************)
LEMMA WebSame == web' = web => WebKept
BY DEF WebKept

LEMMA LinksSame == link' = link => LinkKept
BY DEF LinkKept

\* The steps of a link thread that change its slot, and no other thing reported.
LEMMA LinkConKept ==
  ASSUME TypeOK, SlotsUsed, NEW l \in Links, LinkStep(l)
  PROVE  ConKept
<1>0. con \in [Slots -> Info]
  BY DEF TypeOK
<1>1. link[l].pc # "none" => Me(l) \in Slots /\ con[Me(l)] \in Info /\ con[Me(l)].ip # NoBox
  BY ThreadFields DEF SlotsUsed, InUse
<1> DEFINE c == con[Me(l)]
<1>2. CASE RequestOK(l)
  <2>1. SlotKept(Me(l), [c EXCEPT !.tcp = l])
    BY <1>1, <1>2 DEF SlotKept, Info, RequestOK, At
  <2>2. con' = [con EXCEPT ![Me(l)] = [c EXCEPT !.tcp = l]]
    BY <1>2 DEF RequestOK
  <2>3. Me(l) \in Slots
    BY <1>1, <1>2 DEF RequestOK, At
  <2> QED BY <1>0, <2>1, <2>2, <2>3, ConOne
<1>3. CASE PollClosed(l)
  <2>1. SlotKept(Me(l), [c EXCEPT !.status = "CLOSE"])
    BY <1>1, <1>3 DEF SlotKept, Info, PollClosed, At
  <2>2. con' = [con EXCEPT ![Me(l)] = [c EXCEPT !.status = "CLOSE"]]
    BY <1>3 DEF PollClosed
  <2>3. Me(l) \in Slots
    BY <1>1, <1>3 DEF PollClosed, At
  <2> QED BY <1>0, <2>1, <2>2, <2>3, ConOne
<1>4. CASE Lost(l)
  <2>1. SlotKept(Me(l), [c EXCEPT !.bt = 1])
    BY <1>1, <1>4 DEF SlotKept, Info, Lost, At
  <2>2. con' = [con EXCEPT ![Me(l)] = [c EXCEPT !.bt = 1]]
    BY <1>4 DEF Lost
  <2>3. Me(l) \in Slots
    BY <1>1, <1>4 DEF Lost, At
  <2> QED BY <1>0, <2>1, <2>2, <2>3, ConOne
<1>5. CASE FirePacks(l)
  <2>1. SlotKept(Me(l), [c EXCEPT !.udp = TRUE, !.quiet = FALSE])
    BY <1>1, <1>5 DEF SlotKept, Info, FirePacks, At
  <2>2. con' = [con EXCEPT ![Me(l)] = [c EXCEPT !.udp = TRUE, !.quiet = FALSE]]
    BY <1>5 DEF FirePacks
  <2>3. Me(l) \in Slots
    BY <1>1, <1>5 DEF FirePacks, At
  <2> QED BY <1>0, <2>1, <2>2, <2>3, ConOne
<1>6. CASE FireOK(l)
  <2>1. Me(l) \in Slots /\ link[l].pc = "ok" /\ link \in [Links -> Thread]
    BY <1>1, <1>6 DEF FireOK, At, TypeOK
  <2>2. ToFlag(Me(l))'
    BY <1>6, <2>1 DEF FireOK, Goto, ToFlag, Me, At, Thread
  <2>3. SlotKept(Me(l), [c EXCEPT !.status = "OK"])
    BY <1>1, <2>1, <2>2 DEF SlotKept, Info
  <2>4. con' = [con EXCEPT ![Me(l)] = [c EXCEPT !.status = "OK"]]
    BY <1>6 DEF FireOK
  <2> QED BY <1>0, <2>1, <2>3, <2>4, ConOne
<1>10. CASE FireClears(l)
  <2>1. SlotKept(Me(l), [c EXCEPT !.bt = 0])
    BY <1>1, <1>10 DEF SlotKept, Info, FireClears, At
  <2>2. con' = [con EXCEPT ![Me(l)] = [c EXCEPT !.bt = 0]]
    BY <1>10 DEF FireClears
  <2>3. Me(l) \in Slots
    BY <1>1, <1>10 DEF FireClears, At
  <2> QED BY <1>0, <2>1, <2>2, <2>3, ConOne
<1>11. CASE FireFlags(l)
  <2>1. SlotKept(Me(l), [c EXCEPT !.change = 1])
    BY <1>1, <1>11 DEF SlotKept, Info, FireFlags, At
  <2>2. con' = [con EXCEPT ![Me(l)] = [c EXCEPT !.change = 1]]
    BY <1>11 DEF FireFlags
  <2>3. Me(l) \in Slots
    BY <1>1, <1>11 DEF FireFlags, At
  <2> QED BY <1>0, <2>1, <2>2, <2>3, ConOne
<1>7. CASE ExitForget(l)
  <2>1. SlotKept(Me(l), [c EXCEPT !.tcp = 0, !.udp = FALSE])
    BY <1>1, <1>7 DEF SlotKept, Info, ExitForget, At
  <2>2. con' = [con EXCEPT ![Me(l)] = [c EXCEPT !.tcp = 0, !.udp = FALSE]]
    BY <1>7 DEF ExitForget
  <2>3. Me(l) \in Slots
    BY <1>1, <1>7 DEF ExitForget, At
  <2> QED BY <1>0, <2>1, <2>2, <2>3, ConOne
<1>8. CASE Reconnect(l)
  <2>1. SlotKept(Me(l), [c EXCEPT !.status = "CONNECTING"])
    BY <1>1, <1>8 DEF SlotKept, Info, Reconnect, At
  <2>2. con' = [con EXCEPT ![Me(l)] = [c EXCEPT !.status = "CONNECTING"]]
    BY <1>8 DEF Reconnect
  <2>3. Me(l) \in Slots
    BY <1>1, <1>8 DEF Reconnect, At
  <2> QED BY <1>0, <2>1, <2>2, <2>3, ConOne
<1>9. ASSUME ~RequestOK(l), ~PollClosed(l), ~Lost(l), ~FirePacks(l), ~FireOK(l),
             ~FireClears(l), ~FireFlags(l), ~ExitForget(l), ~Reconnect(l)
      PROVE  con' = con
  BY <1>9 DEF LinkStep, Login, RecvLoop, Leaving, ConnectOK, ConnectFails, PasswordOK,
     PasswordFails, VerifyDone, VerifyFails, RequestFails, LoopTest, PollNothing,
     PollFirewall, FireFails, StartHeart, HeartFails, ExitClose, ExitCheck
<1> QED BY <1>2, <1>3, <1>4, <1>5, <1>6, <1>7, <1>8, <1>9, <1>10, <1>11, ConSame

LEMMA LinkStepKept ==
  ASSUME TypeOK, SlotsUsed, NEW l \in Links, LinkStep(l)
  PROVE  ConKept /\ LinkKept /\ WebKept /\ FlagKept
<1>0. link \in [Links -> Thread] /\ link[l].pc \in Places \cup {"none"}
  BY DEF TypeOK, Thread, Places
<1>1. ASSUME ConnectOK(l) PROVE LinkKept
  BY <1>0, <1>1 DEF ConnectOK, At, LinkKept, Thread
<1>2. ASSUME PollFirewall(l) PROVE LinkKept
  <2>1. link' = [link EXCEPT ![Sock(l)].greeted = @ + 1, ![l].pc = "fire"] /\ link[l].pc = "poll"
    BY <1>2 DEF PollFirewall, At
  <2> QED BY <1>0, <2>1 DEF LinkKept, Thread
<1>3. ASSUME ExitCheck(l) PROVE LinkKept
  <2>1. (\E p \in Places : Goto(l, p)) \/ link' = [link EXCEPT ![l] = NoThread]
    BY <1>3 DEF ExitCheck, Places
  <2>2. link[l].pc # "none"
    BY <1>3 DEF ExitCheck, At
  <2> QED BY <1>0, <2>1, <2>2, LinkSame DEF LinkKept, NoThread
<1>4. ASSUME ~ConnectOK(l), ~PollFirewall(l), ~ExitCheck(l)
      PROVE  link[l].pc # "none" /\ \E p \in Places : Goto(l, p)
  <2>1. CASE Login(l)
    BY <1>4, <2>1 DEF Login, ConnectFails, PasswordOK, PasswordFails, VerifyDone,
       VerifyFails, RequestOK, RequestFails, At, Places
  <2>2. CASE RecvLoop(l)
    BY <1>4, <2>2 DEF RecvLoop, LoopTest, PollNothing, PollClosed, Lost, FirePacks,
       FireFails, FireOK, FireClears, FireFlags, StartHeart, HeartFails, At, Places
  <2>3. CASE Leaving(l)
    BY <1>4, <2>3 DEF Leaving, ExitClose, ExitForget, Reconnect, At, Places
  <2> QED BY <2>1, <2>2, <2>3 DEF LinkStep
<1>5. LinkKept
  BY <1>0, <1>1, <1>2, <1>3, <1>4, LinkSame
<1>6. web' = web
  BY DEF LinkStep, Login, RecvLoop, Leaving, ConnectOK, ConnectFails, PasswordOK,
     PasswordFails, VerifyDone, VerifyFails, RequestOK, RequestFails, LoopTest, PollNothing,
     PollClosed, Lost, FirePacks, FireOK, FireClears, FireFlags, HeartFails, ExitForget,
     Reconnect, PollFirewall, FireFails, StartHeart, ExitClose, ExitCheck, others
<1>7. \A k \in Links \ {l} : link'[k].slot = link[k].slot /\ link'[k].pc = link[k].pc
  <2>1. CASE ConnectOK(l)
    BY <1>0, <2>1 DEF ConnectOK
  <2>2. CASE PollFirewall(l)
    BY <1>0, <2>2 DEF PollFirewall, Thread
  <2>3. CASE ExitCheck(l)
    BY <1>0, <2>3 DEF ExitCheck, Goto
  <2> QED BY <1>0, <1>4, <2>1, <2>2, <2>3 DEF Goto
<1>8. ASSUME link[l].pc \in {"clear", "flag"}
      PROVE  \/ link'[l].slot = link[l].slot /\ link'[l].pc = "flag"
             \/ con'[Me(l)].change = 1
  <2>1. FireClears(l) \/ FireFlags(l)
    BY <1>8 DEF LinkStep, Login, RecvLoop, Leaving, ConnectOK, ConnectFails, PasswordOK,
       PasswordFails, VerifyDone, VerifyFails, RequestOK, RequestFails, LoopTest, PollNothing,
       PollClosed, Lost, FirePacks, FireOK, HeartFails, ExitForget, Reconnect,
       PollFirewall, FireFails, StartHeart, ExitClose, ExitCheck, At
  <2>2. Me(l) \in Slots /\ con \in [Slots -> Info]
    BY <1>8, ThreadFields DEF TypeOK
  <2>3. CASE FireClears(l)
    BY <1>0, <2>3 DEF FireClears, Goto, Thread
  <2>4. CASE FireFlags(l)
    <3>1. con' = [con EXCEPT ![Me(l)].change = 1]
      BY <2>4 DEF FireFlags
    <3> QED BY <2>2, <3>1 DEF Info
  <2> QED BY <2>1, <2>3, <2>4
<1>9. FlagKept
  <2> SUFFICES ASSUME NEW s \in Slots, con'[s].change # 1,
                      NEW k \in Links, Me(k) = s, link[k].pc \in {"clear", "flag"}
               PROVE  link'[k].slot = s /\ link'[k].pc \in {"clear", "flag"}
    BY DEF FlagKept, ToFlag, Me, At
  <2> QED BY <1>7, <1>8 DEF Me
<1> QED BY <1>5, <1>6, <1>9, LinkConKept, WebSame

LEMMA DataKept ==
  ASSUME TypeOK, DataStep
  PROVE  ConKept /\ LinkKept /\ WebKept /\ FlagKept
<1>0. con \in [Slots -> Info]
  BY DEF TypeOK
<1>1. ASSUME DataScan PROVE ConKept
  BY <1>1, ConSame DEF DataScan
<1>2. ASSUME NEW s \in Slots, NEW some \in BOOLEAN, DataVisit(s, some) PROVE ConKept
  <2>1. SlotKept(s, [con[s] EXCEPT !.quiet = ~some])
    BY <1>0 DEF SlotKept, Info
  <2> QED BY <1>0, <1>2, <2>1, ConOne DEF DataVisit
<1>3. ASSUME NEW s \in Slots, DataTimeout(s) PROVE ConKept
  <2>1. SlotKept(s, [con[s] EXCEPT !.status = "CLOSE"])
    BY <1>0 DEF SlotKept, Info
  <2> QED BY <1>0, <1>3, <2>1, ConOne DEF DataTimeout
<1>4. ASSUME DataGivesUp PROVE ConKept
  <2>1. timedOut \in Slots
    BY <1>4 DEF TypeOK, DataGivesUp
  <2>2. SlotKept(timedOut, [con[timedOut] EXCEPT !.change = 1, !.bt = 1])
    BY <1>0, <2>1 DEF SlotKept, Info
  <2> QED BY <1>0, <1>4, <2>1, <2>2, ConOne DEF DataGivesUp
<1>5. web' = web /\ link' = link
  BY DEF DataStep, DataScan, DataVisit, DataTimeout, DataGivesUp
<1> QED BY <1>1, <1>2, <1>3, <1>4, <1>5, WebSame, LinksSame, FlagSame DEF DataStep

LEMMA CommandKept ==
  ASSUME TypeOK, SlotsUsed, NEW w \in Actors, Command(w)
  PROVE  ConKept /\ LinkKept /\ WebKept /\ FlagKept
<1>0. /\ con \in [Slots -> Info] /\ link \in [Links -> Thread] /\ web \in [Actors -> Actor]
      /\ web[w].pc \in {"init", "create"} => web[w].slot \in Slots /\ web[w].todo # <<>>
      /\ web[w] \in Actor
  BY DEF TypeOK, Actor
<1>1. CASE FindFree(w)
  <2>1. \E r : Update(w, r) /\ r.pc # "create"
    <3>1. CASE Update(w, Idle(Tail(web[w].todo)))
      BY <3>1 DEF Idle
    <3>2. CASE \E s \in Free : Update(w, [web[w] EXCEPT !.pc = "init", !.slot = s])
      <4>1. PICK s \in Free : Update(w, [web[w] EXCEPT !.pc = "init", !.slot = s])
        BY <3>2
      <4>2. [web[w] EXCEPT !.pc = "init", !.slot = s].pc = "init"
        BY <1>0 DEF Actor
      <4> QED BY <4>1, <4>2
    <3> QED BY <1>1, <3>1, <3>2 DEF FindFree
  <2>2. WebKept
    BY <1>0, <2>1 DEF WebKept, Update
  <2> QED BY <1>1, <2>2, ConSame, LinksSame, FlagSame DEF FindFree
<1>2. CASE InitSlot(w)
  <2> DEFINE s == web[w].slot
             c == [Cleared EXCEPT !.ip = Ip(w), !.room = Room(w), !.status = "CONNECTING"]
             r == [web[w] EXCEPT !.pc = "create"]
  <2>1. s \in Slots /\ Ip(w) \in Boxes
    BY <1>0, <1>2, RoomType DEF InitSlot, Doing
  <2>2. c.ip # NoBox /\ c.status # "OK"
    BY <2>1, BoxAssumption DEF Cleared
  <2>3. con' = [con EXCEPT ![s] = c] /\ link' = link /\ Update(w, r)
    BY <1>2 DEF InitSlot
  <2>4. r.slot = s
    BY <1>0 DEF Actor
  <2> HIDE DEF c, r
  <2>5. SlotKept(s, c)
    BY <2>2 DEF SlotKept
  <2>6. ConKept
    BY <1>0, <2>1, <2>3, <2>5, ConOne
  <2>7. WebKept
    BY <1>0, <2>1, <2>2, <2>3, <2>4 DEF WebKept, Update
  <2> QED BY <2>3, <2>6, <2>7, LinksSame, FlagSame
<1>3. CASE FindUsed(w)
  <2> DEFINE r == [web[w] EXCEPT !.pc = "exit", !.exits = Used(Ip(w))]
  <2>1. Update(w, r) /\ r.pc = "exit"
    BY <1>0, <1>3 DEF FindUsed, Actor
  <2> HIDE DEF r
  <2>2. WebKept
    BY <1>0, <2>1 DEF WebKept, Update
  <2> QED BY <1>3, <2>2, ConSame, LinksSame, FlagSame DEF FindUsed
<1>4. CASE ExitsDone(w)
  <2>1. Update(w, NextRoom(w)) /\ NextRoom(w).pc = "next"
    BY <1>4 DEF ExitsDone, NextRoom, Idle
  <2>2. WebKept
    BY <1>0, <2>1 DEF WebKept, Update
  <2> QED BY <1>4, <2>2, ConSame, LinksSame, FlagSame DEF ExitsDone
<1>5. ASSUME NEW l \in Links, CreateLink(w, l) PROVE ConKept /\ LinkKept /\ WebKept /\ FlagKept
  <2>1. Update(w, NextRoom(w)) /\ NextRoom(w).pc = "next" /\ web[w].pc = "create"
    BY <1>5 DEF CreateLink, NextRoom, Idle, Doing
  <2>2. WebKept
    BY <1>0, <2>1 DEF WebKept, Update
  <2>3. link' = [link EXCEPT ![l] = [NoThread EXCEPT !.slot = web[w].slot, !.pc = "connect"]]
    BY <1>5 DEF CreateLink
  <2>4. LinkKept
    BY <1>0, <2>1, <2>3 DEF LinkKept, NoThread
  <2>5. link[l].pc = "none"
    BY <1>5 DEF CreateLink, NoThread
  <2>6. FlagKept
    <3>1. \A k \in Links : link[k].pc # "none" => link'[k] = link[k]
      BY <1>0, <2>3, <2>5
    <3> QED BY <3>1 DEF FlagKept, ToFlag, Me, At
  <2> QED BY <1>5, <2>2, <2>4, <2>6, ConSame DEF CreateLink
<1>6. ASSUME NEW s \in Slots, ExitLink(w, s) PROVE ConKept /\ LinkKept /\ WebKept /\ FlagKept
  <2>1. SlotKept(s, [con[s] EXCEPT !.status = "CLOSE", !.change = 1, !.bt = 0])
    BY <1>0 DEF SlotKept, Info
  <2>2. ConKept
    BY <1>0, <1>6, <2>1, ConOne DEF ExitLink
  <2> DEFINE r == [web[w] EXCEPT !.exits = web[w].exits \ {s}]
  <2>3. Update(w, r) /\ r.pc = "exit"
    BY <1>0, <1>6 DEF ExitLink, Actor, Doing
  <2> HIDE DEF r
  <2>4. WebKept
    BY <1>0, <2>3 DEF WebKept, Update
  <2> QED BY <1>6, <2>2, <2>4, LinksSame, FlagSame DEF ExitLink
<1>7. CASE CreateFails(w)
  <2>1. \E r : Update(w, r) /\ r.pc = "next"
    BY <1>7 DEF CreateFails, NextRoom, Idle
  <2>2. WebKept
    BY <1>0, <2>1 DEF WebKept, Update
  <2> QED BY <1>7, <2>2, ConSame, LinksSame, FlagSame DEF CreateFails
<1> QED BY <1>1, <1>2, <1>3, <1>4, <1>5, <1>6, <1>7 DEF Command

LEMMA NextKept ==
  ASSUME TypeOK, SlotsUsed, [Next]_vars
  PROVE  ConKept /\ LinkKept /\ WebKept /\ FlagKept
<1>1. ASSUME NEW l \in Links, PeerCloses(l) PROVE ConKept /\ LinkKept /\ WebKept /\ FlagKept
  BY <1>1, ConSame, LinksSame, WebSame, FlagSame DEF PeerCloses, others
<1>2. ASSUME NEW s \in Slots, HeartEnds(s) PROVE ConKept /\ LinkKept /\ WebKept /\ FlagKept
  BY <1>2, ConSame, LinksSame, WebSame, FlagSame DEF HeartEnds
<1>3. ASSUME NEW w \in Actors, NEW ip \in Boxes, NEW r \in Requests, Receive(w, ip, r)
      PROVE  ConKept /\ LinkKept /\ WebKept /\ FlagKept
  <2> DEFINE e == Idle(<<[ip |-> ip, rooms |-> Entries(r)]>>)
  <2>1. Update(w, e) /\ e.pc = "next" /\ web \in [Actors -> Actor]
    BY <1>3 DEF Receive, Idle, TypeOK
  <2> HIDE DEF e
  <2>2. WebKept
    BY <2>1 DEF WebKept, Update
  <2> QED BY <1>3, <2>2, ConSame, LinksSame, FlagSame DEF Receive
<1>4. CASE UNCHANGED vars
  BY <1>4, ConSame, LinksSame, WebSame, FlagSame DEF vars
<1> QED BY <1>1, <1>2, <1>3, <1>4, LinkStepKept, DataKept, CommandKept DEF Next

-----------------------------------------------------------------------------
(***************************************************************************)
(* The steps of the report.  Only ClearFlag writes the table.              *)
(***************************************************************************)
LEMMA RepParts ==
  RepInv => /\ TypeOK /\ HeartWhileOK /\ SocketOwned /\ IInv /\ con \in [Slots -> Info]
            /\ RepTypeOK /\ SlotsUsed /\ OKReported
            /\ rep \in Pass /\ rep.at \in Slots /\ rep.total \in 0..CHANNEL_CONNECT_MAX_NUM
            /\ rep.msg \in [Slots -> RoomInfo \cup {NoInfo}]
            /\ mc \in [Slots -> RoomInfo \cup {NoInfo}]
            /\ rep.pc = "count" => rep.total < rep.at
            /\ rep.pc \in {"off", "count"} => Copied = {}
BY DEF RepInv, IInv, TypeOK, MsgOK, RepTypeOK, Pass

\* A step of the report that leaves the table alone.
LEMMA LinksStay ==
  ASSUME RepInv, UNCHANGED vars, RepTypeOK', rep'.pc = "count" => rep'.total < rep'.at,
         OKReported'
  PROVE  RepInv'
<1>1. IInv'
  BY NextInv, RepParts
<1>2. SlotsUsed'
  BY RepParts DEF SlotsUsed, InUse, vars, Me
<1> QED BY <1>1, <1>2 DEF RepInv, MsgOK

LEMMA ClearFlagInv ==
  ASSUME RepInv, ClearFlag
  PROVE  RepInv'
<1> DEFINE s == rep.at
           c == [con[s] EXCEPT !.change = 0]
<1>0. /\ TypeOK /\ HeartWhileOK /\ SocketOwned /\ con \in [Slots -> Info] /\ s \in Slots
      /\ RepTypeOK /\ SlotsUsed /\ OKReported /\ rep.pc = "clear" /\ rep \in Pass
  BY RepParts DEF ClearFlag
<1>1. /\ con' = [con EXCEPT ![s] = c] /\ UNCHANGED <<link, peer, hearts, centre, web, unheard>>
      /\ rep' = [rep EXCEPT !.pc = "copy"]
  BY DEF ClearFlag, others, ghosts, centre
<1>2. /\ c \in Info /\ c.status = con[s].status /\ c.tcp = con[s].tcp
      /\ c.ip = con[s].ip /\ c.room = con[s].room
  BY <1>0 DEF Info
<1> HIDE DEF c
<1>3. con' \in [Slots -> Info] /\ HeartWhileOK' /\ SocketOwned'
  BY <1>0, <1>1, <1>2, SlotKeeps
<1>4. TypeOK'
  BY <1>0, <1>3 DEF TypeOK, ClearFlag, others, ghosts, data, Me
<1>5. \A t \in Slots : /\ con'[t].status = con[t].status /\ con'[t].ip = con[t].ip
                       /\ con'[t].room = con[t].room
                       /\ t # s => con'[t] = con[t]
  BY <1>0, <1>1, <1>2
<1>6. /\ \A l \in Links : link[l].pc # "none" => Me(l) \in Slots
      /\ \A w \in Actors : web[w].pc = "create" => web[w].slot \in Slots
  BY <1>0 DEF TypeOK, Thread, Actor, Me
<1>7. SlotsUsed'
  BY <1>0, <1>1, <1>5, <1>6 DEF SlotsUsed, InUse, Me
<1>8. rep' \in Pass /\ rep'.msg = rep.msg /\ rep'.at = s /\ rep'.pc = "copy"
      /\ mc' = mc /\ missed' = missed
  BY <1>0, <1>1 DEF Pass, centre
<1>9. MsgOK'
  BY <1>0, <1>8 DEF MsgOK, RepTypeOK
<1>10. OKReported'
  <2> SUFFICES ASSUME NEW t \in Slots, con'[t].status = "OK", con'[t].change # 1, t # s,
                      t \notin missed \ Copied, ~ToFlag(t)
               PROVE  Told(t)' = InfoOf(t)'
    BY <1>1, <1>8, FlagSame DEF OKReported, Copied
  <2>1. con[t].status = "OK" /\ con[t].change # 1
    BY <1>5
  <2>2. Told(t) = InfoOf(t)
    BY <1>0, <2>1 DEF OKReported
  <2>3. Told(t)' = Told(t)
    BY <1>8 DEF Told, Copied
  <2>4. InfoOf(t)' = InfoOf(t)
    BY <1>5 DEF InfoOf
  <2> QED BY <2>2, <2>3, <2>4
<1> QED BY <1>3, <1>4, <1>7, <1>9, <1>10 DEF RepInv, IInv

LEMMA CountSlotInv ==
  ASSUME RepInv, CountSlot
  PROVE  RepInv'
<1> DEFINE total == rep.total + (IF InUse(rep.at) THEN 1 ELSE 0)
           any   == rep.any \/ con[rep.at].change = 1
<1>0. /\ UNCHANGED <<vars, mc, missed>> /\ rep.pc = "count" /\ Copied = {}
      /\ rep.at \in 1..CHANNEL_CONNECT_MAX_NUM /\ rep.at \in Slots
      /\ rep.total \in Nat /\ rep.total < rep.at /\ rep \in Pass
  BY RepParts, Constants DEF CountSlot, Slots, centre
<1>1. total \in 0..CHANNEL_CONNECT_MAX_NUM /\ total =< rep.at /\ any \in BOOLEAN
  BY <1>0, Constants DEF Pass
<1>2. \/ rep' = Fresh
      \/ rep.at # CHANNEL_CONNECT_MAX_NUM
         /\ rep' = [rep EXCEPT !.at = rep.at + 1, !.total = total, !.any = any]
      \/ rep' = [rep EXCEPT !.pc = "clear", !.at = 1, !.total = total, !.any = any]
  BY DEF CountSlot
<1> HIDE DEF total, any
<1>3. /\ rep' \in Pass /\ rep'.pc # "copy" /\ \A s \in Slots : rep'.msg[s] = NoInfo
      /\ rep'.pc = "count" => rep'.total < rep'.at
  <2>1. CASE rep' = Fresh
    BY <2>1, FreshPass
  <2>2. ASSUME rep.at # CHANNEL_CONNECT_MAX_NUM,
               rep' = [rep EXCEPT !.at = rep.at + 1, !.total = total, !.any = any]
        PROVE  rep' \in Pass /\ rep'.msg = rep.msg /\ rep'.pc = "count" /\ rep'.total < rep'.at
    <3>1. rep.at + 1 \in Slots
      BY <1>0, <2>2, Constants DEF Slots
    <3>2. total \in Int /\ rep.at \in Int /\ total < rep.at + 1
      BY <1>0, <1>1, Constants
    <3>3. rep' \in Pass /\ rep'.msg = rep.msg /\ rep'.pc = "count"
      BY <1>0, <1>1, <2>2, <3>1 DEF Pass
    <3>4. rep'.total = total /\ rep'.at = rep.at + 1
      BY <1>0, <2>2 DEF Pass
    <3> QED BY <3>2, <3>3, <3>4
  <2>3. ASSUME rep' = [rep EXCEPT !.pc = "clear", !.at = 1, !.total = total, !.any = any]
        PROVE  rep' \in Pass /\ rep'.msg = rep.msg /\ rep'.pc = "clear"
    BY <1>0, <1>1, <2>3, FreshPass DEF Pass
  <2> QED BY <1>0, <1>2, <2>1, <2>2, <2>3 DEF Copied
<1>4. Copied' = {}
  BY <1>3 DEF Copied
<1>5. RepTypeOK'
  BY <1>0, <1>3, <1>4, RepParts DEF RepTypeOK
<1>6. OKReported'
  BY <1>0, <1>4, RepParts DEF OKReported, ToFlag, At, Me, Told, InfoOf, vars
<1> QED BY <1>0, <1>3, <1>5, <1>6, LinksStay

LEMMA CopySlotInv ==
  ASSUME RepInv, CopySlot
  PROVE  RepInv'
<1> DEFINE s == rep.at
           c == IF InUse(s) THEN InfoOf(s) ELSE rep.msg[s]
           msg == [rep.msg EXCEPT ![s] = c]
<1>0. /\ UNCHANGED <<vars, mc, missed>> /\ rep.pc = "copy" /\ rep \in Pass /\ s \in Slots
      /\ con \in [Slots -> Info] /\ rep.msg \in [Slots -> RoomInfo \cup {NoInfo}]
      /\ SlotsUsed /\ OKReported
  BY RepParts DEF CopySlot, centre
<1>1. InUse(s) => InfoOf(s) \in RoomInfo /\ InfoOf(s) # NoInfo
  <2>1. con[s].ip \in Boxes \cup {NoBox} /\ con[s].room \in Int /\ con[s].status \in Status
    BY <1>0 DEF Info
  <2> QED BY <2>1 DEF InUse, InfoOf, RoomInfo, NoInfo
<1>2. c \in RoomInfo \cup {NoInfo} /\ (InUse(s) => c = InfoOf(s) /\ c # NoInfo)
  BY <1>0, <1>1
<1>3. \/ rep' = [rep EXCEPT !.msg = msg, !.pc = "post"]
      \/ /\ s # CHANNEL_CONNECT_MAX_NUM
         /\ rep' = [rep EXCEPT !.msg = msg, !.pc = "clear", !.at = s + 1]
  BY DEF CopySlot
<1>4. s # CHANNEL_CONNECT_MAX_NUM => s + 1 \in Slots
  BY <1>0, Constants DEF Slots
<1> HIDE DEF c
<1>5. /\ msg \in [Slots -> RoomInfo \cup {NoInfo}] /\ msg[s] = c
      /\ \A t \in Slots : t # s => msg[t] = rep.msg[t]
  BY <1>0, <1>2
<1> HIDE DEF msg
<1>6. rep' \in Pass /\ rep'.msg = msg /\ rep'.pc \in {"clear", "post"}
  <2>1. CASE rep' = [rep EXCEPT !.msg = msg, !.pc = "post"]
    BY <1>0, <1>5, <2>1 DEF Pass
  <2>2. CASE s # CHANNEL_CONNECT_MAX_NUM
             /\ rep' = [rep EXCEPT !.msg = msg, !.pc = "clear", !.at = s + 1]
    BY <1>0, <1>4, <1>5, <2>2 DEF Pass
  <2> QED BY <1>3, <2>1, <2>2
<1>7. RepTypeOK'
  BY <1>0, <1>6, RepParts DEF RepTypeOK
<1>8. OKReported'
  <2> SUFFICES ASSUME NEW t \in Slots, con[t].status = "OK", con[t].change # 1,
                      t \notin (missed \ Copied)', ~ToFlag(t)
               PROVE  Told(t)' = InfoOf(t)
    BY <1>0, FlagSame DEF OKReported, vars, InfoOf
  <2>1. CASE t = s
    <3>1. InUse(s)
      BY <1>0, <2>1 DEF SlotsUsed
    <3>2. rep'.msg[t] = InfoOf(t) /\ rep'.msg[t] # NoInfo
      BY <1>2, <1>5, <1>6, <2>1, <3>1
    <3> QED BY <3>2 DEF Told, Copied
  <2>2. CASE t # s
    <3>0. rep'.msg[t] = rep.msg[t] /\ t \notin missed \ Copied
      BY <1>0, <1>5, <1>6, <2>2 DEF Copied
    <3>1. Told(t) = InfoOf(t) /\ rep'.msg[t] = rep.msg[t]
      BY <1>0, <2>2, <3>0 DEF OKReported
    <3> QED BY <1>0, <3>1 DEF Told, Copied
  <2> QED BY <2>1, <2>2
<1> QED BY <1>0, <1>6, <1>7, <1>8, LinksStay

\* A step after which the handler starts afresh: the message in the making is
\* delivered or lost.
LEMMA AfreshInv ==
  ASSUME RepInv, UNCHANGED vars, rep' = Fresh, rep.pc # "copy",
         mc' \in [Slots -> RoomInfo \cup {NoInfo}], missed' \subseteq Slots,
         \A s \in Slots : \/ s \in missed'
                          \/ mc'[s] = Told(s) /\ s \notin missed \ Copied
  PROVE  RepInv'
<1>1. Copied' = {}
  BY FreshPass DEF Copied
<1>2. RepTypeOK'
  BY <1>1, FreshPass DEF RepTypeOK
<1>3. OKReported'
  <2> SUFFICES ASSUME NEW s \in Slots, con[s].status = "OK", con[s].change # 1, s \notin missed',
                      ~ToFlag(s)
               PROVE  mc'[s] = InfoOf(s)
    BY <1>1, FlagSame DEF OKReported, Told, InfoOf, vars
  <2>1. mc'[s] = Told(s) /\ s \notin missed \ Copied
    OBVIOUS
  <2> QED BY <2>1, RepParts DEF OKReported
<1> QED BY <1>2, <1>3, FreshPass, LinksStay

LEMMA PostInv ==
  ASSUME RepInv, StartReports \/ PostOK \/ PostFails
  PROVE  RepInv'
<1>0. /\ rep.msg \in [Slots -> RoomInfo \cup {NoInfo}] /\ missed \subseteq Slots
      /\ mc \in [Slots -> RoomInfo \cup {NoInfo}] /\ Copied \subseteq Slots
  BY RepParts DEF RepTypeOK, Copied
<1>1. CASE StartReports
  <2>1. Copied = {} /\ UNCHANGED <<vars, mc, missed>> /\ rep' = Fresh /\ rep.pc = "off"
    BY <1>1, RepParts DEF StartReports, centre
  <2> QED BY <1>0, <2>1, AfreshInv DEF Told
<1>2. CASE PostOK
  <2>1. /\ rep' = Fresh /\ rep.pc = "post" /\ UNCHANGED vars
        /\ mc' = [s \in Slots |-> IF s \in Copied THEN rep.msg[s] ELSE mc[s]]
        /\ missed' = missed \ Copied
    BY <1>2 DEF PostOK, Deliver
  <2>2. mc' \in [Slots -> RoomInfo \cup {NoInfo}] /\ \A s \in Slots : mc'[s] = Told(s)
    BY <1>0, <2>1 DEF Told
  <2> QED BY <1>0, <2>1, <2>2, AfreshInv
<1>3. CASE PostFails
  <2>1. /\ rep' = Fresh /\ rep.pc = "post" /\ UNCHANGED <<vars, mc>>
        /\ missed' = missed \cup Copied
    BY <1>3 DEF PostFails
  <2>2. \A s \in Slots : s \notin Copied => mc[s] = Told(s)
    BY DEF Told
  <2> QED BY <1>0, <2>1, <2>2, AfreshInv
<1> QED BY <1>1, <1>2, <1>3

LEMMA RepNextInv == RepInv /\ [RepNext]_repVars => RepInv'
<1> SUFFICES ASSUME RepInv, [RepNext]_repVars PROVE RepInv'
  OBVIOUS
<1>1. ASSUME [Next]_vars, UNCHANGED <<rep, centre>> PROVE RepInv'
  <2>1. IInv'
    BY <1>1, NextInv, RepParts
  <2>2. SlotsUsed' /\ OKReported'
    BY <1>1, NextKept, KeptInv, RepParts
  <2>3. MsgOK'
    BY <1>1 DEF RepInv, MsgOK, RepTypeOK, Copied, centre
  <2> QED BY <2>1, <2>2, <2>3 DEF RepInv
<1>2. CASE ReportStep
  BY <1>2, CountSlotInv, ClearFlagInv, CopySlotInv, PostInv DEF ReportStep
<1> QED BY <1>1, <1>2 DEF RepNext, repVars

LEMMA RepInvariance == RepSpec => []RepInv
BY RepInitInv, RepNextInv, PTL DEF RepSpec

-----------------------------------------------------------------------------
\* What a report carries has its types, and the first pass copies nothing.
THEOREM RepTypeCorrect == RepSpec => []RepTypeOK
<1>1. RepInv => RepTypeOK
  BY RepParts
<1> QED BY <1>1, RepInvariance, PTL

\* m_state_change is taken back before the slot is copied and set after the slot has
\* become BC_CONNECT_OK: no link that is up is ever left out of the reports, whatever
\* the size of the table and whatever threads share a slot, unless its post failed.
THEOREM Reported == RepSpec => []OKReported
<1>1. RepInv => OKReported
  BY RepParts
<1> QED BY <1>1, RepInvariance, PTL

\* The handler's writes to the table do not disturb the links: with the reports
\* running, heartbeats and the ownership of m_tcp_socket hold as without them.
THEOREM ReportsHarmless == RepSpec => [](HeartWhileOK /\ SocketOwned)
<1>1. RepInv => HeartWhileOK /\ SocketOwned
  BY RepParts
<1> QED BY <1>1, RepInvariance, PTL
=============================================================================
