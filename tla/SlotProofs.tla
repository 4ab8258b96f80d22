----------------------------- MODULE SlotProofs -----------------------------
(***************************************************************************)
(* Proofs about what an OK, an exit and a cut mean to a slot: OKConnected, *)
(* ExitSticks and NeverAbandoned, for every table and set of threads, with *)
(* and without the reports running.                                        *)
(***************************************************************************)
EXTENDS ReportProofs

-----------------------------------------------------------------------------
(***************************************************************************)
(* Every step of a link thread, as what it does to the thread's place and  *)
(* to the fields of its slot that matter here.                             *)
(***************************************************************************)

\* Thread l goes from a place in from to the place to; these are the fields of its
\* slot afterwards.  Only the data thread marks a slot quiet.
Change(l, from, to, status, bt, tcp, udp) ==
  /\ link[l].pc \in from /\ Moves(l, to)
  /\ \A s \in Slots \ {Me(l)} : con'[s] = con[s]
  /\ LET b == con[Me(l)]
         c == con'[Me(l)]
     IN /\ c.status = status /\ c.bt = bt /\ c.tcp = tcp /\ c.udp = udp /\ c.ip = b.ip
        /\ c.quiet => b.quiet
        /\ c.quiet /\ c.udp => b.udp

\* How many FIREWALL messages each connection has brought, but for that of l.
OthersGreeted(l) == \A k \in Links \ {l} : link'[k].greeted = link[k].greeted
Greeted(l) == OthersGreeted(l) /\ link'[l].greeted = link[l].greeted

Start == {"connect", "password", "verify", "request"}

LoginEffect(l) ==
  LET c == con[Me(l)] IN
  \/ /\ \E p \in Start \cup {"exit"} : Change(l, Start, p, c.status, c.bt, c.tcp, c.udp)
     /\ OthersGreeted(l)
  \/ Change(l, {"request"}, "test", c.status, c.bt, l, c.udp) /\ Greeted(l)

LoopEffect(l) ==
  LET c == con[Me(l)]
      Stays(from, to) == Change(l, from, to, c.status, c.bt, c.tcp, c.udp)
  IN \/ (\E p \in {"test", "poll"} : Stays({"test", "poll", "heart"}, p)) /\ Greeted(l)
     \/ Change(l, {"clear"}, "flag", c.status, 0, c.tcp, c.udp) /\ Greeted(l)
     \/ Stays({"flag"}, "heart") /\ Greeted(l)
     \/ Stays({"test"}, "exit") /\ c.status = "CLOSE" /\ Greeted(l)
     \/ /\ Change(l, {"poll"}, "lost", "CLOSE", c.bt, c.tcp, c.udp) /\ Greeted(l)
        /\ c.tcp \in Links /\ peer[c.tcp] = "fin"
     \/ Change(l, {"lost"}, "test", c.status, 1, c.tcp, c.udp) /\ Greeted(l)
     \/ /\ Stays({"poll"}, "fire")
        /\ c.tcp \in Links /\ link[c.tcp].greeted < MaxFirewalls
        /\ link'[c.tcp].greeted = link[c.tcp].greeted + 1
        /\ \A k \in Links \ {c.tcp} : link'[k].greeted = link[k].greeted
     \/ Change(l, {"fire"}, "ok", c.status, c.bt, c.tcp, TRUE) /\ Greeted(l)
     \/ Stays({"fire"}, "exit") /\ Greeted(l)

\* The thread sets the status, and it leaves without a heart thread.
OKEffect(l) ==
  LET c == con[Me(l)]
  IN /\ Change(l, {"ok"}, "clear", "OK", c.bt, c.tcp, c.udp) /\ Greeted(l)
     /\ unheard' = [unheard EXCEPT ![Me(l)] = FALSE]
HeartlessEffect(l) ==
  LET c == con[Me(l)]
  IN /\ Change(l, {"heart"}, "exit", c.status, c.bt, c.tcp, c.udp) /\ Greeted(l)
     /\ unheard' = [unheard EXCEPT ![Me(l)] = TRUE] /\ "thread" \in Faults

\* The thread ends.
Ends(l) == /\ link[l].pc = "check" /\ con[Me(l)].bt # 1
           /\ link' = [link EXCEPT ![l] = NoThread]
           /\ UNCHANGED con
LeavingEffect(l) ==
  LET c == con[Me(l)]
      Stays(from, to) == Change(l, from, to, c.status, c.bt, c.tcp, c.udp)
  IN \/ Stays({"exit"}, "zero") /\ Greeted(l)
     \/ Change(l, {"zero"}, "check", c.status, c.bt, 0, FALSE) /\ Greeted(l)
     \/ Stays({"check"}, "again") /\ c.bt = 1 /\ Greeted(l)
     \/ Ends(l)
     \/ Change(l, {"again"}, "connect", "CONNECTING", c.bt, c.tcp, c.udp) /\ Greeted(l)

Effect(l) == \/ (LoginEffect(l) \/ LoopEffect(l) \/ LeavingEffect(l)) /\ UNCHANGED unheard
             \/ OKEffect(l)
             \/ HeartlessEffect(l)

LEMMA GotoGreeted ==
  ASSUME TypeOK, NEW l \in Links, NEW p, Goto(l, p)
  PROVE  Greeted(l)
BY DEF TypeOK, Thread, Goto, Greeted, OthersGreeted

\* A step that leaves the table alone.
LEMMA StaysChange ==
  ASSUME TypeOK, NEW l \in Links, NEW from, link[l].pc \in from,
         NEW p, Moves(l, p), con' = con
  PROVE  LET c == con[Me(l)] IN Change(l, from, p, c.status, c.bt, c.tcp, c.udp)
BY DEF Change

LEMMA LoginHas ==
  ASSUME TypeOK, NEW l \in Links, Login(l)
  PROVE  LoginEffect(l)
<1>1. ASSUME ~RequestOK(l) PROVE LoginEffect(l)
  <2>1. con' = con /\ link[l].pc \in Start
    BY <1>1 DEF Login, ConnectOK, ConnectFails, PasswordOK, PasswordFails, VerifyDone,
       VerifyFails, RequestFails, At, Start
  <2>2. ASSUME ConnectOK(l) PROVE Moves(l, "password") /\ OthersGreeted(l)
    <3>1. link[l] \in Thread /\ 0 \in 0..MaxFirewalls /\ link \in [Links -> Thread]
      BY ThreadFields, Constants DEF TypeOK
    <3>2. [link[l] EXCEPT !.pc = "password", !.greeted = 0] \in Thread
      BY <3>1 DEF Thread
    <3> QED BY <2>2, <3>1, <3>2 DEF ConnectOK, Moves, OthersGreeted, Thread
  <2>3. ASSUME ~ConnectOK(l) PROVE \E p \in Start \cup {"exit"} : Goto(l, p)
    BY <1>1, <2>3 DEF Login, ConnectFails, PasswordOK, PasswordFails, VerifyDone,
       VerifyFails, RequestFails, At, Start
  <2>4. ASSUME NEW p \in Start \cup {"exit"}, Goto(l, p)
        PROVE  Moves(l, p) /\ OthersGreeted(l)
    BY <2>1, <2>4, GotoMoves, GotoGreeted DEF Start, Places, Greeted
  <2>5. \E p \in Start \cup {"exit"} : Moves(l, p) /\ OthersGreeted(l)
    BY <2>2, <2>3, <2>4 DEF Start
  <2> QED BY <2>1, <2>5, StaysChange DEF LoginEffect
<1>2. ASSUME RequestOK(l) PROVE LoginEffect(l)
  <2>1. link[l].pc = "request" /\ Moves(l, "test") /\ Greeted(l)
    BY <1>2, GotoMoves, GotoGreeted DEF RequestOK, At, Places
  <2>2. con \in [Slots -> Info] /\ Me(l) \in Slots /\ con[Me(l)] \in Info
    BY <2>1, ThreadFields DEF TypeOK
  <2>3. Change(l, {"request"}, "test", con[Me(l)].status, con[Me(l)].bt, l, con[Me(l)].udp)
    BY <1>2, <2>1, <2>2 DEF RequestOK, Change, Info
  <2> QED BY <2>1, <2>3 DEF LoginEffect
<1> QED BY <1>1, <1>2

LEMMA LoopHas ==
  ASSUME TypeOK, NEW l \in Links, RecvLoop(l)
  PROVE  (LoopEffect(l) /\ UNCHANGED unheard) \/ OKEffect(l) \/ HeartlessEffect(l)
<1> DEFINE c == con[Me(l)]
<1>0. /\ con \in [Slots -> Info] /\ link \in [Links -> Thread]
      /\ link[l].pc # "none" => Me(l) \in Slots /\ c \in Info /\ c.tcp \in Links \cup {0}
  BY ThreadFields DEF TypeOK
<1>1. ASSUME NEW p \in Places, Goto(l, p), link[l].pc # "none"
      PROVE  Moves(l, p) /\ Greeted(l)
  BY <1>1, GotoMoves, GotoGreeted
<1>2. ASSUME LoopTest(l) PROVE LoopEffect(l)
  <2>1. PICK p \in {"poll", "exit"} : Goto(l, p) /\ (p = "exit" => c.status = "CLOSE")
    BY <1>2 DEF LoopTest
  <2>2. link[l].pc = "test" /\ con' = con /\ Moves(l, p) /\ Greeted(l)
    BY <1>1, <1>2, <2>1 DEF LoopTest, At, Places
  <2> QED BY <2>1, <2>2, StaysChange DEF LoopEffect
<1>3. ASSUME PollNothing(l) PROVE LoopEffect(l)
  <2>1. link[l].pc = "poll" /\ con' = con /\ Moves(l, "test") /\ Greeted(l)
    BY <1>1, <1>3 DEF PollNothing, At, Places
  <2> QED BY <2>1, StaysChange DEF LoopEffect
<1>4. ASSUME PollClosed(l) PROVE LoopEffect(l)
  <2>1. /\ link[l].pc = "poll" /\ Moves(l, "lost") /\ Greeted(l)
        /\ c.tcp \in Links /\ peer[c.tcp] = "fin"
    BY <1>0, <1>1, <1>4 DEF PollClosed, At, Places, Ended, Sock
  <2>2. Change(l, {"poll"}, "lost", "CLOSE", c.bt, c.tcp, c.udp)
    BY <1>0, <1>4, <2>1 DEF PollClosed, Change, Info
  <2> QED BY <2>1, <2>2 DEF LoopEffect
<1>5. ASSUME Lost(l) PROVE LoopEffect(l)
  <2>1. link[l].pc = "lost" /\ Moves(l, "test") /\ Greeted(l)
    BY <1>1, <1>5 DEF Lost, At, Places
  <2>2. Change(l, {"lost"}, "test", c.status, 1, c.tcp, c.udp)
    BY <1>0, <1>5, <2>1 DEF Lost, Change, Info
  <2> QED BY <2>1, <2>2 DEF LoopEffect
<1>6. ASSUME PollFirewall(l) PROVE LoopEffect(l)
  <2> DEFINE k == Sock(l)
  <2>1. /\ link[l].pc = "poll" /\ con' = con
        /\ k \in Links /\ k = c.tcp /\ link[k].greeted < MaxFirewalls
        /\ link' = [link EXCEPT ![k].greeted = @ + 1, ![l].pc = "fire"]
    BY <1>0, <1>6 DEF PollFirewall, Sock, At
  <2>2. link[k].greeted + 1 \in 0..MaxFirewalls
    BY <1>0, <2>1, Constants DEF Thread
  <2> HIDE DEF k
  <2>3. \A j \in Links : /\ [link[j] EXCEPT !.pc = "fire"] \in Thread
                         /\ [link[k] EXCEPT !.greeted = @ + 1] \in Thread
                         /\ [[link[k] EXCEPT !.greeted = @ + 1] EXCEPT !.pc = "fire"] \in Thread
    <3>1. \A t \in Thread : [t EXCEPT !.pc = "fire"] \in Thread
      BY DEF Thread
    <3>2. [link[k] EXCEPT !.greeted = link[k].greeted + 1] \in Thread
      BY <1>0, <2>1, <2>2 DEF Thread
    <3> QED BY <1>0, <2>1, <3>1, <3>2
  <2>4. Moves(l, "fire")
    BY <1>0, <2>1, <2>3 DEF Moves, Thread
  <2>5. /\ link'[k].greeted = link[k].greeted + 1
        /\ \A j \in Links \ {k} : link'[j].greeted = link[j].greeted
    BY <1>0, <2>1 DEF Thread
  <2> QED BY <2>1, <2>4, <2>5, StaysChange DEF LoopEffect
<1>7. ASSUME FirePacks(l) PROVE LoopEffect(l)
  <2>1. link[l].pc = "fire" /\ Moves(l, "ok") /\ Greeted(l)
    BY <1>1, <1>7 DEF FirePacks, At, Places
  <2>2. Change(l, {"fire"}, "ok", c.status, c.bt, c.tcp, TRUE)
    BY <1>0, <1>7, <2>1 DEF FirePacks, Change, Info
  <2> QED BY <2>1, <2>2 DEF LoopEffect
<1>8. ASSUME FireFails(l) PROVE LoopEffect(l)
  <2>1. link[l].pc = "fire" /\ con' = con /\ Moves(l, "exit") /\ Greeted(l)
    BY <1>1, <1>8 DEF FireFails, At, Places
  <2> QED BY <2>1, StaysChange DEF LoopEffect
<1>9. ASSUME FireOK(l) PROVE OKEffect(l)
  <2>1. link[l].pc = "ok" /\ Moves(l, "clear") /\ Greeted(l)
    BY <1>1, <1>9 DEF FireOK, At, Places
  <2>2. Change(l, {"ok"}, "clear", "OK", c.bt, c.tcp, c.udp)
    BY <1>0, <1>9, <2>1 DEF FireOK, Change, Info
  <2> QED BY <1>9, <2>1, <2>2 DEF FireOK, OKEffect
<1>10. ASSUME FireClears(l) PROVE LoopEffect(l)
  <2>1. link[l].pc = "clear" /\ Moves(l, "flag") /\ Greeted(l)
    BY <1>1, <1>10 DEF FireClears, At, Places
  <2>2. Change(l, {"clear"}, "flag", c.status, 0, c.tcp, c.udp)
    BY <1>0, <1>10, <2>1 DEF FireClears, Change, Info
  <2> QED BY <2>1, <2>2 DEF LoopEffect
<1>11. ASSUME FireFlags(l) PROVE LoopEffect(l)
  <2>1. link[l].pc = "flag" /\ Moves(l, "heart") /\ Greeted(l)
    BY <1>1, <1>11 DEF FireFlags, At, Places
  <2>2. Change(l, {"flag"}, "heart", c.status, c.bt, c.tcp, c.udp)
    BY <1>0, <1>11, <2>1 DEF FireFlags, Change, Info
  <2> QED BY <2>1, <2>2 DEF LoopEffect
<1>12. ASSUME StartHeart(l) PROVE LoopEffect(l)
  <2>1. link[l].pc = "heart" /\ con' = con /\ Moves(l, "test") /\ Greeted(l)
    BY <1>1, <1>12 DEF StartHeart, At, Places
  <2> QED BY <2>1, StaysChange DEF LoopEffect
<1>13. ASSUME HeartFails(l) PROVE HeartlessEffect(l)
  <2>1. link[l].pc = "heart" /\ con' = con /\ Moves(l, "exit") /\ Greeted(l)
    BY <1>1, <1>13 DEF HeartFails, At, Places
  <2>2. Change(l, {"heart"}, "exit", c.status, c.bt, c.tcp, c.udp)
    BY <2>1, StaysChange
  <2> QED BY <1>13, <2>1, <2>2 DEF HeartFails, HeartlessEffect
<1>14. ASSUME RecvLoop(l), ~FireOK(l), ~HeartFails(l) PROVE UNCHANGED unheard
  BY <1>14 DEF RecvLoop, LoopTest, PollNothing, PollClosed, Lost, PollFirewall, FirePacks,
     FireFails, FireClears, FireFlags, StartHeart, others, ghosts
<1> QED BY <1>2, <1>3, <1>4, <1>5, <1>6, <1>7, <1>8, <1>9, <1>10, <1>11, <1>12, <1>13, <1>14 DEF RecvLoop

LEMMA LeavingHas ==
  ASSUME TypeOK, NEW l \in Links, Leaving(l)
  PROVE  LeavingEffect(l)
<1> DEFINE c == con[Me(l)]
<1>0. /\ con \in [Slots -> Info] /\ link \in [Links -> Thread]
      /\ link[l].pc # "none" => Me(l) \in Slots /\ c \in Info
  BY ThreadFields DEF TypeOK
<1>1. ASSUME NEW p \in Places, Goto(l, p), link[l].pc # "none"
      PROVE  Moves(l, p) /\ Greeted(l)
  BY <1>1, GotoMoves, GotoGreeted
<1>2. CASE ExitClose(l)
  <2>1. link[l].pc = "exit" /\ con' = con /\ Moves(l, "zero") /\ Greeted(l)
    BY <1>1, <1>2 DEF ExitClose, At, Places
  <2> QED BY <2>1, StaysChange DEF LeavingEffect
<1>3. CASE ExitForget(l)
  <2>1. link[l].pc = "zero" /\ Moves(l, "check") /\ Greeted(l)
    BY <1>1, <1>3 DEF ExitForget, At, Places
  <2>2. Change(l, {"zero"}, "check", c.status, c.bt, 0, FALSE)
    BY <1>0, <1>3, <2>1 DEF ExitForget, Change, Info
  <2> QED BY <2>1, <2>2 DEF LeavingEffect
<1>4. CASE ExitCheck(l)
  <2>1. CASE c.bt = 1
    <3>1. link[l].pc = "check" /\ con' = con /\ Moves(l, "again") /\ Greeted(l)
      BY <1>1, <1>4, <2>1 DEF ExitCheck, At, Places
    <3> QED BY <2>1, <3>1, StaysChange DEF LeavingEffect
  <2>2. CASE c.bt # 1
    BY <1>4, <2>2 DEF ExitCheck, At, Ends, LeavingEffect
  <2> QED BY <2>1, <2>2
<1>5. CASE Reconnect(l)
  <2>1. link[l].pc = "again" /\ Moves(l, "connect") /\ Greeted(l)
    BY <1>1, <1>5 DEF Reconnect, At, Places
  <2>2. Change(l, {"again"}, "connect", "CONNECTING", c.bt, c.tcp, c.udp)
    BY <1>0, <1>5, <2>1 DEF Reconnect, Change, Info
  <2> QED BY <2>1, <2>2 DEF LeavingEffect
<1> QED BY <1>2, <1>3, <1>4, <1>5 DEF Leaving

\* A link thread's step touches neither the data thread nor the web threads.
LEMMA LinkEffects ==
  ASSUME TypeOK, NEW l \in Links, LinkStep(l)
  PROVE  Effect(l) /\ UNCHANGED <<data, web, requests, exited>>
<1>1. CASE Login(l) \/ Leaving(l)
  <2>1. UNCHANGED <<data, web, requests, exited, unheard>>
    BY <1>1 DEF Login, Leaving, ConnectOK, ConnectFails, PasswordOK, PasswordFails, VerifyDone,
       VerifyFails, RequestOK, RequestFails, ExitClose, ExitForget, ExitCheck, Reconnect, others,
       ghosts
  <2> QED BY <1>1, <2>1, LoginHas, LeavingHas DEF Effect
<1>2. CASE RecvLoop(l)
  <2>1. UNCHANGED <<data, web, requests, exited>>
    BY <1>2 DEF RecvLoop, LoopTest, PollNothing, PollClosed, Lost, PollFirewall, FirePacks,
       FireFails, FireOK, FireClears, FireFlags, StartHeart, HeartFails, others, ghosts
  <2> QED BY <1>2, <2>1, LoopHas DEF Effect
<1> QED BY <1>1, <1>2 DEF LinkStep

-----------------------------------------------------------------------------
(***************************************************************************)
(* The other steps, the same way.                                          *)
(***************************************************************************)

\* The web thread w, and the report thread as one, alone of its kind: it receives a
\* request, finds no free slot or has done a room; finds a slot; looks up those to
\* exit; initialises a slot; starts its link thread l; exits the slot s.
Elsewhere(s) == \A t \in Slots \ {s} : /\ con'[t] = con[t]
                                       /\ exited'[t] = exited[t] /\ unheard'[t] = unheard[t]
CommandEffect(w) ==
  LET a == web[w]
      b == web'[w]
      c == con'[a.slot]
  IN /\ \A v \in Actors \ {w} : web'[v] = web[v]
     /\ \/ UNCHANGED <<con, link, ghosts>> /\ b.pc = "next" /\ b.exits = {}
        \/ /\ UNCHANGED <<con, link, ghosts>> /\ a.pc = "next" /\ b.pc = "init"
           /\ b.slot \in Free /\ b.exits = a.exits
        \/ /\ UNCHANGED <<con, link, ghosts>> /\ a.pc = "next" /\ b.pc = "exit"
           /\ b.exits = Used(Ip(w))
        \/ /\ a.pc = "init" /\ b.pc = "create" /\ b.slot = a.slot /\ b.exits = a.exits
           /\ UNCHANGED link /\ Elsewhere(a.slot) /\ ~exited'[a.slot] /\ ~unheard'[a.slot]
           /\ c.status = "CONNECTING" /\ c.bt = 0 /\ c.tcp = 0 /\ c.udp = FALSE
        \/ /\ a.pc = "create" /\ b.pc = "next" /\ b.exits = {} /\ UNCHANGED <<con, ghosts>>
           /\ \E l \in Links, t \in Thread :
                /\ link[l] = NoThread /\ link' = [link EXCEPT ![l] = t]
                /\ t.slot = a.slot /\ t.pc = "connect"
        \/ /\ a.pc = "exit" /\ b.pc = "exit" /\ UNCHANGED <<link, unheard>>
           /\ \E s \in a.exits :
                /\ b.exits = a.exits \ {s} /\ Elsewhere(s) /\ exited'[s]
                /\ con'[s].status = "CLOSE" /\ con'[s].bt = 0
                /\ con'[s].tcp = con[s].tcp /\ con'[s].udp = con[s].udp

\* What a step keeps that touches neither threads nor exits; but for those of the data
\* thread, not even a slot's status.
Same == /\ UNCHANGED <<link, web, ghosts>>
        /\ \A s \in Slots : LET b == con[s]
                                c == con'[s]
                            IN c.ip = b.ip /\ c.tcp = b.tcp /\ c.udp = b.udp
Calm == /\ Same /\ UNCHANGED timedOut
        /\ \A s \in Slots : con'[s].status = con[s].status /\ con'[s].bt = con[s].bt
DataEffect == /\ Same
              /\ \A s \in Slots : con'[s].status \in {con[s].status, "CLOSE"}
              /\ timedOut = 0 /\ (\A s \in snap : ~con[s].quiet) => Calm

StepEffect == \/ \E l \in Links : Effect(l) /\ UNCHANGED <<timedOut, web, exited>>
              \/ \E w \in Actors : CommandEffect(w) /\ UNCHANGED timedOut
              \/ DataEffect

LEMMA CommandHas ==
  ASSUME TypeOK, NEW w \in Actors, Command(w)
  PROVE  CommandEffect(w) /\ UNCHANGED timedOut
<1>0. /\ web \in [Actors -> Actor] /\ con \in [Slots -> Info] /\ exited \in [Slots -> BOOLEAN]
      /\ unheard \in [Slots -> BOOLEAN]
      /\ web[w] \in Actor
      /\ web[w].pc \in {"init", "create"} => web[w].slot \in Slots
  BY DEF TypeOK, Actor
<1>1. UNCHANGED timedOut
  BY DEF Command, FindFree, InitSlot, CreateFails, FindUsed, ExitsDone, CreateLink, ExitLink, data
<1>2. NextRoom(w).pc = "next" /\ NextRoom(w).exits = {}
  BY DEF NextRoom, Idle
<1>3. \A r : Update(w, r) => web'[w] = r /\ \A v \in Actors \ {w} : web'[v] = web[v]
  BY <1>0 DEF Update
<1>4. CASE FindFree(w)
  <2>1. ASSUME Update(w, Idle(Tail(web[w].todo))) PROVE CommandEffect(w)
    <3> DEFINE r == Idle(Tail(web[w].todo))
    <3>1. r.pc = "next" /\ r.exits = {}
      BY DEF Idle
    <3>2. web'[w] = r /\ \A v \in Actors \ {w} : web'[v] = web[v]
      BY <1>3, <2>1
    <3>3. UNCHANGED <<con, link, ghosts>>
      BY <1>4 DEF FindFree
    <3> HIDE DEF r
    <3> QED BY <3>1, <3>2, <3>3 DEF CommandEffect
  <2>2. ASSUME NEW s \in Free, Update(w, [web[w] EXCEPT !.pc = "init", !.slot = s])
        PROVE  CommandEffect(w)
    <3> DEFINE r == [web[w] EXCEPT !.pc = "init", !.slot = s]
    <3>1. r.pc = "init" /\ r.slot = s /\ r.exits = web[w].exits
      BY <1>0 DEF Actor
    <3>2. web'[w] = r /\ \A v \in Actors \ {w} : web'[v] = web[v]
      BY <1>3, <2>2
    <3> HIDE DEF r
    <3> QED BY <1>4, <3>1, <3>2 DEF FindFree, HasRoom, Doing, CommandEffect
  <2> QED BY <1>1, <1>4, <2>1, <2>2 DEF FindFree
<1>5. CASE InitSlot(w)
  <2> DEFINE s == web[w].slot
             c == [Cleared EXCEPT !.ip = Ip(w), !.room = Room(w), !.status = "CONNECTING"]
             r == [web[w] EXCEPT !.pc = "create"]
  <2>1. c.status = "CONNECTING" /\ c.bt = 0 /\ c.tcp = 0 /\ c.udp = FALSE
    BY DEF Cleared
  <2>2. r.pc = "create" /\ r.slot = s /\ r.exits = web[w].exits
    BY <1>0 DEF Actor
  <2>3. web'[w] = r /\ \A v \in Actors \ {w} : web'[v] = web[v]
    BY <1>3, <1>5 DEF InitSlot
  <2>4. con' = [con EXCEPT ![s] = c] /\ exited' = [exited EXCEPT ![s] = FALSE] /\ link' = link
        /\ web[w].pc = "init" /\ unheard' = [unheard EXCEPT ![s] = FALSE]
    BY <1>5 DEF InitSlot, Doing
  <2> HIDE DEF c, r
  <2>5. con'[s] = c /\ ~exited'[s] /\ ~unheard'[s] /\ Elsewhere(s)
    BY <1>0, <2>4 DEF Elsewhere
  <2> QED BY <1>1, <2>1, <2>2, <2>3, <2>4, <2>5 DEF CommandEffect
<1>6. CASE FindUsed(w)
  <2> DEFINE r == [web[w] EXCEPT !.pc = "exit", !.exits = Used(Ip(w))]
  <2>1. r.pc = "exit" /\ r.exits = Used(Ip(w))
    BY <1>0 DEF Actor
  <2>2. web'[w] = r /\ \A v \in Actors \ {w} : web'[v] = web[v]
    BY <1>3, <1>6 DEF FindUsed
  <2> HIDE DEF r
  <2> QED BY <1>1, <1>6, <2>1, <2>2 DEF FindUsed, HasRoom, Doing, CommandEffect
<1>7. CASE ExitsDone(w)
  <2>1. UNCHANGED <<con, link, ghosts>> /\ Update(w, NextRoom(w))
    BY <1>7 DEF ExitsDone
  <2> QED BY <1>1, <1>2, <1>3, <2>1 DEF CommandEffect
<1>8. ASSUME NEW l \in Links, CreateLink(w, l) PROVE CommandEffect(w)
  <2> DEFINE t == [NoThread EXCEPT !.slot = web[w].slot, !.pc = "connect"]
  <2>1. t \in Thread /\ t.slot = web[w].slot /\ t.pc = "connect"
    <3>1. web[w].slot \in Slots \cup {0} /\ 0 \in 0..MaxFirewalls
      BY <1>0, <1>8, Constants DEF CreateLink, Doing
    <3> QED BY <3>1 DEF NoThread, Thread
  <2>2. /\ UNCHANGED <<con, ghosts>> /\ web[w].pc = "create" /\ link[l] = NoThread
        /\ link' = [link EXCEPT ![l] = t]
    BY <1>8 DEF CreateLink, Doing
  <2>3. /\ web'[w].pc = "next" /\ web'[w].exits = {}
        /\ \A v \in Actors \ {w} : web'[v] = web[v]
    BY <1>2, <1>3, <1>8 DEF CreateLink
  <2> HIDE DEF t
  <2> QED BY <2>1, <2>2, <2>3 DEF CommandEffect
<1>9. ASSUME NEW s \in Slots, ExitLink(w, s) PROVE CommandEffect(w)
  <2> DEFINE c == [con[s] EXCEPT !.status = "CLOSE", !.change = 1, !.bt = 0]
             r == [web[w] EXCEPT !.exits = web[w].exits \ {s}]
  <2>1. c.status = "CLOSE" /\ c.bt = 0 /\ c.tcp = con[s].tcp /\ c.udp = con[s].udp
    BY <1>0 DEF Info
  <2>2. r.exits = web[w].exits \ {s} /\ r.pc = web[w].pc
    BY <1>0 DEF Actor
  <2>3. web'[w] = r /\ \A v \in Actors \ {w} : web'[v] = web[v]
    BY <1>3, <1>9 DEF ExitLink
  <2>4. con' = [con EXCEPT ![s] = c] /\ exited' = [exited EXCEPT ![s] = TRUE] /\ link' = link
        /\ unheard' = unheard
        /\ web[w].pc = "exit" /\ s \in web[w].exits
    BY <1>9 DEF ExitLink, Doing
  <2> HIDE DEF c, r
  <2>5. con'[s] = c /\ exited'[s] /\ Elsewhere(s)
    BY <1>0, <2>4 DEF Elsewhere
  <2> QED BY <2>1, <2>2, <2>3, <2>4, <2>5 DEF CommandEffect
<1>10. CASE CreateFails(w)
  <2> DEFINE r == IF w = "report" THEN NextRoom(w) ELSE Idle(Tail(web[w].todo))
  <2>1. UNCHANGED <<con, link, ghosts>> /\ Update(w, r)
    BY <1>10 DEF CreateFails
  <2>2. r.pc = "next" /\ r.exits = {}
    BY <1>2 DEF Idle
  <2> HIDE DEF r
  <2> QED BY <1>1, <1>3, <2>1, <2>2 DEF CommandEffect
<1> QED BY <1>1, <1>4, <1>5, <1>6, <1>7, <1>8, <1>9, <1>10 DEF Command

LEMMA ReceiveHas ==
  ASSUME TypeOK, NEW w \in Actors, NEW ip \in Boxes, NEW r \in Requests, Receive(w, ip, r)
  PROVE  CommandEffect(w) /\ UNCHANGED timedOut
<1> DEFINE e == Idle(<<[ip |-> ip, rooms |-> Entries(r)]>>)
<1>1. Update(w, e) /\ e.pc = "next" /\ e.exits = {} /\ web \in [Actors -> Actor]
  BY DEF Receive, Idle, TypeOK
<1> HIDE DEF e
<1>2. web'[w] = e /\ \A v \in Actors \ {w} : web'[v] = web[v]
  BY <1>1 DEF Update
<1> QED BY <1>1, <1>2 DEF Receive, CommandEffect, data

LEMMA DataHas ==
  ASSUME TypeOK, DataStep
  PROVE  DataEffect
<1>0. con \in [Slots -> Info] /\ timedOut \in Slots \cup {0}
  BY DEF TypeOK
<1>1. CASE DataScan
  BY <1>1 DEF DataScan, DataEffect, Same, Calm
<1>2. ASSUME NEW s \in Slots, NEW some \in BOOLEAN, DataVisit(s, some) PROVE DataEffect
  BY <1>0, <1>2 DEF DataVisit, DataEffect, Same, Calm, Info
<1>3. ASSUME NEW s \in Slots, DataTimeout(s) PROVE DataEffect
  BY <1>0, <1>3 DEF DataTimeout, DataEffect, Same, Info
<1>4. CASE DataGivesUp
  BY <1>0, <1>4 DEF DataGivesUp, DataEffect, Same, Info
<1> QED BY <1>1, <1>2, <1>3, <1>4 DEF DataStep

\* Every step, with and without the reports.
LEMMA CalmEffect == Calm => StepEffect
BY DEF Calm, Same, StepEffect, DataEffect

LEMMA NextEffect ==
  ASSUME TypeOK, [Next]_vars
  PROVE  StepEffect
<1>1. ASSUME NEW l \in Links, LinkStep(l) PROVE StepEffect
  BY <1>1, LinkEffects DEF StepEffect, data
<1>2. ASSUME NEW l \in Links, PeerCloses(l) PROVE Calm
  BY <1>2 DEF PeerCloses, others, data, Calm, Same
<1>3. ASSUME NEW s \in Slots, HeartEnds(s) PROVE Calm
  BY <1>3 DEF HeartEnds, data, Calm, Same
<1>4. ASSUME UNCHANGED vars PROVE Calm
  BY <1>4 DEF vars, data, Calm, Same
<1>5. ASSUME DataStep PROVE StepEffect
  BY <1>5, DataHas DEF StepEffect
<1>6. ASSUME NEW w \in Actors, Command(w) PROVE StepEffect
  BY <1>6, CommandHas DEF StepEffect
<1>7. ASSUME NEW w \in Actors, NEW ip \in Boxes, NEW r \in Requests, Receive(w, ip, r)
      PROVE  StepEffect
  BY <1>7, ReceiveHas DEF StepEffect
<1> QED BY <1>1, <1>2, <1>3, <1>4, <1>5, <1>6, <1>7, CalmEffect DEF Next

LEMMA RepNextEffect ==
  ASSUME TypeOK, [RepNext]_repVars
  PROVE  StepEffect
<1>1. ASSUME ClearFlag PROVE Calm
  <2>1. con \in [Slots -> Info]
    BY DEF TypeOK
  <2> QED BY <1>1, <2>1 DEF ClearFlag, others, data, Calm, Same, Info
<1>2. ASSUME ReportStep, ~ClearFlag PROVE UNCHANGED vars
  BY <1>2 DEF ReportStep, StartReports, CountSlot, CopySlot, PostOK, PostFails
<1> QED BY <1>1, <1>2, CalmEffect, NextEffect DEF RepNext, repVars

-----------------------------------------------------------------------------
(***************************************************************************)
(* A slot that is OK is connected, as long as the slots that web threads   *)
(* initialise are nobody else's.  Then a slot has one link thread at a     *)
(* time, and the invariant says what its place tells of the slot.          *)
(***************************************************************************)
Sound(l) ==
  LET p == link[l].pc
      c == con[Me(l)]
      greeted == link[l].greeted >= MaxFirewalls
  IN /\ p \in {"test", "poll", "lost", "fire", "ok", "clear", "flag", "heart"} => c.tcp = l
     /\ p \in {"fire", "ok", "clear", "flag", "heart"} => greeted
     /\ p = "ok" => c.udp
     /\ c.status = "OK" /\ ~unheard[Me(l)] =>
          p \in {"clear", "flag", "heart", "test", "poll"} /\ greeted /\ c.udp

LifeInv ==
  /\ \A k, l \in Links : Me(k) = Me(l) /\ Me(k) # 0 => k = l
  /\ \A l \in Links : Me(l) # 0 => link[l].pc # "none" /\ Sound(l)
  /\ \A l \in Links : link[l].pc = "none" => Me(l) = 0
  /\ \A s \in Slots : con[s].status = "OK" /\ ~unheard[s] => \E l \in Links : Me(l) = s

LEMMA LifeInit == Init => LifeInv
BY DEF Init, LifeInv, NoThread, Cleared, Me

\* The invariant says what it should.
LEMMA LifeConnects == TypeOK /\ LifeInv => OKConnected
<1> SUFFICES ASSUME TypeOK, LifeInv, NEW s \in Slots, con[s].status = "OK", ~unheard[s]
             PROVE  /\ con[s].udp
                    /\ \E l \in Links : /\ Me(l) = s /\ con[s].tcp = l
                                        /\ link[l].pc \in {"clear", "flag", "heart",
                                                           "test", "poll"}
  BY DEF OKConnected
<1>1. PICK l \in Links : Me(l) = s
  BY DEF LifeInv
<1>2. Sound(l)
  BY <1>1, Constants DEF LifeInv
<1> QED BY <1>1, <1>2 DEF Sound

\* A thread that moves within its slot.
LEMMA ChangeLife ==
  ASSUME TypeOK, LifeInv, NEW l \in Links, link[l].pc # "none",
         NEW from, NEW to \in Places, NEW status, NEW bt, NEW tcp, NEW udp,
         Change(l, from, to, status, bt, tcp, udp), OthersGreeted(l), Sound(l)',
         \A s \in Slots \ {Me(l)} : unheard'[s] = unheard[s]
  PROVE  LifeInv'
<1>1. /\ Me(l) \in Slots /\ Me(l) # 0 /\ \A k \in Links : Me(k)' = Me(k)
      /\ link'[l].pc = to /\ \A k \in Links \ {l} : link'[k].pc = link[k].pc
      /\ to # "none"
  BY ThreadFields, Constants DEF Change, Moves, Me, Places
<1>2. ASSUME NEW k \in Links \ {l}, Me(k) # 0 PROVE Sound(k)'
  <2>1. Me(k) \in Slots /\ Me(k) # Me(l)
    BY <1>1, <1>2, ThreadFields DEF LifeInv, Me
  <2>2. /\ con'[Me(k)] = con[Me(k)] /\ link'[k].greeted = link[k].greeted
        /\ unheard'[Me(k)] = unheard[Me(k)]
    BY <2>1 DEF Change, OthersGreeted
  <2>3. Sound(k)
    BY <1>2 DEF LifeInv
  <2> QED BY <1>1, <2>2, <2>3 DEF Sound, Me
<1>3. \A s \in Slots : con'[s].status = "OK" /\ ~unheard'[s] => \E k \in Links : Me(k)' = s
  BY <1>1 DEF Change, LifeInv
<1> QED BY <1>1, <1>2, <1>3 DEF LifeInv

LEMMA LinkLife ==
  ASSUME MaxFirewalls =< 1, TypeOK, LifeInv, NEW l \in Links, Effect(l)
  PROVE  LifeInv'
<1> DEFINE c == con[Me(l)]
<1>0. /\ link[l].greeted \in 0..MaxFirewalls /\ MaxFirewalls \in Nat
      /\ link[l].pc # "none" => Me(l) # 0 /\ Sound(l)
  BY ThreadFields, Constants DEF Thread, LifeInv, TypeOK
<1>6. link[l].pc # "none"
  BY DEF Effect, LoginEffect, LoopEffect, LeavingEffect, OKEffect, HeartlessEffect, Change,
     Start, Ends
<1>1. ASSUME NEW from, NEW to, NEW status, NEW bt, NEW tcp, NEW udp,
             Change(l, from, to, status, bt, tcp, udp)
      PROVE  /\ link'[l].pc = to /\ Me(l)' = Me(l) /\ link[l].pc \in from
             /\ con'[Me(l)].status = status /\ con'[Me(l)].tcp = tcp /\ con'[Me(l)].udp = udp
  BY <1>1 DEF Change, Moves, Me
<1>2. CASE LoginEffect(l) /\ UNCHANGED unheard
  <2>1. ASSUME NEW p \in Start \cup {"exit"}, OthersGreeted(l),
               Change(l, Start, p, c.status, c.bt, c.tcp, c.udp)
        PROVE  LifeInv'
    <3>1. Sound(l)'
      BY <1>0, <1>1, <1>2, <2>1 DEF Sound, Start
    <3> QED BY <1>2, <1>6, <2>1, <3>1, ChangeLife DEF Start, Places
  <2>2. ASSUME Change(l, {"request"}, "test", c.status, c.bt, l, c.udp), Greeted(l)
        PROVE  LifeInv'
    <3>1. Sound(l)'
      BY <1>0, <1>1, <1>2, <2>2 DEF Sound, Greeted
    <3> QED BY <1>2, <1>6, <2>2, <3>1, ChangeLife DEF Places, Greeted
  <2> QED BY <1>2, <2>1, <2>2 DEF LoginEffect
<1>3. CASE LoopEffect(l) /\ UNCHANGED unheard
  <2>1. ASSUME NEW p \in {"test", "poll"}, Greeted(l),
               Change(l, {"test", "poll", "heart"}, p, c.status, c.bt, c.tcp, c.udp)
        PROVE  LifeInv'
    <3>1. Sound(l)'
      BY <1>0, <1>1, <1>3, <2>1 DEF Sound, Greeted
    <3> QED BY <1>3, <1>6, <2>1, <3>1, ChangeLife DEF Places, Greeted
  <2>2. ASSUME Change(l, {"test"}, "exit", c.status, c.bt, c.tcp, c.udp), Greeted(l),
               c.status = "CLOSE"
        PROVE  LifeInv'
    <3>1. Sound(l)'
      BY <1>0, <1>1, <1>3, <2>2 DEF Sound, Greeted
    <3> QED BY <1>3, <1>6, <2>2, <3>1, ChangeLife DEF Places, Greeted
  <2>3. ASSUME Change(l, {"poll"}, "lost", "CLOSE", c.bt, c.tcp, c.udp), Greeted(l)
        PROVE  LifeInv'
    <3>1. Sound(l)'
      BY <1>0, <1>1, <1>3, <2>3 DEF Sound, Greeted
    <3> QED BY <1>3, <1>6, <2>3, <3>1, ChangeLife DEF Places, Greeted
  <2>4. ASSUME Change(l, {"lost"}, "test", c.status, 1, c.tcp, c.udp), Greeted(l)
        PROVE  LifeInv'
    <3>1. Sound(l)'
      BY <1>0, <1>1, <1>3, <2>4 DEF Sound, Greeted
    <3> QED BY <1>3, <1>6, <2>4, <3>1, ChangeLife DEF Places, Greeted
  <2>5. ASSUME Change(l, {"poll"}, "fire", c.status, c.bt, c.tcp, c.udp),
               link[c.tcp].greeted < MaxFirewalls,
               link'[c.tcp].greeted = link[c.tcp].greeted + 1,
               \A k \in Links \ {c.tcp} : link'[k].greeted = link[k].greeted
        PROVE  LifeInv'
    <3>1. link[l].pc = "poll" /\ c.tcp = l
      BY <1>0, <1>1, <1>3, <2>5 DEF Sound
    <3>2. /\ link'[l].greeted >= MaxFirewalls /\ ~(link[l].greeted >= MaxFirewalls)
          /\ OthersGreeted(l)
      BY <1>0, <2>5, <3>1 DEF OthersGreeted
    <3>3. Sound(l)'
      BY <1>0, <1>1, <1>3, <2>5, <3>1, <3>2 DEF Sound
    <3> QED BY <1>3, <2>5, <3>1, <3>2, <3>3, ChangeLife DEF Places
  <2>6. ASSUME Change(l, {"fire"}, "ok", c.status, c.bt, c.tcp, TRUE), Greeted(l)
        PROVE  LifeInv'
    <3>0. /\ link[l].pc = "fire" /\ link'[l].pc = "ok" /\ Me(l)' = Me(l)
          /\ con'[Me(l)].udp = TRUE
          /\ con'[Me(l)].status = c.status /\ con'[Me(l)].tcp = c.tcp
      BY <2>6 DEF Change, Moves, Me
    <3>1. con'[Me(l)].udp
      BY <3>0, Zenon
    <3>2. Sound(l)'
      BY <1>0, <1>3, <1>6, <2>6, <3>0, <3>1 DEF Sound, Greeted
    <3> QED BY <1>3, <1>6, <2>6, <3>2, ChangeLife DEF Places, Greeted
  <2>7. ASSUME Change(l, {"fire"}, "exit", c.status, c.bt, c.tcp, c.udp), Greeted(l)
        PROVE  LifeInv'
    <3>1. Sound(l)'
      BY <1>0, <1>1, <1>3, <2>7 DEF Sound, Greeted
    <3> QED BY <1>3, <1>6, <2>7, <3>1, ChangeLife DEF Places, Greeted
  <2>8. ASSUME Change(l, {"clear"}, "flag", c.status, 0, c.tcp, c.udp), Greeted(l)
        PROVE  LifeInv'
    <3>1. Sound(l)'
      BY <1>0, <1>1, <1>3, <2>8 DEF Sound, Greeted
    <3> QED BY <1>3, <1>6, <2>8, <3>1, ChangeLife DEF Places, Greeted
  <2>9. ASSUME Change(l, {"flag"}, "heart", c.status, c.bt, c.tcp, c.udp), Greeted(l)
        PROVE  LifeInv'
    <3>1. Sound(l)'
      BY <1>0, <1>1, <1>3, <2>9 DEF Sound, Greeted
    <3> QED BY <1>3, <1>6, <2>9, <3>1, ChangeLife DEF Places, Greeted
  <2> QED BY <1>3, <2>1, <2>2, <2>3, <2>4, <2>5, <2>6, <2>7, <2>8, <2>9 DEF LoopEffect
<1>4. CASE LeavingEffect(l) /\ ~Ends(l) /\ UNCHANGED unheard
  <2>1. ASSUME Greeted(l), NEW from \in {{"exit"}, {"zero"}, {"check"}, {"again"}},
               NEW to \in {"zero", "check", "again", "connect"},
               NEW status \in {c.status, "CONNECTING"}, NEW tcp, NEW udp,
               Change(l, from, to, status, c.bt, tcp, udp)
        PROVE  LifeInv'
    <3>1. Sound(l)'
      BY <1>0, <1>1, <1>4, <2>1 DEF Sound, Greeted
    <3> QED BY <1>4, <1>6, <2>1, <3>1, ChangeLife DEF Places, Greeted
  <2> QED BY <1>4, <2>1 DEF LeavingEffect
<1>5. CASE Ends(l) /\ UNCHANGED unheard
  <2>1. /\ link \in [Links -> Thread] /\ \A k \in Links \ {l} : link'[k] = link[k]
        /\ link'[l] = NoThread /\ con' = con /\ link[l].pc = "check" /\ unheard' = unheard
    BY <1>5 DEF Ends, TypeOK
  <2>2. Me(l)' = 0 /\ \A k \in Links \ {l} : Me(k)' = Me(k) /\ (Sound(k) => Sound(k)')
    BY <2>1 DEF NoThread, Me, Sound
  <2>3. ~(con[Me(l)].status = "OK" /\ ~unheard[Me(l)])
    BY <1>0, <2>1 DEF Sound
  <2>4. \A s \in Slots : con[s].status = "OK" /\ ~unheard[s] =>
                         \E k \in Links \ {l} : Me(k) = s
    BY <2>3 DEF LifeInv
  <2> QED BY <2>1, <2>2, <2>4 DEF LifeInv
<1>7. CASE OKEffect(l)
  <2>1. /\ Change(l, {"ok"}, "clear", "OK", c.bt, c.tcp, c.udp) /\ Greeted(l)
        /\ \A s \in Slots \ {Me(l)} : unheard'[s] = unheard[s]
    BY <1>7 DEF OKEffect, TypeOK
  <2>2. Sound(l)'
    BY <1>0, <1>1, <1>6, <2>1 DEF Sound, Greeted
  <2> QED BY <1>6, <2>1, <2>2, ChangeLife DEF Places, Greeted
<1>8. CASE HeartlessEffect(l)
  <2>1. /\ Change(l, {"heart"}, "exit", c.status, c.bt, c.tcp, c.udp) /\ Greeted(l)
        /\ \A s \in Slots \ {Me(l)} : unheard'[s] = unheard[s]
        /\ Me(l) \in Slots /\ unheard'[Me(l)]
    BY <1>6, <1>8, ThreadFields DEF HeartlessEffect, TypeOK
  <2>2. Sound(l)'
    BY <1>0, <1>1, <1>6, <2>1 DEF Sound, Greeted
  <2> QED BY <1>6, <2>1, <2>2, ChangeLife DEF Places, Greeted
<1> QED BY <1>2, <1>3, <1>4, <1>5, <1>7, <1>8 DEF Effect

LEMMA CommandLife ==
  ASSUME SlotsApart, TypeOK, LifeInv, NEW w \in Actors, CommandEffect(w)
  PROVE  LifeInv'
<1> DEFINE a == web[w]
<1>0. /\ a.pc \in {"init", "create"} => /\ a.slot \in Slots /\ a.slot # 0
                                        /\ \A l \in Links : Me(l) # a.slot
      /\ a.exits \subseteq Slots /\ link \in [Links -> Thread]
  BY Constants DEF TypeOK, Actor, SlotsApart, Doing
\* A slot that no link thread holds, or that is closed under one.
<1>1. ASSUME link' = link, NEW s \in Slots, Elsewhere(s), con'[s].status # "OK",
             \/ con'[s].tcp = con[s].tcp /\ con'[s].udp = con[s].udp
             \/ \A l \in Links : Me(l) # s
      PROVE  LifeInv'
  <2>1. ASSUME NEW l \in Links, Me(l) # 0 PROVE Sound(l)'
    <3>1. Sound(l) /\ Me(l) \in Slots
      BY <2>1, ThreadFields DEF LifeInv, Me
    <3>2. CASE Me(l) # s
      <4>1. con'[Me(l)] = con[Me(l)] /\ unheard'[Me(l)] = unheard[Me(l)]
        BY <1>1, <3>1, <3>2 DEF Elsewhere
      <4> QED BY <1>1, <3>1, <4>1 DEF Sound, Me
    <3>3. CASE Me(l) = s /\ con'[s].tcp = con[s].tcp /\ con'[s].udp = con[s].udp
      BY <1>1, <3>1, <3>3 DEF Sound, Me
    <3> QED BY <1>1, <2>1, <3>2, <3>3
  <2>2. \A t \in Slots : con'[t].status = "OK" /\ ~unheard'[t] =>
                         con[t].status = "OK" /\ ~unheard[t]
    BY <1>1 DEF Elsewhere
  <2> QED BY <1>1, <2>1, <2>2 DEF LifeInv, Me
<1>2. ASSUME UNCHANGED <<con, link, unheard>> PROVE LifeInv'
  BY <1>2 DEF LifeInv, Sound, Me
<1>3. ASSUME a.pc = "create", UNCHANGED <<con, unheard>>, NEW l \in Links, link[l] = NoThread,
             NEW t \in Thread, link' = [link EXCEPT ![l] = t], t.slot = a.slot,
             t.pc = "connect"
      PROVE  LifeInv'
  <2>1. /\ Me(l)' = a.slot /\ link'[l].pc = "connect" /\ Me(l) = 0
        /\ \A k \in Links \ {l} : link'[k] = link[k] /\ Me(k)' = Me(k)
    BY <1>0, <1>3 DEF NoThread, Me
  <2>2. ~(con[a.slot].status = "OK" /\ ~unheard[a.slot])
    BY <1>0, <1>3 DEF LifeInv
  <2>3. Sound(l)'
    BY <1>3, <2>1, <2>2 DEF Sound
  <2>4. \A k \in Links \ {l} : Sound(k) => Sound(k)'
    BY <1>3, <2>1 DEF Sound
  <2>5. \A s \in Slots : con[s].status = "OK" /\ ~unheard[s] =>
                         \E k \in Links \ {l} : Me(k) = s
    BY <2>1, Constants DEF LifeInv
  <2> QED BY <1>0, <1>3, <2>1, <2>3, <2>4, <2>5 DEF LifeInv
<1>4. CASE a.pc = "init" /\ UNCHANGED link /\ Elsewhere(a.slot) /\ con'[a.slot].status = "CONNECTING"
  BY <1>0, <1>1, <1>4
<1>5. ASSUME UNCHANGED link, NEW s \in a.exits, Elsewhere(s), con'[s].status = "CLOSE",
             con'[s].tcp = con[s].tcp, con'[s].udp = con[s].udp
      PROVE  LifeInv'
  BY <1>0, <1>1, <1>5
<1> QED BY <1>2, <1>3, <1>4, <1>5 DEF CommandEffect, ghosts

LEMMA StepLife ==
  ASSUME MaxFirewalls =< 1, SlotsApart, TypeOK, LifeInv, StepEffect
  PROVE  LifeInv'
<1>1. ASSUME Same, \A s \in Slots : con'[s].status \in {con[s].status, "CLOSE"} PROVE LifeInv'
  <2>1. \A l \in Links : Me(l) # 0 => Me(l) \in Slots
    BY ThreadFields DEF Me
  <2>2. \A l \in Links : Me(l) # 0 => Sound(l)'
    BY <1>1, <2>1 DEF Same, LifeInv, Sound, Me, ghosts
  <2> QED BY <1>1, <2>2 DEF Same, LifeInv, Me, ghosts
<1> QED BY <1>1, LinkLife, CommandLife DEF StepEffect, DataEffect

\* A slot that is OK is connected: its one link thread is in its receive loop on the
\* socket in m_tcp_socket, and the UDP sockets are there, unless its heart thread could
\* not be created (connect_rec_server.c:630), in every table and under every fault, with
\* and without the reports.  The premise is what Traverse_gAmarry_free supposes
\* (reclink_stolen shows it wrong); a server greets a connection once.
THEOREM Connected ==
  ASSUME MaxFirewalls =< 1
  PROVE  (Spec /\ []SlotsApart => []OKConnected) /\ (RepSpec /\ []SlotsApart => []OKConnected)
<1>1. TypeOK /\ SlotsApart /\ LifeInv /\ [Next]_vars => LifeInv'
  BY StepLife, NextEffect
<1>2. TypeOK /\ SlotsApart /\ LifeInv /\ [RepNext]_repVars => LifeInv'
  BY StepLife, RepNextEffect
<1>3. RepInv => TypeOK
  BY RepParts
<1>4. RepInit => Init
  BY DEF RepInit
<1>5. Spec /\ []SlotsApart => []OKConnected
  BY <1>1, LifeInit, LifeConnects, TypeCorrect, PTL DEF Spec
<1>6. RepSpec /\ []SlotsApart => []OKConnected
  BY <1>2, <1>3, <1>4, LifeInit, LifeConnects, RepInvariance, PTL DEF RepSpec
<1> QED BY <1>5, <1>6

-----------------------------------------------------------------------------
(***************************************************************************)
(* The data thread gives up no slot as long as UDP data comes and heart    *)
(* threads can be created: a slot that is OK has its sockets, and one that *)
(* has lost them was marked quiet after its last round in the select set.  *)
(***************************************************************************)
QuietInv ==
  /\ timedOut = 0
  /\ \A s \in Slots : ~unheard[s]
  /\ \A s \in Slots : con[s].quiet => ~con[s].udp
  /\ \A s \in snap : ~con[s].quiet

CalmInv == LifeInv /\ QuietInv

LEMMA CalmInit == Init => CalmInv
BY LifeInit DEF CalmInv, QuietInv, Init, Cleared

LEMMA CalmData == QuietInv /\ DataEffect => Calm
BY DEF QuietInv, DataEffect

\* A step that is not the data thread's.
LEMMA QuietKept ==
  ASSUME TypeOK, QuietInv, UNCHANGED data, \A s \in Slots : ~unheard'[s],
         \A s \in Slots : /\ con'[s].quiet => con[s].quiet
                          /\ con'[s].udp => con[s].udp \/ ~con'[s].quiet
  PROVE  QuietInv'
BY DEF QuietInv, data, TypeOK

LEMMA QuietNext ==
  ASSUME "udp" \notin Faults, "thread" \notin Faults, TypeOK, OKConnected, QuietInv,
         [Next]_vars
  PROVE  QuietInv'
<1>0. /\ con \in [Slots -> Info] /\ snap \subseteq Slots
      /\ \A s \in Slots : ~unheard[s] /\ con[s].udp \in BOOLEAN /\ con[s].quiet \in BOOLEAN
  BY DEF TypeOK, QuietInv, Info
<1>1. ASSUME UNCHANGED <<con, data, unheard>> PROVE QuietInv'
  BY <1>0, <1>1, QuietKept
<1>2. ASSUME NEW l \in Links, LinkStep(l) PROVE QuietInv'
  <2>1. UNCHANGED data /\ Effect(l)
    BY <1>2, LinkEffects
  <2>2. \A s \in Slots : ~unheard'[s]
    BY <1>0, <2>1 DEF Effect, OKEffect, HeartlessEffect, TypeOK
  <2>3. \/ con' = con
        \/ /\ \A s \in Slots \ {Me(l)} : con'[s] = con[s]
           /\ con'[Me(l)].quiet => con[Me(l)].quiet
           /\ con'[Me(l)].quiet /\ con'[Me(l)].udp => con[Me(l)].udp
    BY <2>1 DEF Effect, LoginEffect, LoopEffect, LeavingEffect, OKEffect, HeartlessEffect, Ends,
       Change
  <2>4. \A s \in Slots : /\ con'[s].quiet => con[s].quiet
                         /\ con'[s].udp => con[s].udp \/ ~con'[s].quiet
    BY <1>0, <2>3
  <2> QED BY <2>1, <2>2, <2>4, QuietKept
<1>3. CASE DataScan
  <2>1. \A s \in Slots : con[s].status = "OK" => ~con[s].quiet
    BY <1>0 DEF OKConnected, QuietInv
  <2> QED BY <1>3, <2>1 DEF DataScan, QuietInv, ghosts
<1>4. ASSUME NEW s \in Slots, NEW some \in BOOLEAN, DataVisit(s, some) PROVE QuietInv'
  <2>1. /\ con'[s].udp = con[s].udp /\ con'[s].quiet = ~some
        /\ \A t \in Slots \ {s} : con'[t] = con[t]
    BY <1>0, <1>4 DEF DataVisit, Info
  <2>2. ~some => ~con[s].udp
    BY <1>4 DEF DataVisit, Silence
  <2> QED BY <1>0, <1>4, <2>1, <2>2 DEF DataVisit, QuietInv, ghosts
<1>5. ASSUME NEW s \in Slots, DataTimeout(s) PROVE FALSE
  BY <1>5 DEF DataTimeout, QuietInv
<1>6. ASSUME DataGivesUp PROVE FALSE
  BY <1>6 DEF DataGivesUp, QuietInv
<1>7. ASSUME NEW w \in Actors, InitSlot(w) PROVE QuietInv'
  <2> DEFINE c == [Cleared EXCEPT !.ip = Ip(w), !.room = Room(w), !.status = "CONNECTING"]
  <2>1. c.quiet = FALSE /\ con' = [con EXCEPT ![web[w].slot] = c]
    BY <1>7 DEF InitSlot, Cleared
  <2> HIDE DEF c
  <2>2. \A s \in Slots : con'[s] = con[s] \/ con'[s].quiet = FALSE
    BY <1>0, <2>1
  <2>3. UNCHANGED data /\ \A s \in Slots : ~unheard'[s]
    BY <1>0, <1>7 DEF InitSlot, TypeOK
  <2> QED BY <2>2, <2>3, QuietKept
<1>8. ASSUME NEW w \in Actors, NEW s \in Slots, ExitLink(w, s) PROVE QuietInv'
  <2>1. /\ con'[s].udp = con[s].udp /\ con'[s].quiet = con[s].quiet
        /\ \A t \in Slots \ {s} : con'[t] = con[t]
    BY <1>0, <1>8 DEF ExitLink, Info
  <2> QED BY <1>0, <1>8, <2>1, QuietKept DEF ExitLink
<1>9. ASSUME NEW w \in Actors, Command(w), ~InitSlot(w), \A s \in Slots : ~ExitLink(w, s)
      PROVE  QuietInv'
  <2>1. UNCHANGED <<con, data, unheard>>
    BY <1>9 DEF Command, FindFree, CreateFails, FindUsed, ExitsDone, CreateLink, ghosts
  <2> QED BY <1>1, <2>1
<1> QED BY <1>1, <1>2, <1>3, <1>4, <1>5, <1>6, <1>7, <1>8, <1>9
        DEF Next, DataStep, PeerCloses, HeartEnds, Receive, others, ghosts, vars

LEMMA CalmNext ==
  ASSUME "udp" \notin Faults, "thread" \notin Faults, MaxFirewalls =< 1,
         SlotsApart, TypeOK, CalmInv, [Next]_vars
  PROVE  CalmInv'
BY QuietNext, StepLife, NextEffect, LifeConnects DEF CalmInv

LEMMA RepCalmNext ==
  ASSUME "udp" \notin Faults, "thread" \notin Faults, MaxFirewalls =< 1,
         SlotsApart, TypeOK, CalmInv, [RepNext]_repVars
  PROVE  CalmInv'
<1>1. LifeInv'
  BY StepLife, RepNextEffect DEF CalmInv
<1>2. CASE ReportStep
  <2>1. UNCHANGED <<data, unheard>>
    BY <1>2 DEF ReportStep, StartReports, CountSlot, ClearFlag, CopySlot, PostOK, PostFails,
       vars, others, ghosts
  <2>2. \A s \in Slots : con'[s].quiet = con[s].quiet /\ con'[s].udp = con[s].udp
    <3>1. con \in [Slots -> Info]
      BY DEF TypeOK
    <3> QED BY <1>2, <3>1 DEF ReportStep, StartReports, CountSlot, ClearFlag, CopySlot, PostOK,
            PostFails, vars, Info
  <2>3. QuietInv'
    BY <2>1, <2>2, QuietKept DEF CalmInv, QuietInv
  <2> QED BY <1>1, <2>3 DEF CalmInv
<1>3. CASE [Next]_vars
  BY <1>3, CalmNext
<1> QED BY <1>2, <1>3 DEF RepNext, repVars

-----------------------------------------------------------------------------
(***************************************************************************)
(* A link that is cut is taken up again, as long as a slot has one link    *)
(* thread and the data thread gives up none (see the runs reclink_stolen   *)
(* and reclink_udp).  Inductive with it: a slot whose m_bt_connect is set  *)
(* has a link thread, and the thread that clears it has a slot that is up, *)
(* or exited.                                                              *)
(***************************************************************************)
AbandonInv == /\ NeverAbandoned
              /\ \A s \in Slots : con[s].bt = 1 => \E l \in Links : Me(l) = s
              /\ \A l \in Links : At(l, "clear") => con[Me(l)].status # "CLOSE" \/ exited[Me(l)]

LEMMA AbandonInit == Init => AbandonInv
BY DEF Init, AbandonInv, NeverAbandoned, Cleared, At, NoThread

\* A thread that moves leaves its slot reconnecting, exited, in another state than CLOSE,
\* or as the thread that looked after it left it.
LEMMA ChangeAbandon ==
  ASSUME TypeOK, CalmInv, AbandonInv, NEW l \in Links, link[l].pc # "none",
         NEW from, NEW to, NEW status, NEW bt, NEW tcp, NEW udp,
         Change(l, from, to, status, bt, tcp, udp), UNCHANGED <<timedOut, exited>>,
         to = "clear" => status # "CLOSE",
         status = "CLOSE" => \/ bt = 1 \/ to = "lost" \/ exited[Me(l)]
                             \/ /\ con[Me(l)].status = "CLOSE" /\ con[Me(l)].bt = bt
                                /\ link[l].pc # "lost"
  PROVE  AbandonInv'
<1>1. /\ Me(l) \in Slots /\ \A k \in Links : Me(k)' = Me(k)
      /\ link'[l].pc = to /\ \A k \in Links \ {l} : link'[k].pc = link[k].pc
  BY ThreadFields DEF Change, Moves, Me
<1>2. \A s \in Slots : con'[s].bt = 1 => \E k \in Links : Me(k)' = s
  BY <1>1 DEF Change, AbandonInv
<1>3. ASSUME NEW s \in Slots, ~exited[s],
             con'[s].bt = 1 \/ (con'[s].status = "CLOSE" /\ con'[s].ip # NoBox)
      PROVE  \E k \in Links : Me(k)' = s /\ (con'[s].bt = 1 \/ link'[k].pc = "lost")
  <2>1. CASE con'[s].bt = 1
    BY <1>2, <2>1
  <2>2. CASE s = Me(l) /\ to = "lost"
    BY <1>1, <2>2
  <2>3. CASE con'[s].bt # 1 /\ (s # Me(l) \/ to # "lost")
    <3>1. con[s].status = "CLOSE" /\ con[s].ip # NoBox /\ con[s].bt # 1
          /\ (s = Me(l) => link[l].pc # "lost")
      BY <1>3, <2>3 DEF Change
    <3>2. PICK k \in Links : Me(k) = s /\ link[k].pc = "lost"
      BY <1>3, <3>1 DEF AbandonInv, NeverAbandoned, At, CalmInv, QuietInv
    <3> QED BY <1>1, <3>1, <3>2
  <2> QED BY <2>1, <2>2, <2>3
<1>4. ASSUME NEW k \in Links, link'[k].pc = "clear"
      PROVE  con'[Me(k)].status # "CLOSE" \/ exited[Me(k)]
  <2>1. CASE k = l
    BY <1>1, <1>4, <2>1 DEF Change
  <2>2. CASE k # l
    <3>1. link[k].pc = "clear" /\ Me(k) \in Slots /\ Me(k) # Me(l)
      BY <1>1, <1>4, <2>2, ThreadFields, Constants DEF CalmInv, LifeInv
    <3>2. con'[Me(k)] = con[Me(k)]
      BY <3>1 DEF Change
    <3> QED BY <3>1, <3>2 DEF AbandonInv, At
  <2> QED BY <2>1, <2>2
<1> QED BY <1>1, <1>2, <1>3, <1>4 DEF AbandonInv, NeverAbandoned, At

LEMMA LinkAbandon ==
  ASSUME TypeOK, CalmInv, AbandonInv, NEW l \in Links, Effect(l), UNCHANGED <<timedOut, exited>>
  PROVE  AbandonInv'
<1> DEFINE c == con[Me(l)]
<1>0. link[l].pc # "none" /\ Me(l) \in Slots
  <2>1. link[l].pc # "none"
    BY DEF Effect, LoginEffect, LoopEffect, LeavingEffect, OKEffect, HeartlessEffect, Change,
       Start, Ends
  <2> QED BY <2>1, ThreadFields
<1>1. CASE LoginEffect(l)
  BY <1>0, <1>1, ChangeAbandon DEF LoginEffect, Change, Start
<1>2. CASE LoopEffect(l)
  <2>1. ASSUME Change(l, {"clear"}, "flag", c.status, 0, c.tcp, c.udp) PROVE AbandonInv'
    <3>1. c.status = "CLOSE" => exited[Me(l)]
      BY <2>1 DEF Change, AbandonInv, At
    <3> QED BY <1>0, <2>1, <3>1, ChangeAbandon
  <2>2. ASSUME NEW from \in {{"test", "poll", "heart"}, {"test"}, {"flag"}, {"poll"}, {"fire"}},
               NEW to \in {"test", "poll", "exit", "heart", "fire", "ok"}, NEW udp,
               Change(l, from, to, c.status, c.bt, c.tcp, udp)
        PROVE  AbandonInv'
    BY <1>0, <2>2, ChangeAbandon DEF Change
  <2>3. ASSUME Change(l, {"poll"}, "lost", "CLOSE", c.bt, c.tcp, c.udp) PROVE AbandonInv'
    BY <1>0, <2>3, ChangeAbandon
  <2>4. ASSUME Change(l, {"lost"}, "test", c.status, 1, c.tcp, c.udp) PROVE AbandonInv'
    BY <1>0, <2>4, ChangeAbandon
  <2> QED BY <1>2, <2>1, <2>2, <2>3, <2>4 DEF LoopEffect
<1>3. CASE LeavingEffect(l) /\ ~Ends(l)
  BY <1>0, <1>3, ChangeAbandon DEF LeavingEffect, Change
<1>4. CASE Ends(l)
  <2>1. /\ \A k \in Links \ {l} : link'[k] = link[k]
        /\ link'[l].pc = "none" /\ con' = con
    BY <1>4 DEF Ends, TypeOK, NoThread
  <2>2. ASSUME NEW s \in Slots, NEW k \in Links, Me(k) = s, con[s].bt = 1 \/ link[k].pc = "lost"
        PROVE  k # l
    BY <1>4, <2>2 DEF Ends
  <2>3. \A s \in Slots, k \in Links :
          Me(k) = s /\ (con[s].bt = 1 \/ link[k].pc = "lost")
            => Me(k)' = s /\ (con'[s].bt = 1 \/ link'[k].pc = "lost")
    BY <2>1, <2>2 DEF Me
  <2>4. \A k \in Links : link'[k].pc = "clear" => link[k].pc = "clear" /\ Me(k)' = Me(k)
    BY <2>1 DEF Me
  <2> QED BY <2>1, <2>3, <2>4 DEF CalmInv, QuietInv, AbandonInv, NeverAbandoned, At
<1>5. CASE OKEffect(l)
  BY <1>0, <1>5, ChangeAbandon DEF OKEffect
<1>6. CASE HeartlessEffect(l)
  BY <1>0, <1>6, ChangeAbandon DEF HeartlessEffect, Change
<1> QED BY <1>1, <1>2, <1>3, <1>4, <1>5, <1>6 DEF Effect

\* A web thread takes no thread from a slot, and leaves the slot it changes reconnecting
\* or exited.
LEMMA CommandAbandon ==
  ASSUME TypeOK, CalmInv, AbandonInv, NEW w \in Actors, CommandEffect(w), UNCHANGED timedOut
  PROVE  AbandonInv'
<1>1. \A k \in Links : Me(k) # 0 => link'[k] = link[k]
  BY DEF CommandEffect, TypeOK, NoThread, Me
<1>2. \A s \in Slots : \/ con'[s] = con[s] /\ exited'[s] = exited[s]
                       \/ con'[s].bt = 0 /\ (exited'[s] \/ con'[s].status = "CONNECTING")
  BY DEF CommandEffect, Elsewhere, ghosts
<1>3. \A s \in Slots, k \in Links : Me(k) = s => Me(k)' = s /\ link'[k].pc = link[k].pc
  BY <1>1, Constants DEF Me
<1>4. \A k \in Links : link'[k].pc = "clear" => link[k].pc = "clear" /\ Me(k) \in Slots
  <2>1. \A k \in Links : link'[k].pc = "clear" => link[k].pc = "clear"
    BY DEF CommandEffect, TypeOK
  <2> QED BY <2>1, ThreadFields
<1>5. ASSUME NEW k \in Links, link'[k].pc = "clear"
      PROVE  con'[Me(k)'].status # "CLOSE" \/ exited'[Me(k)']
  <2>1. link[k].pc = "clear" /\ Me(k) \in Slots /\ Me(k)' = Me(k)
    BY <1>3, <1>4, <1>5
  <2> QED BY <1>2, <2>1 DEF AbandonInv, At
<1> QED BY <1>2, <1>3, <1>5 DEF CalmInv, QuietInv, AbandonInv, NeverAbandoned, At

LEMMA StepAbandon ==
  ASSUME TypeOK, CalmInv, AbandonInv, StepEffect
  PROVE  AbandonInv'
<1>1. ASSUME NEW l \in Links, Effect(l), UNCHANGED <<timedOut, exited>> PROVE AbandonInv'
  BY <1>1, LinkAbandon
<1>2. ASSUME DataEffect PROVE AbandonInv'
  <2>1. Calm /\ \A l \in Links : link[l].pc # "none" => Me(l) \in Slots
    BY <1>2, CalmData, ThreadFields DEF CalmInv
  <2> QED BY <2>1 DEF Calm, Same, ghosts, AbandonInv, NeverAbandoned, At, Me
<1> QED BY <1>1, <1>2, CommandAbandon DEF StepEffect

\* No slot is left behind in CLOSE (connect_rec_server.c:1214 against 1007): as long as
\* it is the recording servers that cut the links, and threads can be created, every slot
\* that was up, and that no command has exited, has a link thread that starts over, with
\* and without the reports running.  The premise is needed: of two link threads on a slot
\* one may note a cut (547) between the other's stores at 623 and 625; the second clears
\* m_bt_connect, and both end.
THEOREM TakenUpAgain ==
  ASSUME "udp" \notin Faults, "thread" \notin Faults, MaxFirewalls =< 1
  PROVE  /\ Spec /\ []SlotsApart => []NeverAbandoned
         /\ RepSpec /\ []SlotsApart => []NeverAbandoned
<1> DEFINE I == CalmInv /\ AbandonInv
<1>1. Init => I
  BY CalmInit, AbandonInit
<1>2. TypeOK /\ SlotsApart /\ I /\ [Next]_vars => I'
  BY CalmNext, StepAbandon, NextEffect
<1>3. TypeOK /\ SlotsApart /\ I /\ [RepNext]_repVars => I'
  BY RepCalmNext, StepAbandon, RepNextEffect
<1>4. I => NeverAbandoned
  BY DEF AbandonInv
<1>5. (RepInit => Init) /\ (RepInv => TypeOK)
  BY RepParts DEF RepInit
<1> HIDE DEF I
<1>6. Spec /\ []SlotsApart => []NeverAbandoned
  BY <1>1, <1>2, <1>4, TypeCorrect, PTL DEF Spec
<1>7. RepSpec /\ []SlotsApart => []NeverAbandoned
  BY <1>1, <1>3, <1>4, <1>5, RepInvariance, PTL DEF RepSpec
<1> QED BY <1>6, <1>7

-----------------------------------------------------------------------------
(***************************************************************************)
(* The premise holds where one room is recorded: the start-up answer names *)
(* one, and the media centre sends nothing but commands to leave.          *)
(***************************************************************************)
OnlyLeave == \A r \in Requests : Len(r) = ROOM_ID_MAX /\ Range(r) = {ALL}
SingleRoom == Len(Boot) = 1 /\ Len(Boot[1].rooms) = 1 /\ OnlyLeave

\* Servers with rooms in R, what is left of them when the first room is done.
Tasks(R) == [ip : Boxes, rooms : Seq(R) \ {<<>>}]

LEMMA RestTasks ==
  ASSUME NEW R, NEW w \in Actors, web[w].todo \in Seq(Tasks(R)), web[w].todo # <<>>
  PROVE  /\ Room(w) \in R /\ NextRoom(w).todo \in Seq(Tasks(R))
         /\ NextRoom(w).pc = "next" /\ NextRoom(w).exits = {}
         /\ Tail(web[w].todo) \in Seq(Tasks(R))
<1> DEFINE t == web[w].todo
           rest == IF Len(Rooms(w)) = 1 THEN <<>>
                   ELSE <<[ip |-> Ip(w), rooms |-> Tail(Rooms(w))]>>
<1>1. Head(t) \in Tasks(R) /\ Tail(t) \in Seq(Tasks(R))
  OBVIOUS
<1>2. Ip(w) \in Boxes /\ Rooms(w) \in Seq(R) /\ Rooms(w) # <<>>
  BY <1>1 DEF Ip, Rooms, Tasks
<1>3. Room(w) \in R
  BY <1>2 DEF Room
<1>4. rest \in Seq(Tasks(R))
  <2>1. CASE Len(Rooms(w)) = 1
    BY <2>1
  <2>2. CASE Len(Rooms(w)) # 1
    <3>1. Tail(Rooms(w)) \in Seq(R) /\ Len(Rooms(w)) \in Nat /\ Len(Rooms(w)) # 0
      BY <1>2
    <3>2. Len(Tail(Rooms(w))) # 0
      BY <1>2, <2>2, <3>1
    <3>3. [ip |-> Ip(w), rooms |-> Tail(Rooms(w))] \in Tasks(R)
      <4>1. Tail(Rooms(w)) # <<>>
        BY <3>1, <3>2, EmptySeq
      <4> QED BY <4>1, <3>1, <1>2, Zenon DEF Tasks
    <3>4. rest = <<[ip |-> Ip(w), rooms |-> Tail(Rooms(w))]>>
      BY <2>2
    <3> HIDE DEF rest
    <3>5. \A x \in Tasks(R) : <<x>> \in Seq(Tasks(R))
      OBVIOUS
    <3> QED BY <3>3, <3>4, <3>5
  <2> QED BY <2>1, <2>2
<1>5. NextRoom(w) = Idle(rest \o Tail(t))
  BY DEF NextRoom
<1> HIDE DEF rest
<1>6. rest \o Tail(t) \in Seq(Tasks(R))
  BY <1>1, <1>4
<1> QED BY <1>1, <1>3, <1>5, <1>6 DEF Idle

\* While the report thread is at work on the room there is nothing to leave.
OneRoomInv ==
  /\ \A w \in Webs : web[w].pc \in {"next", "exit"} /\ web[w].todo \in Seq(Tasks({ALL}))
  /\ LET a == web["report"]
     IN \/ a = Idle(<<>>)
        \/ /\ Len(a.todo) = 1 /\ Len(Rooms("report")) = 1 /\ Room("report") # ALL
           /\ a.exits = {} /\ a.pc \in {"next", "init", "create"}
           /\ \A l \in Links : Me(l) = 0
           /\ \A s \in Slots : con[s].status # "OK"
           /\ \A w \in Webs : web[w].exits = {}

LEMMA OneRoomInit ==
  ASSUME SingleRoom, Init
  PROVE  OneRoomInv
<1>1. "report" \in Actors /\ \A w \in Webs : w \in Actors /\ w # "report"
  BY ThreadAssumption DEF Actors
<1>0. Len(Boot) = 1 /\ Len(Boot[1].rooms) = 1
  BY DEF SingleRoom
<1>2. \A w \in Webs : /\ web[w].pc = "next" /\ web[w].todo \in Seq(Tasks({ALL}))
                      /\ web[w].exits = {}
  BY <1>1 DEF Init, Idle
<1>3. web["report"] = Idle(Boot)
  BY <1>1 DEF Init
<1>4. web["report"].todo = Boot /\ web["report"].exits = {} /\ web["report"].pc = "next"
  BY <1>3 DEF Idle
<1>5. /\ Boot \in Seq(Server) /\ Head(Boot) = Boot[1] /\ Boot[1] \in Server
      /\ \A b \in Range(Boot) : -1 \notin Range(b.rooms)
  <2>1. Boot \in Seq(Server) /\ \A b \in Range(Boot) : -1 \notin Range(b.rooms)
    BY RoomAssumption DEF Server
  <2>2. Head(Boot) = Boot[1] /\ Boot[1] \in Server
    BY <1>0, <2>1
  <2> QED BY <2>1, <2>2
<1>6. Boot[1] \in Range(Boot) /\ Boot[1].rooms \in Seq(Int)
  BY <1>0, <1>5 DEF Range, Server
<1>7. Head(Boot[1].rooms) = Boot[1].rooms[1] /\ Boot[1].rooms[1] \in Range(Boot[1].rooms)
  BY <1>0, <1>6 DEF Range
<1>8. Len(Rooms("report")) = 1 /\ Room("report") # ALL
  BY <1>0, <1>4, <1>5, <1>6, <1>7 DEF Rooms, Room, ALL
<1>9. (\A l \in Links : Me(l) = 0) /\ \A s \in Slots : con[s].status # "OK"
  BY DEF Init, NoThread, Me, Cleared
<1> QED BY <1>0, <1>2, <1>4, <1>8, <1>9 DEF OneRoomInv

\* Its room done, the report thread has nothing left to do.
LEMMA LastRoom ==
  ASSUME TypeOK, Len(web["report"].todo) = 1, Len(Rooms("report")) = 1
  PROVE  Tail(web["report"].todo) = <<>> /\ NextRoom("report") = Idle(<<>>)
<1>1. web["report"].todo \in Seq(Server)
  BY DEF TypeOK, Actor, Actors
<1>2. Tail(web["report"].todo) = <<>>
  <2> DEFINE t == web["report"].todo
  <2>1. t \in Seq(Server) /\ Len(t) = 1
    BY <1>1
  <2> HIDE DEF t
  <2>2. ASSUME t = <<>> PROVE FALSE
    <3>1. Len(t) = 0
      BY <2>2, EmptySeq, Zenon
    <3> QED BY <2>1, <3>1
  <2>3. Tail(t) \in Seq(Server) /\ Len(Tail(t)) = 0
    BY <2>1, <2>2
  <2>4. Tail(t) = <<>>
    BY <2>3, EmptySeq
  <2> QED BY <2>4 DEF t
<1>3. NextRoom("report") = Idle(<<>> \o <<>>)
  BY <1>2 DEF NextRoom
<1> QED BY <1>2, <1>3

\* A command to leave.
LEMMA LeaveTasks ==
  ASSUME OnlyLeave, NEW ip \in Boxes, NEW r \in Requests
  PROVE  <<[ip |-> ip, rooms |-> Entries(r)]>> \in Seq(Tasks({ALL}))
<1>1. Entries(r) \in Seq(Int) \ {<<>>} /\ r \in Seq(Int) /\ ROOM_ID_MAX \in Nat
  BY EntriesType, RoomAssumption, Constants
<1>2. \A i \in 1..ROOM_ID_MAX : Entries(r)[i] = ALL
  BY <1>1 DEF OnlyLeave, Entries, Range
<1>3. Entries(r) \in Seq({ALL}) \ {<<>>}
  BY <1>1, <1>2 DEF Entries
<1>4. [ip |-> ip, rooms |-> Entries(r)] \in Tasks({ALL})
  BY <1>3, Zenon DEF Tasks
<1>5. \A x \in Tasks({ALL}) : <<x>> \in Seq(Tasks({ALL}))
  OBVIOUS
<1> QED BY <1>4, <1>5

\* A step that leaves the report thread and its work alone.
LEMMA OneRoomKept ==
  ASSUME OneRoomInv, web'["report"] = web["report"],
         \A w \in Webs : web'[w].pc \in {"next", "exit"} /\ web'[w].todo \in Seq(Tasks({ALL})),
         web["report"] # Idle(<<>>) =>
           /\ \A l \in Links : Me(l)' = 0
           /\ \A s \in Slots : con'[s].status # "OK"
           /\ \A w \in Webs : web'[w].exits = {}
  PROVE  OneRoomInv'
BY DEF OneRoomInv, Rooms, Room

LEMMA OneRoomStep ==
  ASSUME OnlyLeave, TypeOK, OneRoomInv, [Next]_vars
  PROVE  OneRoomInv'
<1>0. /\ web \in [Actors -> Actor] /\ "report" \in Actors /\ web["report"] \in Actor
      /\ con \in [Slots -> Info]
      /\ \A w \in Webs : w # "report" /\ w \in Actors
      /\ \A w \in Actors : w \in Webs \/ w = "report"
  BY ThreadAssumption DEF TypeOK, Actors
<1> DEFINE busy == web["report"] # Idle(<<>>)
<1>1. busy => /\ \A l \in Links : Me(l) = 0
              /\ \A s \in Slots : con[s].status # "OK"
              /\ \A w \in Webs : web[w].exits = {}
  BY DEF OneRoomInv
<1>2. ASSUME NEW l \in Links, LinkStep(l) PROVE OneRoomInv'
  <2>1. Effect(l) /\ web' = web
    BY <1>2, LinkEffects
  <2>2. Me(l) # 0
    <3>1. link[l].pc # "none"
      BY <2>1 DEF Effect, LoginEffect, LoopEffect, LeavingEffect, OKEffect, HeartlessEffect,
         Change, Start, Ends
    <3> QED BY <3>1, ThreadFields, Constants
  <2> QED BY <1>1, <2>1, <2>2, OneRoomKept DEF OneRoomInv
<1>3. ASSUME UNCHANGED <<web, link>>, \A s \in Slots : con'[s].status = "OK" => con[s].status = "OK"
      PROVE  OneRoomInv'
  BY <1>1, <1>3, OneRoomKept DEF OneRoomInv, Me
\* A web thread leaves.
<1>4. ASSUME NEW w \in Webs, UNCHANGED link, NEW r, Update(w, r), r.pc \in {"next", "exit"},
             r.todo \in Seq(Tasks({ALL})), busy => r.exits = {} /\ con' = con
      PROVE  OneRoomInv'
  <2>1. web'[w] = r /\ \A v \in Actors \ {w} : web'[v] = web[v]
    BY <1>0, <1>4 DEF Update
  <2>2. \A v \in Webs : web'[v].pc \in {"next", "exit"} /\ web'[v].todo \in Seq(Tasks({ALL}))
    BY <1>0, <1>4, <2>1 DEF OneRoomInv
  <2>3. web'["report"] = web["report"]
    BY <1>0, <2>1
  <2>4. busy => /\ \A l \in Links : Me(l)' = 0
                /\ \A s \in Slots : con'[s].status # "OK"
                /\ \A v \in Webs : web'[v].exits = {}
    BY <1>0, <1>1, <1>4, <2>1 DEF Me
  <2> QED BY <2>2, <2>3, <2>4, OneRoomKept
<1>5. ASSUME NEW w \in Webs, Command(w) PROVE OneRoomInv'
  <2> DEFINE a == web[w]
  <2>1. a.pc \in {"next", "exit"} /\ a.todo \in Seq(Tasks({ALL})) /\ a \in Actor
    BY <1>0 DEF OneRoomInv
  <2>2. a.todo # <<>>
    BY <1>0, <1>5 DEF TypeOK, Command, FindFree, InitSlot, CreateFails, CreateLink, FindUsed,
       ExitLink, ExitsDone, HasRoom, Doing
  <2>3. Room(w) = ALL /\ NextRoom(w).todo \in Seq(Tasks({ALL})) /\ NextRoom(w).pc = "next"
        /\ NextRoom(w).exits = {}
    BY <1>0, <2>1, <2>2, RestTasks
  <2>4. CASE FindUsed(w)
    <3> DEFINE r == [a EXCEPT !.pc = "exit", !.exits = Used(Ip(w))]
    <3>1. r.pc = "exit" /\ r.todo = a.todo /\ r.exits = Used(Ip(w))
      BY <2>1 DEF Actor
    <3>2. Update(w, r) /\ UNCHANGED <<con, link>>
      BY <2>4 DEF FindUsed
    <3>3. busy => Used(Ip(w)) = {}
      BY <1>1 DEF Used
    <3> HIDE DEF r, busy
    <3> QED BY <1>4, <2>1, <3>1, <3>2, <3>3
  <2>5. ASSUME NEW s \in Slots, ExitLink(w, s) PROVE OneRoomInv'
    <3> DEFINE r == [a EXCEPT !.exits = a.exits \ {s}]
    <3>1. r.pc = a.pc /\ r.todo = a.todo
      BY <2>1 DEF Actor
    <3>2. Update(w, r) /\ UNCHANGED link /\ s \in a.exits
      BY <2>5 DEF ExitLink
    <3>3. ~busy
      BY <1>1, <3>2
    <3> HIDE DEF r, busy
    <3> QED BY <1>4, <2>1, <3>1, <3>2, <3>3
  <2>6. CASE ExitsDone(w)
    BY <1>4, <2>3, <2>6 DEF ExitsDone
  <2> QED BY <1>5, <2>1, <2>3, <2>4, <2>5, <2>6
          DEF Command, FindFree, InitSlot, CreateFails, CreateLink, HasRoom, Doing
<1>6. ASSUME NEW w \in Actors, NEW ip \in Boxes, NEW r \in Requests, Receive(w, ip, r)
      PROVE  OneRoomInv'
  <2> DEFINE t == <<[ip |-> ip, rooms |-> Entries(r)]>>
  <2>1. w \in Webs /\ Update(w, Idle(t)) /\ UNCHANGED <<con, link>>
    BY <1>0, <1>6 DEF Receive
  <2>2. t \in Seq(Tasks({ALL}))
    BY LeaveTasks
  <2> HIDE DEF t
  <2>3. Idle(t).pc = "next" /\ Idle(t).todo = t /\ Idle(t).exits = {}
    BY DEF Idle
  <2> HIDE DEF Idle
  <2> QED BY <1>4, <2>1, <2>2, <2>3
<1>7. ASSUME Command("report") PROVE OneRoomInv'
  <2> DEFINE a == web["report"]
  <2>1. /\ Len(a.todo) = 1 /\ Len(Rooms("report")) = 1 /\ Room("report") # ALL
        /\ a.exits = {} /\ a.pc \in {"next", "init", "create"}
        /\ \A l \in Links : Me(l) = 0
        /\ \A s \in Slots : con[s].status # "OK"
        /\ \A w \in Webs : web[w].exits = {}
    <3>1. ASSUME a = Idle(<<>>) PROVE FALSE
      <4>1. a.pc = "next" /\ a.todo = <<>>
        BY <3>1 DEF Idle
      <4> QED BY <1>7, <4>1 DEF Command, FindFree, InitSlot, CreateFails, FindUsed, ExitsDone,
                 CreateLink, ExitLink, HasRoom, Doing
    <3> QED BY <3>1 DEF OneRoomInv
  <2>2. /\ \A r : Update("report", r) => web'["report"] = r /\ \A w \in Webs : web'[w] = web[w]
        /\ Tail(a.todo) = <<>> /\ NextRoom("report") = Idle(<<>>)
    BY <1>0, <2>1, LastRoom DEF Update
  <2>3. ASSUME Update("report", Idle(<<>>)) PROVE OneRoomInv'
    BY <2>2, <2>3 DEF OneRoomInv
  <2>4. ASSUME UNCHANGED link, NEW r, Update("report", r), r.todo = a.todo, r.exits = {},
               r.pc \in {"init", "create"}, \A s \in Slots : con'[s].status # "OK"
        PROVE  OneRoomInv'
    BY <2>1, <2>2, <2>4 DEF OneRoomInv, Rooms, Room, Me
  <2>5. CASE FindFree("report")
    <3>1. ASSUME NEW s, Update("report", [a EXCEPT !.pc = "init", !.slot = s]), UNCHANGED <<con, link>>
          PROVE  OneRoomInv'
      <4> DEFINE r == [a EXCEPT !.pc = "init", !.slot = s]
      <4>1. r.todo = a.todo /\ r.exits = {} /\ r.pc = "init"
        BY <1>0, <2>1 DEF Actor
      <4> HIDE DEF r
      <4> QED BY <2>1, <2>4, <3>1, <4>1 DEF r
    <3> QED BY <2>2, <2>3, <2>5, <3>1 DEF FindFree
  <2>6. CASE InitSlot("report")
    <3> DEFINE r == [a EXCEPT !.pc = "create"]
               c == [Cleared EXCEPT !.ip = Ip("report"), !.room = Room("report"),
                                    !.status = "CONNECTING"]
    <3>1. r.todo = a.todo /\ r.exits = {} /\ r.pc = "create"
      BY <1>0, <2>1 DEF Actor
    <3>2. UNCHANGED link /\ Update("report", r) /\ con' = [con EXCEPT ![a.slot] = c]
      BY <2>6 DEF InitSlot
    <3>3. c.status # "OK"
      BY DEF Cleared
    <3> HIDE DEF r, c
    <3>4. \A s \in Slots : con'[s].status # "OK"
      BY <1>0, <2>1, <3>2, <3>3
    <3> QED BY <2>4, <3>1, <3>2, <3>4
  <2>7. CASE CreateFails("report") \/ \E l \in Links : CreateLink("report", l)
    BY <2>2, <2>3, <2>7 DEF CreateFails, CreateLink
  <2> QED BY <1>7, <2>1, <2>5, <2>6, <2>7 DEF Command, FindUsed, ExitsDone, ExitLink, Doing
<1>8. ASSUME DataStep PROVE OneRoomInv'
  <2>1. DataEffect
    BY <1>8, DataHas
  <2> QED BY <1>3, <2>1 DEF DataEffect, Same
<1>9. CASE UNCHANGED vars
  BY <1>3, <1>9 DEF vars
<1>10. ASSUME NEW l \in Links, PeerCloses(l) PROVE OneRoomInv'
  BY <1>3, <1>10 DEF PeerCloses, others
<1>11. ASSUME NEW s \in Slots, HeartEnds(s) PROVE OneRoomInv'
  BY <1>3, <1>11 DEF HeartEnds
<1> QED BY <1>0, <1>2, <1>5, <1>6, <1>7, <1>8, <1>9, <1>10, <1>11 DEF Next

LEMMA OneRoomApart == TypeOK /\ OneRoomInv => SlotsApart
<1>1. ASSUME OneRoomInv, NEW w \in Actors, Doing(w, "init") \/ Doing(w, "create")
      PROVE  /\ w = "report" /\ \A l \in Links : Me(l) = 0
             /\ \A v \in Webs : web[v].pc \in {"next", "exit"} /\ web[v].exits = {}
  BY <1>1 DEF OneRoomInv, Actors, Doing, Idle
<1>2. ASSUME OneRoomInv, NEW w \in Actors, Doing(w, "init") \/ Doing(w, "create"),
             NEW v \in Actors \ {w}
      PROVE  web[v].pc \in {"next", "exit"} /\ web[v].exits = {}
  BY <1>1, <1>2 DEF Actors
<1>3. OneRoomInv => WebsApart
  BY <1>2 DEF WebsApart, Doing
<1>4. ASSUME TypeOK, OneRoomInv, NEW w \in Actors, Doing(w, "init") \/ Doing(w, "create"),
             NEW l \in Links
      PROVE  Me(l) # web[w].slot
  <2>1. Me(l) = 0 /\ web[w].slot # 0
    BY <1>1, <1>4 DEF TypeOK, Doing
  <2> QED BY <2>1
<1> QED BY <1>3, <1>4 DEF SlotsApart

LEMMA OneRoomAlways ==
  ASSUME SingleRoom
  PROVE  (Spec => []SlotsApart) /\ (RepSpec => []SlotsApart)
<1>1. Init => OneRoomInv
  BY OneRoomInit
<1>2. TypeOK /\ OneRoomInv /\ [Next]_vars => OneRoomInv'
  BY OneRoomStep DEF SingleRoom
<1>3. ASSUME TypeOK, OneRoomInv, [RepNext]_repVars PROVE OneRoomInv'
  <2>1. CASE ReportStep
    <3>1. UNCHANGED <<web, link>> /\ \A s \in Slots : con'[s].status = con[s].status
      <4>1. CASE ClearFlag
        BY <1>3, <4>1 DEF TypeOK, ClearFlag, others, Info
      <4>2. CASE ~ClearFlag
        BY <2>1, <4>2 DEF ReportStep, StartReports, CountSlot, CopySlot, PostOK, PostFails, vars
      <4> QED BY <4>1, <4>2
    <3> QED BY <1>3, <3>1, OneRoomKept DEF OneRoomInv, Me
  <2> QED BY <1>2, <1>3, <2>1 DEF RepNext, repVars
<1>4. TypeOK /\ OneRoomInv => SlotsApart
  BY OneRoomApart
<1>5. (RepInit => Init) /\ (RepInv => TypeOK)
  BY RepParts DEF RepInit
<1>6. Spec => []SlotsApart
  BY <1>1, <1>2, <1>4, TypeCorrect, PTL DEF Spec
<1>7. RepSpec => []SlotsApart
  BY <1>1, <1>3, <1>4, <1>5, RepInvariance, PTL DEF RepSpec
<1> QED BY <1>6, <1>7

\* A single recorded room (the configuration of reclink_tcp, with any number of slots,
\* link threads and heart threads, and web threads that are told to leave): whenever its
\* slot is OK it is connected, wherever its connection is cut, with and without the
\* reports, but for a heart thread that could not be created.
THEOREM OneRoomConnected ==
  ASSUME MaxFirewalls =< 1, SingleRoom
  PROVE  (Spec => []OKConnected) /\ (RepSpec => []OKConnected)
BY OneRoomAlways, Connected, PTL

\* And it is taken up again wherever its connection is cut (1007-1013, 1144), unless a
\* command to leave has exited it, at whatever moment that comes.
THEOREM OneRoomTakenUp ==
  ASSUME "udp" \notin Faults, "thread" \notin Faults, MaxFirewalls =< 1, SingleRoom
  PROVE  (Spec => []NeverAbandoned) /\ (RepSpec => []NeverAbandoned)
BY OneRoomAlways, TakenUpAgain, PTL

-----------------------------------------------------------------------------
(***************************************************************************)
(* An exit sticks, as long as a slot has one link thread and nothing cuts  *)
(* a link.  A link thread that may yet make its slot OK is expecting: it   *)
(* logs in, has a FIREWALL message in hand, or its connection has not      *)
(* brought one.  There is none in a slot after an exit, nor in one that a  *)
(* web thread is to exit.                                                  *)
(***************************************************************************)
Trying == {"connect", "password", "verify", "request", "fire", "ok"}
Expecting(l) ==
  /\ Me(l) # 0
  /\ \/ link[l].pc \in Trying
     \/ link[l].pc \in {"test", "poll"} /\ ~(link[l].greeted >= MaxFirewalls)
Unexpected(s) == \A l \in Links : Expecting(l) => Me(l) # s

ExpectInv == \A l \in Links : Expecting(l) => con[Me(l)].status = "CONNECTING" /\ ~exited[Me(l)]
Waits(w) ==
  LET a == web[w]
  IN /\ a.pc = "create" => con[a.slot].status = "CONNECTING" /\ ~exited[a.slot]
     /\ \A s \in a.exits : Unexpected(s)
     /\ a.pc # "exit" => a.exits = {}
WebsWait == \A w \in Actors : Waits(w)
Uncut == /\ \A s \in Slots : con[s].bt = 0
         /\ \A l \in Links : link[l].pc \notin {"lost", "again"}
ExitInv == ExpectInv /\ WebsWait /\ Uncut /\ ExitSticks

\* No recording server closes a connection.
NoFin == \A l \in Links : peer[l] # "fin"

LEMMA ExitInit == Init => ExitInv /\ NoFin
<1> SUFFICES ASSUME Init PROVE ExitInv /\ NoFin
  OBVIOUS
<1>1. /\ \A l \in Links : Me(l) = 0 /\ link[l].pc = "none"
      /\ \A w \in Actors : web[w].pc = "next" /\ web[w].exits = {}
  BY DEF Init, NoThread, Idle, Me
<1>2. \A l \in Links : ~Expecting(l)
  BY <1>1 DEF Expecting
<1>3. Uncut /\ ExitSticks /\ NoFin
  BY <1>1 DEF Init, Uncut, ExitSticks, NoFin, Cleared
<1> QED BY <1>1, <1>2, <1>3 DEF ExitInv, ExpectInv, WebsWait, Waits

\* A step of the link thread l, or of none: its slot stays in its state, or is made OK by
\* the thread that was expecting it.
LEMMA ExitKept ==
  ASSUME SlotsApart, TypeOK, CalmInv, ExitInv, UNCHANGED <<web, exited>>, NEW l \in Links,
         \A k \in Links : /\ Expecting(k)' => Expecting(k) /\ Me(k)' = Me(k)
                          /\ link'[k].pc \notin {"lost", "again"},
         \A s \in Slots : con'[s].bt = con[s].bt,
         \A s \in Slots : \/ con'[s].status = con[s].status
                          \/ s = Me(l) /\ Expecting(l) /\ ~Expecting(l)'
  PROVE  ExitInv'
<1>1. \A k \in Links : Expecting(k) => Me(k) \in Slots
  BY ThreadFields DEF Expecting, Me
<1>2. ExpectInv'
  <2> SUFFICES ASSUME NEW k \in Links, Expecting(k)'
               PROVE  con'[Me(k)].status = "CONNECTING" /\ ~exited[Me(k)] /\ Me(k)' = Me(k)
    BY DEF ExpectInv
  <2>1. Expecting(k) /\ Me(k) \in Slots /\ Me(k)' = Me(k)
    BY <1>1
  <2>2. Me(k) = Me(l) /\ Expecting(l) => k = l
    BY <2>1 DEF CalmInv, LifeInv, Expecting
  <2> QED BY <2>1, <2>2 DEF ExitInv, ExpectInv
<1>3. WebsWait'
  <2> SUFFICES ASSUME NEW w \in Actors PROVE Waits(w)'
    BY DEF WebsWait
  <2>1. Waits(w) /\ web[w].exits \subseteq Slots
        /\ (web[w].pc = "create" => web[w].slot \in Slots /\ web[w].slot # Me(l))
    BY DEF ExitInv, WebsWait, TypeOK, Actor, SlotsApart, Doing
  <2>2. \A s \in web[w].exits : Unexpected(s)'
    BY <2>1 DEF Waits, Unexpected
  <2>3. web[w].pc = "create" => con'[web[w].slot].status = con[web[w].slot].status
    BY <2>1
  <2> QED BY <2>1, <2>2, <2>3 DEF Waits
<1>4. ExitSticks'
  <2> SUFFICES ASSUME NEW s \in Slots, exited[s] PROVE con'[s].status = "CLOSE"
    BY DEF ExitSticks
  <2>1. ~(s = Me(l) /\ Expecting(l))
    BY DEF ExitInv, ExpectInv
  <2> QED BY <2>1 DEF ExitInv, ExitSticks
<1>5. Uncut'
  BY DEF ExitInv, Uncut
<1> QED BY <1>2, <1>3, <1>4, <1>5 DEF ExitInv

\* A thread that moves within its slot.
LEMMA ChangeExit ==
  ASSUME SlotsApart, TypeOK, CalmInv, ExitInv, UNCHANGED <<web, exited>>,
         NEW l \in Links, link[l].pc # "none", NEW from, NEW to, NEW status, NEW tcp, NEW udp,
         Change(l, from, to, status, 0, tcp, udp), OthersGreeted(l),
         to \notin {"lost", "again"}, Expecting(l)' => Expecting(l),
         status = con[Me(l)].status \/ (Expecting(l) /\ ~Expecting(l)')
  PROVE  ExitInv'
<1>1. /\ \A k \in Links : Me(k)' = Me(k)
      /\ link'[l].pc = to /\ \A k \in Links \ {l} : link'[k].pc = link[k].pc
  BY DEF Change, Moves, Me
<1>2. \A k \in Links : /\ Expecting(k)' => Expecting(k)
                       /\ link'[k].pc \notin {"lost", "again"}
  BY <1>1 DEF OthersGreeted, Expecting, ExitInv, Uncut
<1>3. \A s \in Slots : con'[s].bt = con[s].bt
  BY DEF Change, ExitInv, Uncut
<1>4. \A s \in Slots : con'[s].status = con[s].status \/ s = Me(l)
  BY DEF Change
<1>5. con'[Me(l)].status = status
  BY DEF Change
<1> QED BY <1>1, <1>2, <1>3, <1>4, <1>5, ExitKept

LEMMA LinkExit ==
  ASSUME NoFin, SlotsApart, TypeOK, CalmInv, ExitInv, NEW l \in Links, Effect(l),
         UNCHANGED <<web, exited>>
  PROVE  ExitInv'
<1> DEFINE c == con[Me(l)]
           g == link[l].greeted >= MaxFirewalls
<1>0. /\ link[l].pc # "none" /\ link[l].pc \notin {"lost", "again"}
      /\ Me(l) \in Slots /\ Me(l) # 0 /\ c.bt = 0 /\ Sound(l)
  <2>1. link[l].pc # "none"
    BY DEF Effect, LoginEffect, LoopEffect, LeavingEffect, OKEffect, HeartlessEffect, Change,
       Start, Ends
  <2> QED BY <2>1, ThreadFields, Constants DEF ExitInv, Uncut, CalmInv, LifeInv
<1>1. ASSUME NEW from, NEW to, NEW status, NEW bt, NEW tcp, NEW udp,
             Change(l, from, to, status, bt, tcp, udp)
      PROVE  link[l].pc \in from /\ link'[l].pc = to /\ Me(l)' = Me(l)
  BY <1>1 DEF Change, Moves, Me
\* The places a thread that expects nothing moves to, and those of one that does.
<1>2. ASSUME NEW from, NEW to \in {"flag", "heart", "exit", "zero", "check"},
             NEW tcp, NEW udp, Change(l, from, to, c.status, 0, tcp, udp), OthersGreeted(l)
      PROVE  ExitInv'
  <2>1. ~Expecting(l)'
    BY <1>1, <1>2 DEF Expecting, Trying
  <2> QED BY <1>0, <1>2, <2>1, ChangeExit
<1>3. ASSUME NEW from, NEW to \in Start \cup {"test", "ok"},
             NEW tcp, NEW udp, Change(l, from, to, c.status, 0, tcp, udp), OthersGreeted(l),
             from \in {Start, {"request"}, {"fire"}}
      PROVE  ExitInv'
  <2>1. Expecting(l)
    BY <1>0, <1>1, <1>3 DEF Expecting, Trying, Start
  <2> QED BY <1>0, <1>3, <2>1, ChangeExit DEF Start
<1>4. CASE LoginEffect(l)
  BY <1>0, <1>2, <1>3, <1>4 DEF LoginEffect, Greeted
<1>5. CASE LoopEffect(l)
  <2>1. ASSUME NEW p \in {"test", "poll"}, Greeted(l),
               Change(l, {"test", "poll", "heart"}, p, c.status, 0, c.tcp, c.udp)
        PROVE  ExitInv'
    <3>1. Expecting(l)' => Expecting(l)
      BY <1>0, <1>1, <2>1 DEF Expecting, Trying, Greeted, Sound
    <3> QED BY <1>0, <2>1, <3>1, ChangeExit DEF Greeted
  <2>2. ASSUME Change(l, {"poll"}, "fire", c.status, 0, c.tcp, c.udp),
               c.tcp \in Links, link[c.tcp].greeted < MaxFirewalls,
               \A k \in Links \ {c.tcp} : link'[k].greeted = link[k].greeted
        PROVE  ExitInv'
    <3>1. c.tcp = l /\ link[l].pc = "poll"
      BY <1>0, <1>1, <2>2 DEF Sound
    <3>2. Expecting(l)
      <4>1. link[l].greeted \in 0..MaxFirewalls /\ MaxFirewalls \in Nat
        BY ThreadFields, Constants DEF Thread
      <4> QED BY <1>0, <2>2, <3>1, <4>1 DEF Expecting
    <3>3. OthersGreeted(l)
      BY <2>2, <3>1 DEF OthersGreeted
    <3> QED BY <1>0, <2>2, <3>2, <3>3, ChangeExit
  <2>3. ~(c.tcp \in Links /\ peer[c.tcp] = "fin")
    BY DEF NoFin
  <2>4. ASSUME Change(l, {"lost"}, "test", c.status, 1, c.tcp, c.udp) PROVE FALSE
    BY <1>0, <1>1, <2>4
  <2> QED BY <1>0, <1>2, <1>3, <1>5, <2>1, <2>2, <2>3, <2>4 DEF LoopEffect, Greeted
<1>6. CASE LeavingEffect(l) /\ ~Ends(l)
  <2>1. ASSUME Change(l, {"again"}, "connect", "CONNECTING", c.bt, c.tcp, c.udp) PROVE FALSE
    BY <1>0, <1>1, <2>1
  <2>2. ASSUME Change(l, {"exit"}, "zero", c.status, c.bt, c.tcp, c.udp), OthersGreeted(l)
        PROVE  ExitInv'
    BY <1>0, <1>2, <2>2
  <2>3. ASSUME Change(l, {"zero"}, "check", c.status, c.bt, 0, FALSE), OthersGreeted(l)
        PROVE  ExitInv'
    BY <1>0, <1>2, <2>3
  <2>4. c.bt # 1
    BY <1>0
  <2> QED BY <1>6, <2>1, <2>2, <2>3, <2>4, Zenon DEF LeavingEffect, Greeted
<1>7. CASE Ends(l)
  <2>1. /\ link \in [Links -> Thread] /\ \A k \in Links \ {l} : link'[k] = link[k]
        /\ link'[l].pc = "none" /\ Me(l)' = 0 /\ con' = con
    BY <1>7 DEF Ends, TypeOK, NoThread, Me
  <2>2. \A k \in Links : /\ Expecting(k)' => Expecting(k) /\ Me(k)' = Me(k)
                         /\ link'[k].pc \notin {"lost", "again"}
    BY <2>1 DEF Expecting, Me, ExitInv, Uncut
  <2> QED BY <2>1, <2>2, ExitKept
<1>8. CASE OKEffect(l)
  <2>1. Change(l, {"ok"}, "clear", "OK", 0, c.tcp, c.udp) /\ OthersGreeted(l)
    BY <1>0, <1>8 DEF OKEffect, Greeted
  <2>2. Expecting(l) /\ ~Expecting(l)'
    BY <1>0, <1>1, <2>1 DEF Expecting, Trying
  <2> QED BY <1>0, <2>1, <2>2, ChangeExit
<1>9. CASE HeartlessEffect(l)
  BY <1>0, <1>2, <1>9 DEF HeartlessEffect, Greeted
<1> QED BY <1>4, <1>5, <1>6, <1>7, <1>8, <1>9 DEF Effect

LEMMA CommandExit ==
  ASSUME SlotsApart, TypeOK, ExitInv, NEW w \in Actors, CommandEffect(w)
  PROVE  ExitInv'
<1> DEFINE a == web[w]
           b == web'[w]
<1>0. /\ \A v \in Actors : /\ web[v].pc \in {"init", "create"} => web[v].slot \in Slots
                           /\ web[v].exits \subseteq Slots
      /\ \A l \in Links : Expecting(l) => Me(l) \in Slots
      /\ link \in [Links -> Thread] /\ 0 \notin Slots
      /\ \A v \in Actors \ {w} : web'[v] = web[v]
  BY ThreadFields, Constants DEF TypeOK, Actor, CommandEffect, Me, Expecting
\* A web thread that leaves the table alone.
<1>1. ASSUME UNCHANGED <<con, link, exited>>, b.pc # "create",
             \A s \in b.exits : Unexpected(s), b.pc # "exit" => b.exits = {}
      PROVE  ExitInv'
  <2>1. /\ \A l \in Links : (Expecting(l)' <=> Expecting(l)) /\ Me(l)' = Me(l)
        /\ \A s : Unexpected(s) => Unexpected(s)'
    BY <1>1 DEF Expecting, Unexpected, Me
  <2>2. WebsWait'
    <3> SUFFICES ASSUME NEW v \in Actors PROVE Waits(v)'
      BY DEF WebsWait
    <3>1. CASE v = w
      BY <1>1, <2>1, <3>1 DEF Waits
    <3>2. CASE v # w
      BY <1>0, <1>1, <2>1, <3>2 DEF ExitInv, WebsWait, Waits
    <3> QED BY <3>1, <3>2
  <2> QED BY <1>1, <2>1, <2>2 DEF ExitInv, ExpectInv, Uncut, ExitSticks, Me
\* One that changes a slot nobody expects anything of.
<1>2. ASSUME UNCHANGED link, NEW s \in Slots, Unexpected(s), Elsewhere(s), con'[s].bt = 0,
             exited'[s] => con'[s].status = "CLOSE",
             b.exits \subseteq a.exits, b.pc # "exit" => b.exits = {},
             b.pc = "create" => s = b.slot /\ con'[s].status = "CONNECTING" /\ ~exited'[s],
             \A v \in Actors \ {w} : web[v].pc = "create" => web[v].slot # s
      PROVE  ExitInv'
  <2>1. /\ \A t \in Slots \ {s} : con'[t] = con[t] /\ exited'[t] = exited[t]
        /\ \A l \in Links : Me(l)' = Me(l) /\ (Expecting(l)' <=> Expecting(l))
        /\ \A t : Unexpected(t) => Unexpected(t)'
    BY <1>2 DEF Elsewhere, Me, Expecting, Unexpected
  <2>2. ExpectInv'
    BY <1>0, <1>2, <2>1 DEF ExitInv, ExpectInv, Unexpected
  <2>3. WebsWait'
    <3> SUFFICES ASSUME NEW v \in Actors PROVE Waits(v)'
      BY DEF WebsWait
    <3>1. CASE v = w
      BY <1>2, <2>1, <3>1 DEF ExitInv, WebsWait, Waits
    <3>2. CASE v # w
      BY <1>0, <1>2, <2>1, <3>2 DEF ExitInv, WebsWait, Waits
    <3> QED BY <3>1, <3>2
  <2>4. Uncut' /\ ExitSticks'
    BY <1>2, <2>1 DEF ExitInv, Uncut, ExitSticks
  <2> QED BY <2>2, <2>3, <2>4 DEF ExitInv
<1>3. ASSUME a.pc = "create", UNCHANGED <<con, exited>>, b.pc = "next", b.exits = {},
             NEW l \in Links, link[l] = NoThread, NEW t \in Thread,
             link' = [link EXCEPT ![l] = t], t.slot = a.slot, t.pc = "connect"
      PROVE  ExitInv'
  <2>1. /\ a.slot \in Slots /\ Me(l)' = a.slot /\ link'[l].pc = "connect"
        /\ \A k \in Links \ {l} : link'[k] = link[k] /\ Me(k)' = Me(k)
    BY <1>0, <1>3 DEF Me
  <2>2. con[a.slot].status = "CONNECTING" /\ ~exited[a.slot]
    BY <1>3 DEF ExitInv, WebsWait, Waits
  <2>3. \A k \in Links \ {l} : Expecting(k)' <=> Expecting(k)
    BY <2>1 DEF Expecting
  <2>4. ExpectInv'
    BY <1>3, <2>1, <2>2, <2>3 DEF ExitInv, ExpectInv
  <2>5. \A s : s # a.slot /\ Unexpected(s) => Unexpected(s)'
    BY <2>1, <2>3 DEF Unexpected
  <2>6. \A v \in Actors \ {w} : a.slot \notin web[v].exits
    BY <1>3 DEF SlotsApart, WebsApart, Doing
  <2>7. WebsWait'
    <3> SUFFICES ASSUME NEW v \in Actors PROVE Waits(v)'
      BY DEF WebsWait
    <3>1. CASE v = w
      BY <1>3, <3>1 DEF Waits
    <3>2. CASE v # w
      BY <1>0, <1>3, <2>5, <2>6, <3>2 DEF ExitInv, WebsWait, Waits
    <3> QED BY <3>1, <3>2
  <2>8. Uncut' /\ ExitSticks'
    BY <1>3, <2>1 DEF ExitInv, Uncut, ExitSticks
  <2> QED BY <2>4, <2>7, <2>8 DEF ExitInv
<1>4. ASSUME UNCHANGED <<con, link, exited>>, b.pc = "next", b.exits = {} PROVE ExitInv'
  BY <1>1, <1>4
<1>5. ASSUME UNCHANGED <<con, link, exited>>, a.pc = "next", b.pc = "init", b.exits = a.exits
      PROVE  ExitInv'
  <2>1. a.exits = {}
    BY <1>5 DEF ExitInv, WebsWait, Waits
  <2> QED BY <1>1, <1>5, <2>1
<1>6. ASSUME UNCHANGED <<con, link, exited>>, a.pc = "next", b.pc = "exit", b.exits = Used(Ip(w))
      PROVE  ExitInv'
  <2>1. \A s \in Used(Ip(w)) : Unexpected(s)
    BY DEF Used, ExitInv, ExpectInv, Unexpected
  <2> QED BY <1>1, <1>6, <2>1
<1>7. ASSUME a.pc = "init", b.pc = "create", b.slot = a.slot, b.exits = a.exits,
             UNCHANGED link, Elsewhere(a.slot), ~exited'[a.slot],
             con'[a.slot].status = "CONNECTING", con'[a.slot].bt = 0
      PROVE  ExitInv'
  <2>1. /\ a.slot \in Slots /\ Unexpected(a.slot) /\ a.exits = {}
        /\ \A v \in Actors \ {w} : web[v].pc = "create" => web[v].slot # a.slot
    BY <1>0, <1>7 DEF ExitInv, WebsWait, Waits, SlotsApart, WebsApart, Doing, Unexpected
  <2> QED BY <1>2, <1>7, <2>1
<1>8. ASSUME a.pc = "exit", b.pc = "exit", UNCHANGED link, NEW s \in a.exits,
             b.exits = a.exits \ {s}, Elsewhere(s), exited'[s], con'[s].status = "CLOSE",
             con'[s].bt = 0
      PROVE  ExitInv'
  <2>1. /\ s \in Slots /\ Unexpected(s)
        /\ \A v \in Actors \ {w} : web[v].pc = "create" => web[v].slot # s
    BY <1>0, <1>8 DEF ExitInv, WebsWait, Waits, SlotsApart, WebsApart, Doing
  <2> QED BY <1>2, <1>8, <2>1
<1> QED BY <1>3, <1>4, <1>5, <1>6, <1>7, <1>8 DEF CommandEffect, ghosts

LEMMA StepExit ==
  ASSUME NoFin, SlotsApart, TypeOK, CalmInv, ExitInv, StepEffect
  PROVE  ExitInv'
<1>1. ASSUME NEW l \in Links, Effect(l), UNCHANGED <<web, exited>> PROVE ExitInv'
  BY <1>1, LinkExit
<1>2. ASSUME DataEffect PROVE ExitInv'
  <2>1. Calm
    BY <1>2, CalmData DEF CalmInv
  <2>2. /\ UNCHANGED <<link, web, exited>>
        /\ \A s \in Slots : con'[s].bt = con[s].bt /\ con'[s].status = con[s].status
    BY <2>1 DEF Calm, Same, ghosts
  <2>3. /\ \A l \in Links : /\ Expecting(l)' <=> Expecting(l)
                            /\ Me(l)' = Me(l) /\ (Expecting(l) => Me(l) \in Slots)
        /\ \A s : Unexpected(s) => Unexpected(s)'
    BY <2>2, ThreadFields DEF Expecting, Unexpected, Me
  <2>4. \A w \in Actors : web[w].pc = "create" => web[w].slot \in Slots
    BY DEF TypeOK, Actor
  <2> QED BY <2>2, <2>3, <2>4 DEF ExitInv, ExpectInv, WebsWait, Waits, Uncut, ExitSticks
<1> QED BY <1>1, <1>2, CommandExit DEF StepEffect

LEMMA NextNoFin ==
  ASSUME "fin" \notin Faults, TypeOK, NoFin, [Next]_vars
  PROVE  NoFin'
<1>0. peer \in [Links -> {"none", "up", "fin"}]
  BY DEF TypeOK
<1>1. ASSUME peer' = peer PROVE NoFin'
  BY <1>1 DEF NoFin
<1>2. ASSUME NEW l \in Links, Login(l) PROVE NoFin'
  BY <1>0, <1>2 DEF NoFin, Login, ConnectOK, ConnectFails, PasswordOK, PasswordFails, VerifyDone,
     VerifyFails, RequestOK, RequestFails
<1>3. ASSUME NEW l \in Links, RecvLoop(l) PROVE peer' = peer
  BY <1>3 DEF RecvLoop, LoopTest, PollNothing, PollClosed, Lost, PollFirewall, FirePacks,
     FireFails, FireOK, FireClears, FireFlags, StartHeart, HeartFails
<1>4. ASSUME NEW l \in Links, Leaving(l) PROVE NoFin'
  BY <1>0, <1>4 DEF NoFin, Leaving, ExitClose, ExitForget, ExitCheck, Reconnect
<1>5. ASSUME NEW l \in Links, PeerCloses(l) PROVE FALSE
  BY <1>5 DEF PeerCloses
<1>6. ASSUME NEW w \in Actors, Command(w) PROVE peer' = peer
  BY <1>6 DEF Command, FindFree, InitSlot, CreateFails, FindUsed, ExitsDone, CreateLink, ExitLink
<1>7. ASSUME DataStep PROVE peer' = peer
  BY <1>7 DEF DataStep, DataScan, DataGivesUp, DataTimeout, DataVisit
<1>8. ASSUME NEW l \in Links, LinkStep(l) PROVE NoFin'
  BY <1>1, <1>2, <1>3, <1>4, <1>8 DEF LinkStep
<1> QED BY <1>1, <1>5, <1>6, <1>7, <1>8 DEF Next, HeartEnds, Receive, vars

\* "Leave the server" (connect_rec_server.c:1206) sticks: a slot that was exited is not
\* connected again before its next initialisation, for any table, rooms, requests and
\* threads, with and without the reports.  Premises: no link is cut (the cut of a link
\* and its exit cross in m_bt_connect), threads can be created, and no web thread works on
\* a slot that another thread still has: the code leaves that to luck, and an exited slot
\* looks free while its link thread is on its way out; the thread then takes the sockets
\* of the room that got the slot, the data thread finds it silent, and a second exit is
\* undone by the m_bt_connect that the data thread sets.
THEOREM ExitHolds ==
  ASSUME "fin" \notin Faults, "udp" \notin Faults, "thread" \notin Faults, MaxFirewalls =< 1
  PROVE  /\ Spec /\ []SlotsApart => []ExitSticks
         /\ RepSpec /\ []SlotsApart => []ExitSticks
<1> DEFINE I == CalmInv /\ ExitInv /\ NoFin
<1>1. Init => I
  BY CalmInit, ExitInit
<1>2. TypeOK /\ SlotsApart /\ I /\ [Next]_vars => I'
  BY CalmNext, StepExit, NextEffect, NextNoFin
<1>3. ASSUME TypeOK, SlotsApart, I, [RepNext]_repVars PROVE I'
  <2>1. CalmInv' /\ ExitInv'
    BY <1>3, RepCalmNext, RepNextEffect, StepExit
  <2>2. NoFin'
    <3>1. CASE ReportStep
      BY <1>3, <3>1 DEF ReportStep, StartReports, CountSlot, ClearFlag, CopySlot, PostOK,
         PostFails, vars, NoFin
    <3> QED BY <1>3, <3>1, NextNoFin DEF RepNext, repVars
  <2> QED BY <2>1, <2>2
<1>4. I => ExitSticks
  BY DEF ExitInv
<1>5. (RepInit => Init) /\ (RepInv => TypeOK)
  BY RepParts DEF RepInit
<1> HIDE DEF I
<1>6. Spec /\ []SlotsApart => []ExitSticks
  BY <1>1, <1>2, <1>4, TypeCorrect, PTL DEF Spec
<1>7. RepSpec /\ []SlotsApart => []ExitSticks
  BY <1>1, <1>3, <1>4, <1>5, RepInvariance, PTL DEF RepSpec
<1> QED BY <1>6, <1>7

\* So without any premise on the threads where a single room is recorded: whenever, and
\* however often, web threads exit it while it logs in, receives or is reported.
THEOREM OneRoomExit ==
  ASSUME "fin" \notin Faults, "udp" \notin Faults, "thread" \notin Faults, MaxFirewalls =< 1,
         SingleRoom
  PROVE  (Spec => []ExitSticks) /\ (RepSpec => []ExitSticks)
BY OneRoomAlways, ExitHolds, PTL

-----------------------------------------------------------------------------
(***************************************************************************)
(* The premise also holds while no link is cut or exited: a slot with a    *)
(* link thread is not CLOSE then, so no web thread finds it free.          *)
(***************************************************************************)
Joining == Tasks(Int \ {ALL})
JoinsOnly == \A w \in Actors : /\ web[w].todo \in Seq(Joining)
                               /\ web[w].pc # "exit" /\ web[w].exits = {}
StartInv ==
  /\ JoinsOnly /\ NoFin
  /\ \A l \in Links : Me(l) # 0 => con[Me(l)].status # "CLOSE"
  /\ \A w \in Actors : Doing(w, "init") \/ Doing(w, "create") =>
       \A l \in Links : Me(l) # web[w].slot
  /\ \A w \in Actors : Doing(w, "create") => con[web[w].slot].status # "CLOSE"

LEMMA JoinsInit == Init => JoinsOnly
<1> SUFFICES ASSUME Init, NEW w \in Actors
             PROVE  web[w].todo \in Seq(Joining) /\ web[w].pc # "exit" /\ web[w].exits = {}
  BY DEF JoinsOnly
<1>1. web[w] = Idle(IF w = "report" THEN Boot ELSE <<>>)
  BY DEF Init
<1>2. Boot \in Seq(Joining)
  <2>1. Boot \in Seq(Server) /\ \A b \in Range(Boot) : -1 \notin Range(b.rooms)
    BY RoomAssumption DEF Server
  <2>2. ASSUME NEW i \in 1..Len(Boot) PROVE Boot[i] \in Joining
    <3>1. Boot[i] \in Server /\ Boot[i] \in Range(Boot)
      BY <2>1 DEF Range
    <3>2. /\ Boot[i].rooms \in Seq(Int) /\ Boot[i].rooms # <<>> /\ Boot[i].ip \in Boxes
          /\ -1 \notin Range(Boot[i].rooms)
          /\ Boot[i] = [ip |-> Boot[i].ip, rooms |-> Boot[i].rooms]
      BY <2>1, <3>1 DEF Server
    <3>3. \A j \in 1..Len(Boot[i].rooms) : Boot[i].rooms[j] \in Int \ {ALL}
      BY <3>2 DEF Range, ALL
    <3>4. Boot[i].rooms \in Seq(Int \ {ALL})
      BY <3>2, <3>3
    <3> QED BY <3>2, <3>4, Zenon DEF Joining, Tasks
  <2> QED BY <2>1, <2>2
<1>3. /\ web[w].todo = (IF w = "report" THEN Boot ELSE <<>>)
      /\ web[w].pc = "next" /\ web[w].exits = {}
  BY <1>1 DEF Idle
<1> QED BY <1>2, <1>3

\* A request that exits nothing.
LEMMA RequestJoins ==
  ASSUME NEW ip \in Boxes, NEW r \in Requests, ALL \notin Range(r)
  PROVE  <<[ip |-> ip, rooms |-> Entries(r)]>> \in Seq(Joining)
<1>1. r \in Seq(Int) /\ ROOM_ID_MAX \in Nat \ {0}
  BY RoomAssumption, TableAssumption
<1>2. Entries(r) \in Seq(Int) \ {<<>>} /\ Len(Entries(r)) = ROOM_ID_MAX
  BY <1>1, EntriesType DEF Entries
<1>3. ASSUME NEW i \in 1..ROOM_ID_MAX PROVE Entries(r)[i] \in Int \ {ALL}
  <2>1. CASE i =< Len(r)
    BY <1>1, <2>1 DEF Entries, Range
  <2>2. CASE ~(i =< Len(r))
    BY <1>1, <2>2 DEF Entries, UNSET, ALL
  <2> QED BY <2>1, <2>2
<1>4. Entries(r) \in Seq(Int \ {ALL}) \ {<<>>}
  BY <1>2, <1>3
<1> DEFINE e == [ip |-> ip, rooms |-> Entries(r)]
<1>5. e \in Joining
  BY <1>4, Zenon DEF Joining, Tasks
<1>6. \A x \in Joining : <<x>> \in Seq(Joining)
  OBVIOUS
<1> QED BY <1>5, <1>6

LEMMA JoinsStep ==
  ASSUME \A r \in Requests : ALL \notin Range(r), TypeOK, JoinsOnly, [Next]_vars
  PROVE  JoinsOnly'
<1>0. web \in [Actors -> Actor] /\ \A w \in Actors : web[w] \in Actor
  BY DEF TypeOK
<1>1. ASSUME web' = web PROVE JoinsOnly'
  BY <1>1 DEF JoinsOnly
<1>2. ASSUME NEW w \in Actors, NEW r, Update(w, r), r.todo \in Seq(Joining), r.pc # "exit",
             r.exits = {}
      PROVE  JoinsOnly'
  BY <1>0, <1>2 DEF JoinsOnly, Update
<1>3. \A t : Idle(t).todo = t /\ Idle(t).pc = "next" /\ Idle(t).exits = {}
  BY DEF Idle
<1>4. ASSUME NEW w \in Actors, Command(w) PROVE JoinsOnly'
  <2>0. /\ web[w].todo \in Seq(Joining) /\ web[w].pc # "exit" /\ web[w].todo # <<>>
        /\ web[w].exits = {}
    BY <1>4 DEF JoinsOnly, TypeOK, Command, FindFree, FindUsed, InitSlot, CreateLink,
       CreateFails, ExitsDone, ExitLink, HasRoom, Doing
  <2>1. /\ Room(w) # ALL /\ NextRoom(w).todo \in Seq(Joining)
        /\ NextRoom(w).pc = "next" /\ NextRoom(w).exits = {}
        /\ Tail(web[w].todo) \in Seq(Joining)
    BY <2>0, RestTasks DEF Joining
  <2>2. CASE FindFree(w)
    <3>1. ASSUME Update(w, Idle(Tail(web[w].todo))) PROVE JoinsOnly'
      BY <1>2, <1>3, <2>1, <3>1
    <3>2. ASSUME NEW s, Update(w, [web[w] EXCEPT !.pc = "init", !.slot = s]) PROVE JoinsOnly'
      <4> DEFINE r == [web[w] EXCEPT !.pc = "init", !.slot = s]
      <4>1. r.todo = web[w].todo /\ r.pc = "init" /\ r.exits = web[w].exits
        BY <1>0 DEF Actor
      <4> HIDE DEF r
      <4> QED BY <1>2, <2>0, <3>2, <4>1 DEF r
    <3> QED BY <2>2, <3>1, <3>2 DEF FindFree
  <2>3. CASE InitSlot(w)
    <3> DEFINE r == [web[w] EXCEPT !.pc = "create"]
    <3>1. /\ r.todo = web[w].todo /\ r.pc = "create" /\ r.exits = web[w].exits
          /\ Update(w, r)
      BY <1>0, <2>3 DEF Actor, InitSlot
    <3> HIDE DEF r
    <3> QED BY <1>2, <2>0, <3>1
  <2>4. CASE \E l \in Links : CreateLink(w, l)
    <3>1. Update(w, NextRoom(w))
      BY <2>4 DEF CreateLink
    <3> QED BY <1>2, <2>1, <3>1
  <2>5. CASE CreateFails(w)
    <3>1. Update(w, NextRoom(w)) \/ Update(w, Idle(Tail(web[w].todo)))
      BY <2>5 DEF CreateFails
    <3> HIDE DEF Idle
    <3> QED BY <1>2, <1>3, <2>1, <3>1
  <2> QED BY <1>4, <2>0, <2>1, <2>2, <2>3, <2>4, <2>5
          DEF Command, FindUsed, ExitsDone, ExitLink, Doing
<1>5. ASSUME NEW w \in Actors, NEW ip \in Boxes, NEW r \in Requests, Receive(w, ip, r)
      PROVE  JoinsOnly'
  <2>1. Update(w, Idle(<<[ip |-> ip, rooms |-> Entries(r)]>>))
    BY <1>5 DEF Receive
  <2>2. <<[ip |-> ip, rooms |-> Entries(r)]>> \in Seq(Joining)
    BY RequestJoins
  <2> HIDE DEF Idle
  <2> QED BY <1>2, <1>3, <2>1, <2>2
<1>6. ASSUME NEW l \in Links, LinkStep(l) PROVE web' = web
  BY <1>6, LinkEffects
<1> QED BY <1>1, <1>4, <1>5, <1>6 DEF Next, PeerCloses, HeartEnds, DataStep, DataScan,
           DataGivesUp, DataTimeout, DataVisit, others, vars

\* The slots of the threads, whatever kind of step is taken.
LEMMA StartStep ==
  ASSUME WebsApart, TypeOK, CalmInv, StartInv, JoinsOnly', NoFin', StepEffect
  PROVE  StartInv'
<1>0. /\ \A l \in Links : Me(l) # 0 => Me(l) \in Slots
      /\ \A w \in Actors : Doing(w, "init") \/ Doing(w, "create") =>
                             web[w].slot \in Slots /\ web[w].slot # 0
      /\ link \in [Links -> Thread]
  BY ThreadFields, Constants DEF Me, TypeOK, Doing, Actor
<1>1. ASSUME NEW l \in Links, Effect(l), UNCHANGED <<timedOut, web, exited>> PROVE StartInv'
  <2>1. \A k \in Links : Me(k)' = Me(k) \/ Me(k)' = 0
    <3>1. CASE Ends(l)
      BY <1>0, <3>1 DEF Ends, NoThread, Me
    <3>2. ASSUME NEW p, Moves(l, p) PROVE \A k \in Links : Me(k)' = Me(k)
      BY <3>2 DEF Moves, Me
    <3>3. CASE ~Ends(l)
      <4>1. \E p : Moves(l, p)
        BY <1>1, <3>3 DEF Effect, LoginEffect, LoopEffect, LeavingEffect, OKEffect,
           HeartlessEffect, Change
      <4> QED BY <3>2, <4>1
    <3> QED BY <3>1, <3>3
  <2>2. Me(l) \in Slots
    BY <1>1, ThreadFields DEF Effect, LoginEffect, LoopEffect, LeavingEffect, OKEffect,
       HeartlessEffect, Change, Start, Ends, Me
  <2>3. \A s \in Slots \ {Me(l)} : con'[s] = con[s]
    BY <1>1 DEF Effect, LoginEffect, LoopEffect, LeavingEffect, OKEffect, HeartlessEffect,
       Change, Ends
  <2>4. con[Me(l)].status # "CLOSE" /\ Me(l) # 0
    BY <2>2, Constants DEF StartInv
  <2>5. con'[Me(l)].status # "CLOSE"
    <3>1. CASE LoginEffect(l)
      BY <2>4, <3>1 DEF LoginEffect, Change
    <3>2. CASE LoopEffect(l)
      <4>1. \A k \in Links : peer[k] # "fin"
        BY DEF StartInv, NoFin
      <4> QED BY <2>4, <3>2, <4>1 DEF LoopEffect, Change
    <3>3. CASE LeavingEffect(l)
      BY <2>4, <3>3 DEF LeavingEffect, Change, Ends
    <3>4. CASE OKEffect(l) \/ HeartlessEffect(l)
      BY <2>4, <3>4 DEF OKEffect, HeartlessEffect, Change
    <3> QED BY <1>1, <3>1, <3>2, <3>3, <3>4 DEF Effect
  <2> QED BY <1>0, <1>1, <2>1, <2>3, <2>4, <2>5 DEF StartInv, Doing
<1>2. ASSUME NEW w \in Actors, CommandEffect(w), UNCHANGED timedOut PROVE StartInv'
  <2> DEFINE a == web[w]
             b == web'[w]
  <2>0. /\ \A v \in Actors \ {w} : web'[v] = web[v]
        /\ a.pc # "exit" /\ b.pc # "exit"
    BY <1>2 DEF CommandEffect, StartInv, JoinsOnly
  <2>1. CASE UNCHANGED <<con, link>> /\ b.pc = "next"
    BY <1>2, <2>0, <2>1 DEF StartInv, Doing, Me
  <2>2. CASE UNCHANGED <<con, link>> /\ b.pc = "init" /\ b.slot \in Free
    <3>1. \A l \in Links : Me(l) # b.slot
      BY <1>0, <2>2, Constants DEF Free, StartInv
    <3> QED BY <1>2, <2>0, <2>2, <3>1 DEF StartInv, Doing, Me
  <2>3. CASE /\ a.pc = "init" /\ b.pc = "create" /\ b.slot = a.slot
             /\ UNCHANGED link /\ Elsewhere(a.slot) /\ con'[a.slot].status = "CONNECTING"
    <3>1. \A l \in Links : Me(l)' = Me(l) /\ Me(l) # a.slot
      BY <2>3 DEF StartInv, Doing, Me
    <3>2. \A s \in Slots : con'[s].status = "CLOSE" => con[s].status = "CLOSE"
      BY <2>3 DEF Elsewhere
    <3> QED BY <1>0, <1>2, <2>0, <2>3, <3>1, <3>2 DEF StartInv, Doing
  <2>4. ASSUME a.pc = "create", b.pc = "next", UNCHANGED con,
               NEW l \in Links, NEW t \in Thread, link' = [link EXCEPT ![l] = t],
               t.slot = a.slot
        PROVE  StartInv'
    <3>1. Me(l)' = a.slot /\ \A k \in Links \ {l} : Me(k)' = Me(k)
      BY <1>0, <2>4 DEF Me
    <3>2. con[a.slot].status # "CLOSE"
      BY <2>4 DEF StartInv, Doing
    <3>3. \A v \in Actors \ {w} : Doing(v, "init") \/ Doing(v, "create") => web[v].slot # a.slot
      BY <2>4 DEF WebsApart, Doing
    <3> QED BY <1>2, <2>0, <2>4, <3>1, <3>2, <3>3 DEF StartInv, Doing
  <2> QED BY <1>2, <2>0, <2>1, <2>2, <2>3, <2>4 DEF CommandEffect, ghosts
<1>3. ASSUME DataEffect PROVE StartInv'
  <2>1. Calm
    BY <1>3, CalmData DEF CalmInv
  <2> QED BY <1>0, <2>1 DEF Calm, Same, StartInv, Doing, Me
<1> QED BY <1>1, <1>2, <1>3 DEF StepEffect

LEMMA StartNext ==
  ASSUME "fin" \notin Faults, \A r \in Requests : ALL \notin Range(r),
         TypeOK, WebsApart, CalmInv, StartInv, [Next]_vars
  PROVE  StartInv'
<1>1. JoinsOnly' /\ NoFin'
  BY JoinsStep, NextNoFin DEF StartInv
<1> QED BY <1>1, StartStep, NextEffect

\* The reports change neither threads nor commands nor connections.
LEMMA RepStartNext ==
  ASSUME "fin" \notin Faults, \A r \in Requests : ALL \notin Range(r),
         TypeOK, WebsApart, CalmInv, StartInv, [RepNext]_repVars
  PROVE  StartInv'
<1>1. CASE ReportStep
  <2>1. UNCHANGED <<web, peer>>
    BY <1>1 DEF ReportStep, StartReports, CountSlot, ClearFlag, CopySlot, PostOK, PostFails,
       vars, others, ghosts
  <2>2. JoinsOnly' /\ NoFin'
    BY <2>1 DEF StartInv, JoinsOnly, NoFin
  <2> QED BY <2>2, StartStep, RepNextEffect
<1> QED BY <1>1, StartNext DEF RepNext, repVars

LEMMA StartInit == Init => StartInv
<1> SUFFICES ASSUME Init PROVE StartInv
  OBVIOUS
<1>1. JoinsOnly /\ NoFin
  BY JoinsInit, ExitInit
<1> QED BY <1>1 DEF Init, StartInv, NoThread, Me, Doing, Idle

LEMMA StartApart == WebsApart /\ StartInv => SlotsApart
BY DEF StartInv, SlotsApart

\* A node that is not told to leave a server: as long as no link is cut and heart threads
\* can be created, every slot that is OK is connected, for any number of servers, rooms,
\* link threads and web threads that connect more of them.  Two web threads that find one
\* slot at a time are excluded.
THEOREM UncutConnected ==
  ASSUME "fin" \notin Faults, "udp" \notin Faults, "thread" \notin Faults, MaxFirewalls =< 1,
         \A r \in Requests : ALL \notin Range(r)
  PROVE  /\ Spec /\ []WebsApart => []OKConnected
         /\ RepSpec /\ []WebsApart => []OKConnected
<1> DEFINE I == CalmInv /\ StartInv
<1>1. Init => I
  BY CalmInit, StartInit
<1>2. TypeOK /\ WebsApart /\ I /\ [Next]_vars => I'
  BY StartNext, CalmNext, StartApart
<1>3. TypeOK /\ WebsApart /\ I /\ [RepNext]_repVars => I'
  BY RepStartNext, RepCalmNext, StartApart
<1>4. (RepInit => Init) /\ (RepInv => TypeOK)
  BY RepParts DEF RepInit
<1>5. WebsApart /\ I => SlotsApart
  BY StartApart
<1> HIDE DEF I
<1>6. Spec /\ []WebsApart => []SlotsApart
  BY <1>1, <1>2, <1>5, TypeCorrect, PTL DEF Spec
<1>7. RepSpec /\ []WebsApart => []SlotsApart
  BY <1>1, <1>3, <1>4, <1>5, RepInvariance, PTL DEF RepSpec
<1>8. (Spec /\ []SlotsApart => []OKConnected) /\ (RepSpec /\ []SlotsApart => []OKConnected)
  BY Connected
<1> QED BY <1>6, <1>7, <1>8

\* Start-up, without any premise on the threads but that heart threads can be created:
\* the report thread connects the rooms of its first answer one by one
\* (web_protocol_resolve.c:586), however many they are, and none is OK before its own
\* thread and sockets are there; a message may fail to be sent.
THEOREM StartUpConnected ==
  ASSUME "fin" \notin Faults, "udp" \notin Faults, "thread" \notin Faults, MaxFirewalls =< 1,
         Requests = {}
  PROVE  (Spec => []OKConnected) /\ (RepSpec => []OKConnected)
<1> DEFINE A == \A w \in Webs : web[w].todo = <<>>
           I == A /\ CalmInv /\ StartInv
<1>1. Init => I
  BY CalmInit, StartInit, ThreadAssumption DEF Init, Actors, Idle
<1>2. TypeOK /\ A /\ [Next]_vars => A'
  <2> SUFFICES ASSUME TypeOK, A, [Next]_vars PROVE A'
    OBVIOUS
  <2>1. web \in [Actors -> Actor] /\ \A w \in Webs : web[w].pc = "next"
    BY DEF TypeOK, Actors
  <2>2. ASSUME NEW w \in Actors, Command(w) PROVE A'
    <3>1. w \notin Webs
      BY <2>1, <2>2 DEF Command, FindFree, InitSlot, FindUsed, ExitsDone, CreateLink, CreateFails,
         ExitLink, HasRoom, Doing
    <3>2. \E r : Update(w, r)
      BY <2>2 DEF Command, FindFree, InitSlot, FindUsed, ExitsDone, CreateLink, CreateFails,
         ExitLink
    <3> QED BY <2>1, <3>1, <3>2 DEF Update, Actors
  <2>3. ASSUME NEW l \in Links, LinkStep(l) PROVE web' = web
    BY <2>3, LinkEffects
  <2> QED BY <2>2, <2>3 DEF Next, PeerCloses, HeartEnds, DataStep, DataScan, DataGivesUp,
             DataTimeout, DataVisit, others, vars
<1>3. TypeOK /\ I => WebsApart
  <2> SUFFICES ASSUME TypeOK, I, NEW w \in Actors,
                      Doing(w, "init") \/ Doing(w, "create"), NEW v \in Actors \ {w}
               PROVE  ~Doing(v, "init") /\ ~Doing(v, "create") /\ web[v].exits = {}
    BY DEF WebsApart
  <2>1. \A u \in {v, w} : web[u].pc # "next" => u = "report"
    BY DEF TypeOK, Actors
  <2> QED BY <2>1 DEF Doing, StartInv, JoinsOnly
<1>4. TypeOK /\ I /\ [Next]_vars => I'
  BY <1>2, <1>3, StartNext, CalmNext, StartApart
<1>5. TypeOK /\ A /\ [RepNext]_repVars => A'
  <2> SUFFICES ASSUME TypeOK, A, [RepNext]_repVars, ReportStep PROVE A'
    BY <1>2 DEF RepNext, repVars
  <2> QED BY DEF ReportStep, StartReports, CountSlot, ClearFlag, CopySlot, PostOK, PostFails,
             vars, others
<1>6. TypeOK /\ I /\ [RepNext]_repVars => I'
  BY <1>3, <1>5, RepStartNext, RepCalmNext, StartApart
<1>7. (RepInit => Init) /\ (RepInv => TypeOK)
  BY RepParts DEF RepInit
<1> HIDE DEF I
<1>8. Spec => []WebsApart
  BY <1>1, <1>3, <1>4, TypeCorrect, PTL DEF Spec
<1>9. RepSpec => []WebsApart
  BY <1>1, <1>3, <1>6, <1>7, RepInvariance, PTL DEF RepSpec
<1>10. /\ Spec /\ []WebsApart => []OKConnected
       /\ RepSpec /\ []WebsApart => []OKConnected
  BY UncutConnected
<1> QED BY <1>8, <1>9, <1>10

=============================================================================
