------------------------------- MODULE Report -------------------------------
(***************************************************************************)
(* The channel reports to the media centre (src/intermedia/                *)
(* web_protocol_resolve.c), on top of the links of RecLink.  Once the      *)
(* report thread has connected the rooms of its ServInfo answer, a SIGALRM *)
(* handler posts, again and again, the links that the process knows of: a  *)
(* first pass over g_connect_info counts them and looks for a change, a    *)
(* second one takes back each slot's m_state_change and copies the slot.   *)
(* The threads that change a slot set its flag, without a lock.            *)
(***************************************************************************)
EXTENDS RecLink

ASSUME BoxAssumption == NoBox \notin Boxes

VARIABLES rep,           \* package_web_cmd_http_LiverChannelUpdateReq and its post
          mc,            \* what the media centre was last told of each slot
          missed         \* ghost: slots of the last message, if its post has failed

centre  == <<mc, missed>>
repVars == <<vars, rep, centre>>

\* to_mc_report_room_info_t: one slot as the message carries it.
RoomInfo == [ip : Boxes, room : Int, status : Status]
NoInfo == [ip |-> NoBox, room |-> 0, status |-> "CLOSE"]
InfoOf(s) == [ip |-> con[s].ip, room |-> con[s].room, status |-> con[s].status]

\* m_id is -1 until the slot is initialised for the first time.
InUse(s) == con[s].ip # NoBox

Pass == [pc : {"off", "count", "clear", "copy", "post"}, at : Slots,
         total : 0..CHANNEL_CONNECT_MAX_NUM, any : BOOLEAN,
         msg : [Slots -> RoomInfo \cup {NoInfo}]]
Fresh == [pc |-> "count", at |-> 1, total |-> 0, any |-> FALSE,
          msg |-> [s \in Slots |-> NoInfo]]
Copied == {s \in Slots : rep.msg[s] # NoInfo}

RepInit == /\ Init
           /\ rep = [Fresh EXCEPT !.pc = "off"]
           /\ mc = [s \in Slots |-> NoInfo]
           /\ missed = {}

\* The report thread installs the handler and sends itself the first SIGALRM.
StartReports ==
  /\ rep.pc = "off"
  /\ web["report"] = Idle(<<>>)
  /\ rep' = Fresh
  /\ UNCHANGED <<vars, centre>>

\* The first pass.  Without a slot in use no message is posted, and without a
\* change an empty one: the media centre learns of no link.
CountSlot_LastOnly ==
  LET total == rep.total + (IF InUse(rep.at) THEN 1 ELSE 0)
      any   == con[rep.at].change = 1
      last  == rep.at = CHANNEL_CONNECT_MAX_NUM
  IN /\ rep.pc = "count"
     /\ rep' = IF ~last THEN [rep EXCEPT !.at = @ + 1, !.total = total, !.any = any]
               ELSE IF total = 0 \/ ~any THEN Fresh
               ELSE [rep EXCEPT !.pc = "clear", !.at = 1, !.total = total, !.any = any]
     /\ UNCHANGED <<vars, centre>>
CountSlot ==
  LET total == rep.total + (IF InUse(rep.at) THEN 1 ELSE 0)
      any   == rep.any \/ con[rep.at].change = 1
      last  == rep.at = CHANNEL_CONNECT_MAX_NUM
  IN /\ rep.pc = "count"
     /\ rep' = IF ~last THEN [rep EXCEPT !.at = @ + 1, !.total = total, !.any = any]
               ELSE IF total = 0 \/ ~any THEN Fresh
               ELSE [rep EXCEPT !.pc = "clear", !.at = 1, !.total = total, !.any = any]
     /\ UNCHANGED <<vars, centre>>

\* The second pass: first the flag, then the slot, until the links counted before
\* are copied.
ClearFlag ==
  /\ rep.pc = "clear"
  /\ con' = [con EXCEPT ![rep.at].change = 0]
  /\ rep' = [rep EXCEPT !.pc = "copy"]
  /\ UNCHANGED <<link, peer, others, centre>>
CopySlot ==
  LET msg  == [rep.msg EXCEPT ![rep.at] = IF InUse(rep.at) THEN InfoOf(rep.at) ELSE @]
      done == \/ rep.at = CHANNEL_CONNECT_MAX_NUM
              \/ Cardinality({s \in Slots : msg[s] # NoInfo}) = rep.total
  IN /\ rep.pc = "copy"
     /\ rep' = IF done THEN [rep EXCEPT !.msg = msg, !.pc = "post"]
                       ELSE [rep EXCEPT !.msg = msg, !.pc = "clear", !.at = @ + 1]
     /\ UNCHANGED <<vars, centre>>

\* mid_http_post, and the alarm for the next report.  Nothing is kept of a message
\* whose post has failed.
Deliver == /\ mc' = [s \in Slots |-> IF s \in Copied THEN rep.msg[s] ELSE mc[s]]
           /\ missed' = missed \ Copied
PostOK_ThenClear ==
  /\ rep.pc = "post"
  /\ Deliver
  /\ con' = [s \in Slots |-> [con[s] EXCEPT !.change = 0]]
  /\ rep' = Fresh
  /\ UNCHANGED <<link, peer, others>>
PostOK_KeepsCount ==
  /\ rep.pc = "post"
  /\ Deliver
  /\ rep' = [rep EXCEPT !.pc = "count", !.at = 1, !.any = FALSE]
  /\ UNCHANGED vars
PostOK ==
  /\ rep.pc = "post"
  /\ Deliver
  /\ rep' = Fresh
  /\ UNCHANGED vars
PostFails ==
  /\ rep.pc = "post"
  /\ missed' = missed \cup Copied
  /\ rep' = Fresh
  /\ UNCHANGED <<vars, mc>>

ReportStep == StartReports \/ CountSlot \/ ClearFlag \/ CopySlot \/ PostOK \/ PostFails

RepNext == \/ Next /\ UNCHANGED <<rep, centre>>
           \/ ReportStep

RepSpec == RepInit /\ [][RepNext]_repVars

\* The handler sets the alarm anew after each report, whatever became of it.
RepFairSpec == RepSpec /\ Fairness /\ WF_repVars(ReportStep)

-----------------------------------------------------------------------------
(***************************************************************************)
(* Properties.                                                             *)
(***************************************************************************)

\* The report has its types, and copies no slot in its first pass.
RepTypeOK ==
  /\ rep \in Pass
  /\ mc \in [Slots -> RoomInfo \cup {NoInfo}]
  /\ missed \subseteq Slots
  /\ rep.pc \in {"off", "count"} => Copied = {}

\* What the media centre will hold of slot s once the message in the making arrives.
Told(s) == IF s \in Copied THEN rep.msg[s] ELSE mc[s]

\* A thread that has brought slot s up is still to set its flag.
ToFlag(s) == \E l \in Links : Me(l) = s /\ (At(l, "clear") \/ At(l, "flag"))

\* No link that is up is left out, unless the post that carried it has failed: its flag
\* is set or the thread that brought it up is about to, or the handler is about to copy
\* it, or the media centre is told of this very room with status OK, by the message in
\* the making if that carries the slot.  A link may come up, be given up or change its
\* room at any point of the passes and the post.
OKReported ==
  \A s \in Slots : con[s].status = "OK" =>
    \/ con[s].change = 1
    \/ ToFlag(s)
    \/ rep.pc = "copy" /\ rep.at = s
    \/ s \in missed \ Copied
    \/ Told(s) = InfoOf(s)

\* A link that stays up, and whose report was not lost, is known to the media centre
\* in the end.
OKLearned ==
  \A s \in Slots : <>[](con[s].status = "OK" /\ s \notin missed) => <>[](mc[s] = InfoOf(s))

=============================================================================
