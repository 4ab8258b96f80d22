----------------------------- MODULE UserReport -----------------------------
(***************************************************************************)
(* The reports of the viewers to the media centre: get_live_user_info      *)
(* (src/live/user.c) walks the connection table several times, without a   *)
(* lock, while the events thread changes it, and keeps the last list it    *)
(* made in live_user_info to tell whether there is anything to post.  Its  *)
(* callers run in parallel: the SIGALRM handler, which posts the list, and *)
(* the web threads that answer the same question of the media centre       *)
(* (20003) over TCP.                                                       *)
(*                                                                         *)
(* A walk over the table is one step: what a torn walk sees, the table has *)
(* already left again.  The number of viewers that goes with a list is     *)
(* left out.                                                               *)
(***************************************************************************)
EXTENDS Integers, Sequences, FiniteSets

CONSTANTS MAX_USERS,      \* size of the connection table
          Viewers,        \* "address:channel" of the viewers that come and go
          Webs            \* web threads, none of them called "report"

Nobody == "nobody"        \* m_channel is -1

VARIABLES seats,          \* g_send_client: who watches, by slot
          live_user_info, \* the list of the last report, or answer
          ur,             \* the handler in web_post_live_user_info, the web threads
          book,           \* the list the media centre was last told
          lost            \* ghost: a list never arrived, or after a newer one

userVars == <<seats, live_user_info, ur, book, lost>>

Tellers == Webs \cup {"report"}
Listed(v) == v # Nobody
List == SelectSeq(seats, Listed)
Total == Len(List)        \* get_online_user_total
FirstFree(i) == seats[i] = Nobody /\ \A j \in 1..(i - 1) : seats[j] # Nobody

\* What a thread is about to tell: none says that a web thread's own walk found nobody,
\* stale, a ghost, that live_user_info has been changed since the list was taken from it.
Thread(pc, none, list) == [pc |-> pc, none |-> none, list |-> list, stale |-> FALSE]
Begin == Thread("total", FALSE, <<>>)
Done == Thread("done", FALSE, <<>>)
Message(list) == Thread("tell", FALSE, list)
At(t, p) == ur[t].pc = p

UserInit == /\ seats = [i \in 1..MAX_USERS |-> Nobody]
            /\ live_user_info = <<>>
            /\ ur = [t \in Tellers |-> IF t = "report" THEN Begin ELSE Done]
            /\ book = <<>>
            /\ lost = FALSE

-----------------------------------------------------------------------------
\* The events thread: a viewer takes the first free slot; close_client.
Comes(v) ==
  /\ \E i \in 1..MAX_USERS : FirstFree(i) /\ seats' = [seats EXCEPT ![i] = v]
  /\ UNCHANGED <<live_user_info, ur, book, lost>>
Leaves(i) ==
  /\ seats[i] # Nobody
  /\ seats' = [seats EXCEPT ![i] = Nobody]
  /\ UNCHANGED <<live_user_info, ur, book, lost>>

-----------------------------------------------------------------------------
(***************************************************************************)
(* The thread t.  Becomes(t, r): it is at r next; Writes(t, list, r): and  *)
(* live_user_info is list, which makes older messages stale.               *)
(***************************************************************************)
Becomes(t, r) == /\ ur' = [ur EXCEPT ![t] = r]
                 /\ UNCHANGED <<seats, live_user_info, book, lost>>
Writes(t, list, r) ==
  /\ live_user_info' = list
  /\ ur' = [u \in Tellers |->
              IF u = t THEN r
              ELSE [ur[u] EXCEPT !.stale = @ \/ (At(u, "tell") /\ list # live_user_info)]]
  /\ UNCHANGED <<seats, book, lost>>

\* Without a viewer package_web_cmd_http_LiveUpdateReq posts a total of 0, and leaves
\* live_user_info as it is; msgcode_tcp_live_users_func calls get_live_user_info all the
\* same, to answer that there is none whatever it returns.
AskTotal(t) ==
  /\ At(t, "total")
  /\ Becomes(t, IF Total = 0 /\ t = "report" THEN Message(<<>>)
                                            ELSE Thread("count", Total = 0, <<>>))

\* get_live_user_info counts again, for the size of its buffers.  When the last viewer
\* has left meanwhile it clears the list and returns -2, which the report posts as the
\* number of viewers; the answer has no list then.
CountViewers(t) ==
  /\ At(t, "count")
  /\ IF Total = 0 THEN Writes(t, <<>>, Message(<<>>))
                  ELSE Becomes(t, Thread("fill", ur[t].none, <<>>))

\* It returns -1: the report is given up, the answer is a ReturnCode of 0, or none.
GivesUp(t) == Becomes(t, IF ur[t].none THEN Message(<<>>) ELSE Done)
NoMemory(t) ==
  /\ At(t, "count") /\ Total # 0
  /\ GivesUp(t)

\* A third walk makes the list.  With more viewers than were counted it writes past the
\* end of both buffers; with none left, in front of one, and returns -1.
FillList(t) ==
  /\ At(t, "fill")
  /\ IF List = <<>> THEN GivesUp(t)
                    ELSE Becomes(t, Thread("compare", ur[t].none, List))

\* strcmp and memcpy: nothing is posted when the list is the one in live_user_info; an
\* answer is always sent.
Compare(t) ==
  /\ At(t, "compare")
  /\ Writes(t, ur[t].list, IF ur[t].none THEN Message(<<>>)
                           ELSE IF t = "report" /\ ur[t].list = live_user_info THEN Done
                           ELSE Thread("format", FALSE, <<>>))

\* ip_pool points to live_user_info: the message takes what is there by now.
Format(t) ==
  /\ At(t, "format")
  /\ Becomes(t, Message(live_user_info))

\* The message arrives, or it does not: mid_http_post fails, for want of an address of
\* the node's own too, or r_send, whose result is not looked at, and neither repeats it.
\* Messages on different connections overtake each other.
TellOK(t) ==
  /\ At(t, "tell")
  /\ book' = ur[t].list
  /\ lost' = ur[t].stale
  /\ ur' = [ur EXCEPT ![t] = Done]
  /\ UNCHANGED <<seats, live_user_info>>
TellFails(t) ==
  /\ At(t, "tell")
  /\ lost' = (lost \/ ~ur[t].stale)
  /\ ur' = [ur EXCEPT ![t] = Done]
  /\ UNCHANGED <<seats, live_user_info, book>>

\* The handler sets the alarm and runs again; the media centre asks.
Again(t) == /\ At(t, "done")
            /\ Becomes(t, Begin)

-----------------------------------------------------------------------------
ViewerStep == \/ \E v \in Viewers : Comes(v)
              \/ \E i \in 1..MAX_USERS : Leaves(i)
TellStep(t) == \/ AskTotal(t) \/ CountViewers(t) \/ NoMemory(t) \/ FillList(t)
               \/ Compare(t) \/ Format(t) \/ TellOK(t) \/ TellFails(t)

UserNext == ViewerStep \/ \E t \in Tellers : TellStep(t) \/ Again(t)

\* The threads keep running, and the alarm comes again and again; the media centre need
\* not ask.
UserSpec == /\ UserInit /\ [][UserNext]_userVars
            /\ \A t \in Tellers : WF_userVars(TellStep(t))
            /\ WF_userVars(Again("report"))

-----------------------------------------------------------------------------
(***************************************************************************)
(* Properties.                                                             *)
(***************************************************************************)

\* A thread has a message to tell that the list in live_user_info is taken from.
Carries(t) == At(t, "format") \/ (At(t, "tell") /\ ~ur[t].stale)

\* What a report will find nothing new against is what the media centre has been told, or
\* is being told, or it was told that nobody watches: unless the last list was lost or
\* overtaken.
CacheTold ==
  ~lost => book \in {live_user_info, <<>>} \/ \E t \in Tellers : Carries(t)

\* pkg/readme:29 lists as solved: wrong number of users at the media centre after the
\* same user has left and come back.  When no list is ever lost, memory suffices, and
\* viewers come and go no more, the media centre has them right in the end.
Settled == <>[][UNCHANGED seats /\ ~NoMemory("report")]_userVars
UsersKnown == []~lost /\ Settled => <>[](book = List)

=============================================================================
