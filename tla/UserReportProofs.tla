-------------------------- MODULE UserReportProofs --------------------------
(***************************************************************************)
(* Proof that the cache of UserReport is never ahead of what is being told,*)
(* for any table, any viewers and any number of web threads that ask.      *)
(***************************************************************************)
EXTENDS UserReport, TLAPS

\* A message that is not stale is the list in live_user_info, or that nobody watches.
Shaped(r) == r = [pc |-> r.pc, none |-> r.none, list |-> r.list, stale |-> r.stale]
True(r) == r.pc = "tell" /\ ~r.stale => r.list \in {live_user_info, <<>>}
CacheInv ==
  /\ CacheTold
  /\ ur = [t \in Tellers |-> ur[t]]
  /\ \A t \in Tellers : Shaped(ur[t]) /\ True(ur[t])

LEMMA CacheInit == UserInit => CacheInv
<1> SUFFICES ASSUME UserInit PROVE CacheInv
  OBVIOUS
<1>1. CacheTold /\ ur = [t \in Tellers |-> ur[t]]
  BY DEF UserInit, CacheTold
<1>2. ASSUME NEW t \in Tellers PROVE Shaped(ur[t]) /\ True(ur[t])
  <2>1. ur[t] = Begin \/ ur[t] = Done
    BY DEF UserInit
  <2>2. \A r \in {Begin, Done} : Shaped(r) /\ True(r)
    BY DEF Begin, Done, Thread, Shaped, True
  <2> QED BY <2>1, <2>2
<1> QED BY <1>1, <1>2 DEF CacheInv

\* A thread that goes on; one that has something to tell still has.
LEMMA BecomesInv ==
  ASSUME CacheInv, NEW t \in Tellers, NEW r, Shaped(r), True(r), Becomes(t, r),
         Carries(t) => r.pc = "format" \/ (r.pc = "tell" /\ ~r.stale)
  PROVE  CacheInv'
<1>1. ur' = [u \in Tellers |-> IF u = t THEN r ELSE ur[u]]
  BY DEF Becomes, CacheInv
<1>2. \A u \in Tellers : Carries(u) => Carries(u)'
  BY <1>1 DEF Carries, At
<1>3. CacheTold'
  BY <1>2 DEF CacheInv, CacheTold, Becomes
<1>4. \A u \in Tellers : Shaped(ur'[u]) /\ True(ur[u])'
  BY <1>1 DEF CacheInv, Becomes, True
<1> QED BY <1>1, <1>3, <1>4 DEF CacheInv, Shaped

\* One that writes live_user_info tells it then, or that nobody watches, or leaves it as
\* it is.
LEMMA WritesInv ==
  ASSUME CacheInv, NEW t \in Tellers, NEW list, NEW r, Shaped(r), Writes(t, list, r),
         ~At(t, "tell"), ~At(t, "format"),
         \/ r.pc = "format"
         \/ r.pc = "tell" /\ ~r.stale /\ r.list = <<>>
         \/ r.pc = "done" /\ list = live_user_info
  PROVE  CacheInv'
<1>1. /\ live_user_info' = list /\ UNCHANGED <<book, lost>>
      /\ \A u \in Tellers :
           ur'[u] = IF u = t THEN r
                    ELSE [ur[u] EXCEPT !.stale = @ \/ (At(u, "tell") /\ list # live_user_info)]
      /\ ur' = [u \in Tellers |-> ur'[u]]
  BY DEF Writes
<1>2. \A u \in Tellers \ {t} :
        /\ Shaped(ur'[u]) /\ ur'[u].pc = ur[u].pc /\ ur'[u].list = ur[u].list
        /\ ur'[u].stale = (ur[u].stale \/ (ur[u].pc = "tell" /\ list # live_user_info))
  <2> SUFFICES ASSUME NEW u \in Tellers \ {t}
               PROVE  /\ Shaped(ur'[u]) /\ ur'[u].pc = ur[u].pc /\ ur'[u].list = ur[u].list
                      /\ ur'[u].stale = (ur[u].stale \/ (ur[u].pc = "tell" /\ list # live_user_info))
    OBVIOUS
  <2>1. Shaped(ur[u])
    BY DEF CacheInv
  <2> QED BY <1>1, <2>1 DEF Shaped, At
<1>3. ur'[t] = r
  BY <1>1
<1>4. \A u \in Tellers : True(ur[u])'
  BY <1>1, <1>2, <1>3 DEF CacheInv, True
<1>5. CASE r.pc = "done"
  <2>1. \A u \in Tellers : Carries(u) => Carries(u)'
    BY <1>2, <1>5 DEF Carries, At
  <2> QED BY <1>1, <1>2, <1>3, <1>4, <1>5, <2>1 DEF CacheInv, CacheTold
<1>6. CASE r.pc # "done"
  <2>1. Carries(t)'
    BY <1>3, <1>6 DEF Carries, At
  <2> QED BY <1>1, <1>2, <1>3, <1>4, <2>1 DEF CacheInv, CacheTold
<1> QED BY <1>5, <1>6

\* A message has arrived, or not.
LEMMA ToldInv ==
  ASSUME CacheInv, NEW t \in Tellers, TellOK(t) \/ TellFails(t)
  PROVE  CacheInv'
<1>1. /\ ur' = [u \in Tellers |-> IF u = t THEN Done ELSE ur[u]]
      /\ At(t, "tell") /\ live_user_info' = live_user_info
  BY DEF TellOK, TellFails, CacheInv
<1>2. Shaped(Done) /\ Done.pc = "done"
  BY DEF Shaped, Done, Thread
<1>3. \A u \in Tellers : Shaped(ur'[u]) /\ True(ur[u])'
  BY <1>1, <1>2 DEF CacheInv, True
<1>4. CacheTold'
  <2>1. CASE TellOK(t)
    BY <1>1, <2>1 DEF TellOK, CacheInv, CacheTold, True, At
  <2>2. CASE TellFails(t) /\ ur[t].stale
    <3>1. \A u \in Tellers : Carries(u) => Carries(u)'
      BY <1>1, <2>2 DEF Carries, At
    <3> QED BY <1>1, <2>2, <3>1 DEF TellFails, CacheInv, CacheTold
  <2>3. CASE TellFails(t) /\ ~ur[t].stale
    BY <2>3 DEF TellFails, CacheTold
  <2> QED BY <2>1, <2>2, <2>3
<1> QED BY <1>1, <1>3, <1>4 DEF CacheInv, Shaped

LEMMA CacheNext == CacheInv /\ [UserNext]_userVars => CacheInv'
<1> SUFFICES ASSUME CacheInv, [UserNext]_userVars PROVE CacheInv'
  OBVIOUS
<1>1. ASSUME UNCHANGED <<live_user_info, ur, book, lost>> PROVE CacheInv'
  BY <1>1 DEF CacheInv, CacheTold, Carries, At, Shaped, True
<1>2. \A p, none, list :
        LET r == Thread(p, none, list)
        IN  Shaped(r) /\ r.pc = p /\ r.none = none /\ r.list = list
  BY DEF Shaped, Thread
<1>3. ASSUME NEW t \in Tellers, TellStep(t) \/ Again(t) PROVE CacheInv'
  <2>1. ASSUME NEW p, NEW none, NEW list, Becomes(t, Thread(p, none, list)), ~Carries(t),
               p # "tell" \/ list \in {live_user_info, <<>>}
        PROVE  CacheInv'
    <3> DEFINE r == Thread(p, none, list)
    <3>1. Shaped(r) /\ r.pc = p /\ r.list = list /\ Becomes(t, r)
      BY <1>2, <2>1
    <3>2. True(r)
      BY <2>1, <3>1 DEF True
    <3> HIDE DEF r
    <3> QED BY <2>1, <3>1, <3>2, BecomesInv
  <2>2. ASSUME GivesUp(t), ~Carries(t) PROVE CacheInv'
    BY <2>1, <2>2 DEF GivesUp, Message, Done
  <2>3. ASSUME NEW p \in {"tell", "done", "format"}, NEW list, Writes(t, list, Thread(p, FALSE, <<>>)),
               ~At(t, "tell"), ~At(t, "format"), p = "done" => list = live_user_info
        PROVE  CacheInv'
    <3> DEFINE r == Thread(p, FALSE, <<>>)
    <3>1. Shaped(r) /\ r.pc = p /\ r.list = <<>> /\ Writes(t, list, r)
      BY <2>3 DEF Shaped, Thread
    <3>2. ~r.stale
      BY DEF Thread
    <3> HIDE DEF r
    <3> QED BY <2>3, <3>1, <3>2, WritesInv
  <2>4. CASE AskTotal(t)
    BY <2>1, <2>4 DEF AskTotal, Carries, At, Message
  <2>5. CASE CountViewers(t)
    BY <2>1, <2>3, <2>5 DEF CountViewers, Carries, At, Message
  <2>6. CASE NoMemory(t)
    BY <2>2, <2>6 DEF NoMemory, Carries, At
  <2>7. CASE FillList(t)
    BY <2>1, <2>2, <2>7 DEF FillList, Carries, At
  <2>8. CASE Compare(t)
    BY <2>3, <2>8 DEF Compare, At, Message, Done
  <2>9. CASE Format(t)
    <3> DEFINE r == Message(live_user_info)
    <3>1. Shaped(r) /\ r.pc = "tell" /\ r.list = live_user_info /\ Becomes(t, r)
      BY <2>9 DEF Format, Message, Shaped, Thread
    <3>2. True(r)
      BY <3>1 DEF True
    <3>3. ~r.stale
      BY DEF Message, Thread
    <3> HIDE DEF r
    <3> QED BY <3>1, <3>2, <3>3, BecomesInv
  <2>10. CASE Again(t)
    BY <2>1, <2>10 DEF Again, Begin, Carries, At
  <2> QED BY <1>3, <2>4, <2>5, <2>6, <2>7, <2>8, <2>9, <2>10, ToldInv DEF TellStep
<1> QED BY <1>1, <1>3 DEF UserNext, ViewerStep, Comes, Leaves, userVars

\* get_live_user_info (live/user.c) and its callers, which run in parallel: what the cache
\* holds has been sent, or is about to be.
THEOREM CacheIsTold == UserSpec => []CacheTold
<1>1. CacheInv => CacheTold
  BY DEF CacheInv
<1> QED BY <1>1, CacheInit, CacheNext, PTL DEF UserSpec

=============================================================================
