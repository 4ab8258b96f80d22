----------------------------- MODULE LiveStream -----------------------------
(***************************************************************************)
(* What the relay promises to a viewer, said without any of the tables,    *)
(* lists and sockets that keep the promise.                                *)
(*                                                                         *)
(* Every channel is an endless sequence of packets, numbered from 1 in the *)
(* order the ingest side hands them over; a packet is PktLen units long.   *)
(* A connection may join one channel at the start of any published packet. *)
(* From there on it is sent the channel unit by unit and packet by packet: *)
(* nothing twice, nothing left out, nothing of another channel and nothing *)
(* that was not published.  It can lose its place only by being closed.    *)
(***************************************************************************)
EXTENDS Integers

CONSTANTS Channels,      \* the channel ids
          Conns,         \* the connection slots of the node
          PktLen         \* units in one packet

VARIABLES pub,           \* pub[c]: packets of c published so far
          at             \* at[u]: the last unit sent on connection u

NoChannel == -1
NoPos == [ch |-> NoChannel, num |-> 0, off |-> 0]

(***************************************************************************)
(* A position in a channel: off units of packet num have been sent.        *)
(***************************************************************************)
Position == [ch : Channels, num : Nat \ {0}, off : 1..PktLen]

TypeOK == /\ pub \in [Channels -> Nat]
          /\ at \in [Conns -> Position \cup {NoPos}]

Init == /\ pub = [c \in Channels |-> 0]
        /\ at = [u \in Conns |-> NoPos]

\* A new packet of c; the connections in Cut are closed to make room for it.
Publish(c, Cut) ==
  /\ pub' = [pub EXCEPT ![c] = @ + 1]
  /\ at' = [u \in Conns |-> IF u \in Cut THEN NoPos ELSE at[u]]

\* The first k units of a published packet open the stream of u.
Join(u, c, n, k) ==
  /\ at[u] = NoPos
  /\ n \in 1..pub[c]
  /\ at' = [at EXCEPT ![u] = [ch |-> c, num |-> n, off |-> k]]
  /\ UNCHANGED pub

\* k more units of the packet that is under way.
Continue(u, k) ==
  /\ at[u] # NoPos
  /\ at[u].off + k =< PktLen
  /\ at' = [at EXCEPT ![u].off = @ + k]
  /\ UNCHANGED pub

\* The packet under way is complete: the first k units of the next one.
Advance(u, k) ==
  /\ at[u] # NoPos
  /\ at[u].off = PktLen
  /\ at[u].num < pub[at[u].ch]
  /\ at' = [at EXCEPT ![u] = [ch |-> @.ch, num |-> @.num + 1, off |-> k]]
  /\ UNCHANGED pub

\* The connection is closed, by either end.
Reset(u) ==
  /\ at' = [at EXCEPT ![u] = NoPos]
  /\ UNCHANGED pub

Next ==
  \/ \E c \in Channels, Cut \in SUBSET Conns : Publish(c, Cut)
  \/ \E u \in Conns :
       \/ Reset(u)
       \/ \E k \in 1..PktLen :
            \/ \E c \in Channels : \E n \in 1..pub[c] : Join(u, c, n, k)
            \/ Continue(u, k)
            \/ Advance(u, k)

Spec == Init /\ [][Next]_<<pub, at>>
=============================================================================
