------------------------------- MODULE Peers -------------------------------
(***************************************************************************)
(* The table of nodes that were heard on the local network.                *)
(*                                                                         *)
(* Every node announces itself in signed datagrams, which may be lost,     *)
(* delayed, reordered and repeated.  An announcement counts if it was sent *)
(* not long ago by the clocks of both sides; an entry lives for a while    *)
(* after it was last heard, and a ticker looks for old ones.  Times are    *)
(* ages, so the clock has no bound.                                        *)
(***************************************************************************)
EXTENDS Integers

CONSTANTS
  Nodes,    \* other nodes
  Ahead,    \* seconds the clock of each is ahead of this one's
  Window,   \* seconds an announcement may be old or early, 10
  Life,     \* seconds an entry lives after it was heard, 12
  Period    \* seconds between two looks at the table, 5

VARIABLES
  up,       \* nodes that announce themselves
  absent,   \* time since a node has stopped, up to Forgotten
  net,      \* announcements that may still arrive
  peers,    \* time since every node was heard, or None
  evictIn   \* time until the ticker of evict

vars == <<up, absent, net, peers, evictIn>>

None == -1
Greatest(S) == CHOOSE m \in S : \A n \in S : n <= m
Late        == Window + Greatest({0} \union {Ahead[n] : n \in Nodes})
Forgotten   == Late + Life + Period + 1

TypeOK ==
  /\ up \subseteq Nodes
  /\ absent \in [Nodes -> 0..Forgotten]
  /\ net \subseteq [node : Nodes, age : 0..(Late + 1)]
  /\ peers \in [Nodes -> {None} \union (0..(Life + Period))]
  /\ evictIn \in 0..Period

Init ==
  /\ up = {}
  /\ absent = [n \in Nodes |-> Forgotten]
  /\ net = {}
  /\ peers = [n \in Nodes |-> None]
  /\ evictIn = Period

Arrive(n) ==
  /\ n \notin up
  /\ up' = up \union {n}
  /\ UNCHANGED <<absent, net, peers, evictIn>>

Depart(n) ==
  /\ n \in up
  /\ up' = up \ {n}
  /\ absent' = [absent EXCEPT ![n] = 0]
  /\ UNCHANGED <<net, peers, evictIn>>

\* send, at a start and every three seconds.
Announce(n) ==
  /\ n \in up
  /\ net' = net \union {[node |-> n, age |-> 0]}
  /\ UNCHANGED <<up, absent, peers, evictIn>>

\* Mutant: only announcements from the future are refused.
ValidForEver(a) == Ahead[a.node] - a.age <= Window

\* validAnnouncement: the age by the clock that wrote it and the one that reads.
Valid(a) ==
  LET delta == a.age - Ahead[a.node]
  IN  -Window <= delta /\ delta <= Window

\* listen; a datagram that has arrived may arrive again.
Receive(a) ==
  /\ Valid(a)
  /\ peers' = [peers EXCEPT ![a.node] = 0]
  /\ UNCHANGED <<up, absent, net, evictIn>>

\* evict is not late: no time passes while its tick is due.
Evict ==
  /\ evictIn = 0
  /\ peers' = [n \in Nodes |-> IF peers[n] > Life THEN None ELSE peers[n]]
  /\ evictIn' = Period
  /\ UNCHANGED <<up, absent, net>>

Older(a) == [a EXCEPT !.age = IF @ > Late THEN @ ELSE @ + 1]

Tick ==
  /\ evictIn > 0
  /\ evictIn' = evictIn - 1
  /\ absent' = [n \in Nodes |-> IF n \in up \/ absent[n] = Forgotten THEN absent[n]
                                ELSE absent[n] + 1]
  /\ net' = {Older(a) : a \in net}
  /\ peers' = [n \in Nodes |-> IF peers[n] = None THEN None ELSE peers[n] + 1]
  /\ UNCHANGED up

Next ==
  \/ \E n \in Nodes : Arrive(n) \/ Depart(n) \/ Announce(n)
  \/ \E a \in net : Receive(a)
  \/ Evict
  \/ Tick

Spec == Init /\ [][Next]_vars
-----------------------------------------------------------------------------
(* Properties.                                                             *)

\* A node that has left is not in the table for longer than an announcement may
\* be old, an entry lives and the ticker waits, whatever arrives late or again.
DepartedForgotten ==
  \A n \in Nodes \ up : peers[n] # None => absent[n] < Forgotten
=============================================================================
