------------------------------ MODULE EventFeed ------------------------------
(***************************************************************************)
(* What the event stream promises to one WebSocket: the last few events    *)
(* before it came and then the later ones, each at most once and in the    *)
(* order of their delivery.  Events are known by their place in that order.*)
(***************************************************************************)
EXTENDS Naturals, Sequences

CONSTANTS
  Sockets,
  Replay   \* how many earlier events a new socket is told

VARIABLES
  delivered,  \* how many events there have been
  first,      \* the first event a socket is told about; 0 when it has not come
  seen        \* what it has been told

vars == <<delivered, first, seen>>

\* The first of the last Replay events.
Oldest == IF delivered > Replay THEN delivered - Replay + 1 ELSE 1

Init ==
  /\ delivered = 0
  /\ first = [s \in Sockets |-> 0]
  /\ seen = [s \in Sockets |-> <<>>]

Deliver ==
  /\ delivered' = delivered + 1
  /\ UNCHANGED <<first, seen>>

Join(s) ==
  /\ first[s] = 0
  /\ first' = [first EXCEPT ![s] = Oldest]
  /\ UNCHANGED <<delivered, seen>>

\* An event that the socket may have, newer than all it has.
See(s, e) ==
  /\ first[s] # 0 /\ e >= first[s]
  /\ \A i \in 1 .. Len(seen[s]) : seen[s][i] < e
  /\ seen' = [seen EXCEPT ![s] = Append(@, e)]
  /\ UNCHANGED <<delivered, first>>

Next ==
  \/ Deliver
  \/ \E s \in Sockets : Join(s) \/ \E e \in 1 .. delivered : See(s, e)

Spec == Init /\ [][Next]_vars
=============================================================================
