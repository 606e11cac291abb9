----------------------------- MODULE LossyChannel -----------------------------
(***************************************************************************)
(* What the output thread may count on when it gives packets to the thread *)
(* of a pipe: each is delivered once or lost, in the order they were given *)
(* in, and the oldest is lost first.  The packets of a channel are         *)
(* numbered as they are accepted.                                          *)
(***************************************************************************)
EXTENDS Naturals

CONSTANT Channels

VARIABLES accepted,      \* the number of packets that were given
          waiting,       \* those neither delivered nor lost
          delivered      \* the last one delivered, 0 before the first

vars == <<accepted, waiting, delivered>>

Oldest(c, n) == n \in waiting[c] /\ \A m \in waiting[c] : n <= m

Init ==
  /\ accepted = [c \in Channels |-> 0]
  /\ waiting = [c \in Channels |-> {}]
  /\ delivered = [c \in Channels |-> 0]

\* A packet is accepted, in place of the oldest if there is no room for both.
Accept(c) ==
  /\ accepted' = [accepted EXCEPT ![c] = @ + 1]
  /\ \E lost \in SUBSET waiting[c] :
       /\ \A n \in lost : Oldest(c, n)
       /\ waiting' = [waiting EXCEPT ![c] = (@ \ lost) \cup {accepted[c] + 1}]
  /\ UNCHANGED delivered

Lose(c) ==
  /\ \E n \in waiting[c] : Oldest(c, n) /\ waiting' = [waiting EXCEPT ![c] = @ \ {n}]
  /\ UNCHANGED <<accepted, delivered>>

Deliver(c) ==
  /\ \E n \in waiting[c] :
       /\ Oldest(c, n)
       /\ waiting' = [waiting EXCEPT ![c] = @ \ {n}]
       /\ delivered' = [delivered EXCEPT ![c] = n]
  /\ UNCHANGED accepted

Next == \E c \in Channels : Accept(c) \/ Lose(c) \/ Deliver(c)

Spec == Init /\ [][Next]_vars
=============================================================================
