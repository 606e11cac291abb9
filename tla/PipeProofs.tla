------------------------------ MODULE PipeProofs ------------------------------
(***************************************************************************)
(* For every number of pipes, packets and readers: the threads of          *)
(* PipePacketHandler have their types, find a packet when they take one,   *)
(* live as OutputManager assumes, and are lossy channels; a reader finds a *)
(* pcap stream, and the reader of a single pipe the keys.                  *)
(***************************************************************************)
EXTENDS PipePacketHandler, SequenceTheorems, FiniteSetTheorems, TLAPS

\* Packets that are no repetitions are in order, up to a number.
Ordered(q) ==
  \A i, j \in DOMAIN q : i < j /\ ~q[i].again /\ ~q[j].again => q[i].n < q[j].n
UpTo(q, m) == \A i \in DOMAIN q : ~q[i].again => q[i].n <= m
FirstTimes(q) == { q[i].n : i \in { k \in DOMAIN q : ~q[k].again } }

\* The loop over key_packets stays in it, whatever is appended meanwhile.
ReplayInv ==
  \A h \in Pipes : replay[h].next # 0 /\ replay[h].end <= Len(keyPackets[h])
OrderInv == \A h \in Pipes : Ordered(queue[h]) /\ UpTo(queue[h], added[h])

IInv == TypeOK /\ TakeFindsPacket /\ ReplayInv /\ OrderInv

----------------------------------------------------------------------------
\* Queues

LEMMA Appended ==
  ASSUME NEW S, NEW q \in Seq(S), NEW p \in S
  PROVE  /\ Append(q, p) \in Seq(S)
         /\ Len(Append(q, p)) = Len(q) + 1
         /\ DOMAIN Append(q, p) = 1 .. Len(q) + 1
         /\ \A i \in 1 .. Len(q) : Append(q, p)[i] = q[i]
         /\ Append(q, p)[Len(q) + 1] = p
  BY AppendProperties, SMT

LEMMA WithoutHead ==
  ASSUME NEW S, NEW q \in Seq(S), q # << >>
  PROVE  /\ Tail(q) \in Seq(S)
         /\ Len(Tail(q)) = Len(q) - 1 /\ Len(q) \in Nat /\ Len(q) >= 1
         /\ DOMAIN Tail(q) = 1 .. Len(q) - 1
         /\ \A i \in 1 .. Len(q) - 1 : Tail(q)[i] = q[i + 1]
         /\ Head(q) = q[1] /\ Head(q) \in S
<1>1. /\ Tail(q) \in Seq(S) /\ Len(Tail(q)) = Len(q) - 1
      /\ \A i \in 1 .. Len(Tail(q)) : Tail(q)[i] = q[i + 1]
      /\ Head(q) \in S
  BY HeadTailProperties
<1>2. Len(q) \in Nat /\ Len(q) # 0
  BY EmptySeq, LenProperties
<1> QED
  BY <1>1, <1>2, LenProperties, SMT

LEMMA FieldTypes ==
  ASSUME NEW p \in Packets
  PROVE  p.n \in Nat /\ p.n \in 1 .. MaxPackets /\ p.key \in BOOLEAN /\ p.again \in BOOLEAN
  BY BoundsAssumption, SMT DEF Packets

LEMMA FirstTimesNat ==
  ASSUME NEW q \in Seq(Packets)
  PROVE  FirstTimes(q) \subseteq Nat
<1>1. DOMAIN q = 1 .. Len(q) /\ \A i \in DOMAIN q : q[i] \in Packets
  BY ElementOfSeq, LenProperties
<1> QED
  BY <1>1, FieldTypes DEF FirstTimes

\* A packet that leaves the front of a queue is the oldest of it.
LEMMA HeadLeaves ==
  ASSUME NEW q \in Seq(Packets), q # << >>, Ordered(q), NEW m \in Nat, UpTo(q, m)
  PROVE  /\ Ordered(Tail(q)) /\ UpTo(Tail(q), m)
         /\ Head(q).again => FirstTimes(Tail(q)) = FirstTimes(q)
         /\ ~Head(q).again => /\ FirstTimes(Tail(q)) = FirstTimes(q) \ {Head(q).n}
                              /\ Head(q).n \in FirstTimes(q)
                              /\ \A n \in FirstTimes(q) : Head(q).n <= n
<1>1. /\ Tail(q) \in Seq(Packets)
      /\ Len(Tail(q)) = Len(q) - 1 /\ Len(q) \in Nat /\ Len(q) >= 1
      /\ DOMAIN Tail(q) = 1 .. Len(q) - 1
      /\ \A i \in 1 .. Len(q) - 1 : Tail(q)[i] = q[i + 1]
      /\ Head(q) = q[1] /\ Head(q) \in Packets
  BY WithoutHead
<1>2. DOMAIN q = 1 .. Len(q) /\ \A i \in DOMAIN q : q[i] \in Packets
  BY ElementOfSeq, LenProperties
<1>3. \A i \in DOMAIN q : q[i].n \in Nat
  BY <1>2, FieldTypes
<1>4. Ordered(Tail(q))
  BY <1>1, <1>2, SMT DEF Ordered
<1>5. UpTo(Tail(q), m)
  BY <1>1, <1>2, SMT DEF UpTo
<1>6. \A n : n \in FirstTimes(q) <=> \E i \in DOMAIN q : ~q[i].again /\ n = q[i].n
  BY DEF FirstTimes
<1>7. \A n : n \in FirstTimes(Tail(q))
               <=> \E i \in DOMAIN Tail(q) : ~Tail(q)[i].again /\ n = Tail(q)[i].n
  BY DEF FirstTimes
<1>8. \A n : n \in FirstTimes(Tail(q)) <=> \E i \in DOMAIN q : i # 1 /\ ~q[i].again /\ n = q[i].n
  <2>1. ASSUME NEW i \in DOMAIN Tail(q)
        PROVE  i + 1 \in DOMAIN q /\ i + 1 # 1 /\ Tail(q)[i] = q[i + 1]
    BY <1>1, <1>2, <2>1, SMT
  <2>2. ASSUME NEW i \in DOMAIN q, i # 1
        PROVE  i - 1 \in DOMAIN Tail(q) /\ Tail(q)[i - 1] = q[i]
    BY <1>1, <1>2, <2>2, SMT
  <2> QED
    BY <1>7, <2>1, <2>2
<1>9. CASE Head(q).again
  <2>1. \A i \in DOMAIN q : ~q[i].again => i # 1
    BY <1>1, <1>9
  <2>2. FirstTimes(Tail(q)) = FirstTimes(q)
    BY <1>6, <1>8, <2>1
  <2> QED
    BY <1>4, <1>5, <1>9, <2>2
<1>10. CASE ~Head(q).again
  <2>1. 1 \in DOMAIN q /\ ~q[1].again /\ Head(q).n = q[1].n
    BY <1>1, <1>2, <1>10, SMT
  <2>2. \A i \in DOMAIN q : i # 1 /\ ~q[i].again => q[1].n < q[i].n
    BY <1>2, <2>1, SMT DEF Ordered
  <2>3. \A n \in FirstTimes(q) : Head(q).n <= n
    BY <1>3, <1>6, <2>1, <2>2, SMT
  <2>4. \A i \in DOMAIN q : i # 1 /\ ~q[i].again => q[i].n # q[1].n
    BY <1>3, <2>1, <2>2, SMT
  <2>5. FirstTimes(Tail(q)) = FirstTimes(q) \ {Head(q).n}
    BY <1>6, <1>8, <2>1, <2>4
  <2> QED
    BY <1>4, <1>5, <1>6, <1>10, <2>1, <2>3, <2>5
<1> QED
  BY <1>9, <1>10

\* A packet that joins the end is a repetition or the newest.
LEMMA EndJoined ==
  ASSUME NEW q \in Seq(Packets), Ordered(q), NEW m \in Nat, UpTo(q, m),
         NEW p \in Packets, NEW k \in Nat, m <= k,
         ~p.again => p.n = m + 1 /\ k = m + 1
  PROVE  /\ Ordered(Append(q, p)) /\ UpTo(Append(q, p), k)
         /\ FirstTimes(Append(q, p)) = FirstTimes(q) \cup (IF p.again THEN {} ELSE {p.n})
<1>1. /\ Append(q, p) \in Seq(Packets)
      /\ DOMAIN Append(q, p) = 1 .. Len(q) + 1
      /\ \A i \in 1 .. Len(q) : Append(q, p)[i] = q[i]
      /\ Append(q, p)[Len(q) + 1] = p
  BY Appended
<1>2. Len(q) \in Nat /\ DOMAIN q = 1 .. Len(q) /\ \A i \in DOMAIN q : q[i] \in Packets
  BY ElementOfSeq, LenProperties
<1>3. \A i \in DOMAIN q : q[i].n \in Nat
  BY <1>2, FieldTypes
<1>4. \A i \in DOMAIN Append(q, p) :
        \/ i \in DOMAIN q /\ Append(q, p)[i] = q[i]
        \/ i = Len(q) + 1 /\ Append(q, p)[i] = p
  BY <1>1, <1>2, SMT
<1>5. UpTo(Append(q, p), k)
  BY <1>3, <1>4, SMT DEF UpTo
<1>6. Ordered(Append(q, p))
  <2> SUFFICES ASSUME NEW i \in DOMAIN Append(q, p), NEW j \in DOMAIN Append(q, p), i < j,
                      ~Append(q, p)[i].again, ~Append(q, p)[j].again
               PROVE  Append(q, p)[i].n < Append(q, p)[j].n
    BY DEF Ordered
  <2>1. i \in DOMAIN q /\ Append(q, p)[i] = q[i]
    BY <1>1, <1>2, <1>4, SMT
  <2>2. CASE j \in DOMAIN q /\ Append(q, p)[j] = q[j]
    BY <2>1, <2>2 DEF Ordered
  <2>3. CASE j = Len(q) + 1 /\ Append(q, p)[j] = p
    BY <1>3, <2>1, <2>3, SMT DEF UpTo
  <2> QED
    BY <1>4, <2>2, <2>3
<1>7. \A n : n \in FirstTimes(Append(q, p))
               <=> \E i \in DOMAIN Append(q, p) : ~Append(q, p)[i].again /\ n = Append(q, p)[i].n
  BY DEF FirstTimes
<1>8. \A n : n \in FirstTimes(q) <=> \E i \in DOMAIN q : ~q[i].again /\ n = q[i].n
  BY DEF FirstTimes
<1>9. Len(q) + 1 \in DOMAIN Append(q, p) /\ DOMAIN q \subseteq DOMAIN Append(q, p)
  BY <1>1, <1>2, SMT
<1>10. \A n : n \in FirstTimes(Append(q, p)) <=> n \in FirstTimes(q) \/ (~p.again /\ n = p.n)
  BY <1>1, <1>2, <1>4, <1>7, <1>8, <1>9
<1> QED
  BY <1>5, <1>6, <1>10

----------------------------------------------------------------------------
\* Steps

\* What a step does to the queues, and to what is known of their packets.
Removes(h) ==
  /\ queue[h] # << >>
  /\ queue' = [queue EXCEPT ![h] = Tail(@)]
  /\ added' = added
  /\ \/ lastSent' = lastSent
     \/ lastSent' = [lastSent EXCEPT ![h] = IF Head(queue[h]).again THEN @ ELSE Head(queue[h]).n]
Adds(h) ==
  \E p \in Packets :
    /\ queue' = [queue EXCEPT ![h] = Pushed(h, p)]
    /\ lastSent' = lastSent
    /\ IF p.again THEN added' = added
                  ELSE added' = [added EXCEPT ![h] = @ + 1] /\ p.n = added[h] + 1
Rests == queue' = queue /\ added' = added /\ lastSent' = lastSent

\* A repetition that ReplayKey pushes is a packet (pipe_packet_handler.cpp:138).
LEMMA RepeatedPacket ==
  ASSUME TypeOK, ReplayInv, NEW h \in Pipes, replay[h].next <= replay[h].end
  PROVE  /\ [keyPackets[h][replay[h].next] EXCEPT !.again = TRUE] \in Packets
         /\ [keyPackets[h][replay[h].next] EXCEPT !.again = TRUE].again
<1>1. keyPackets[h] \in Seq(Packets)
  BY DEF TypeOK
<1>2. replay[h].next \in Nat /\ replay[h].end \in Nat /\ replay[h].next # 0
      /\ replay[h].end <= Len(keyPackets[h])
  BY DEF TypeOK, ReplayInv
<1>3. replay[h].next \in 1 .. Len(keyPackets[h])
  BY <1>1, <1>2, LenProperties, SMT
<1>4. keyPackets[h][replay[h].next] \in Packets
  BY <1>1, <1>3, ElementOfSeq
<1> QED
  BY <1>4 DEF Packets

LEMMA OutputAddsOne ==
  ASSUME TypeOK, NEW h \in Pipes, OutputAdds(h)
  PROVE  Adds(h)
<1>1. PICK key \in BOOLEAN :
        AddPacket(h, [n |-> added[h] + 1, key |-> key, again |-> FALSE], key)
  BY DEF OutputAdds
<1> DEFINE p == [n |-> added[h] + 1, key |-> key, again |-> FALSE]
<1>2. added[h] \in Nat /\ added[h] < MaxPackets
  BY BoundsAssumption, SMT DEF OutputAdds, TypeOK
<1>3. added[h] + 1 \in 1 .. MaxPackets
  BY <1>2, BoundsAssumption, SMT
<1>4. p \in Packets /\ ~p.again /\ p.n = added[h] + 1
  BY <1>3 DEF Packets
<1>5. queue' = [queue EXCEPT ![h] = Pushed(h, p)]
  BY <1>1 DEF AddPacket
<1>6. lastSent' = lastSent /\ added' = [added EXCEPT ![h] = @ + 1]
  BY DEF OutputAdds
<1> QED
  BY <1>4, <1>5, <1>6 DEF Adds

LEMMA StepKinds ==
  ASSUME TypeOK, ReplayInv, Next
  PROVE  Rests \/ \E h \in Pipes : Removes(h) \/ Adds(h)
<1>1. ASSUME NEW h \in Pipes, Thread(h)
      PROVE  Rests \/ Removes(h) \/ Adds(h)
  <2>1. CASE Begin(h) \/ Create(h) \/ Finish(h) \/ Open(h) \/ WriteGlobalHeader(h) \/ Test(h)
    BY <2>1 DEF Begin, Create, Finish, Open, WriteGlobalHeader, Test, Rests, omOnlyVars
  <2>2. CASE CloseQuietly(h) \/ NoticeInterruption(h) \/ ClearInterruption(h) \/ Replayed(h)
    BY <2>2 DEF CloseQuietly, NoticeInterruption, ClearInterruption, Replayed, Rests, omOnlyVars
  <2>3. CASE Take(h)
    <3>1. queue[h] # << >> /\ added' = added
      BY <2>3 DEF Take, TakeVars, omOnlyVars
    <3>2. CASE TakeSent(h)
      BY <3>1, <3>2 DEF TakeSent, Removes
    <3>3. CASE TakeFull(h)
      BY <3>1, <3>3 DEF TakeFull, QueueAfterFailure, Removes
    <3>4. CASE TakeBroken(h)
      BY <3>1, <3>4 DEF TakeBroken, QueueAfterFailure, Removes
    <3> QED
      BY <2>3, <3>2, <3>3, <3>4 DEF Take
  <2>4. CASE ReplayKey(h)
    <3> DEFINE p == [keyPackets[h][replay[h].next] EXCEPT !.again = TRUE]
    <3>1. p \in Packets /\ p.again
      BY <2>4, RepeatedPacket DEF ReplayKey
    <3>2. queue' = [queue EXCEPT ![h] = Pushed(h, p)]
      BY <2>4 DEF ReplayKey, AddPacket
    <3>3. lastSent' = lastSent /\ added' = added
      BY <2>4 DEF ReplayKey, omOnlyVars
    <3> QED
      BY <3>1, <3>2, <3>3 DEF Adds
  <2> QED
    BY <1>1, <2>1, <2>2, <2>3, <2>4 DEF Thread
<1>2. ASSUME NEW h \in Pipes, OutputAdds(h)
      PROVE  Adds(h)
  BY <1>2, OutputAddsOne
<1>3. ASSUME NEW h \in Pipes, OutputTells(h) \/ ReaderOpens(h) \/ ReaderLeaves(h)
      PROVE  Rests
  BY <1>3 DEF OutputTells, ReaderOpens, ReaderLeaves, Rests, threadVars, omOnlyVars
<1>4. CASE Ended /\ UNCHANGED vars
  BY <1>4 DEF vars, threadVars, omOnlyVars, Rests
<1> QED
  BY <1>1, <1>2, <1>3, <1>4 DEF Next

----------------------------------------------------------------------------
\* What a step does to one queue

LEMMA RemovesFromQueue ==
  ASSUME TypeOK, OrderInv, NEW h \in Pipes, Removes(h)
  PROVE  /\ Ordered(queue'[h]) /\ UpTo(queue'[h], added'[h])
         /\ queue'[h] \in Seq(Packets) /\ Len(queue'[h]) <= QueueMax
         /\ queue'[h] = Tail(queue[h])
<1>1. queue[h] \in Seq(Packets) /\ queue[h] # << >> /\ added[h] \in Nat
      /\ Len(queue[h]) <= QueueMax
  BY BoundsAssumption, SMT DEF TypeOK, Removes
<1>2. Ordered(queue[h]) /\ UpTo(queue[h], added[h])
  BY DEF OrderInv
<1>3. queue'[h] = Tail(queue[h]) /\ added'[h] = added[h]
  BY DEF TypeOK, Removes
<1>4. Tail(queue[h]) \in Seq(Packets) /\ Len(Tail(queue[h])) = Len(queue[h]) - 1
      /\ Len(queue[h]) \in Nat
  BY <1>1, WithoutHead
<1>5. Len(Tail(queue[h])) <= QueueMax
  BY <1>1, <1>4, QueueMaxAssumption, SMT
<1>6. Ordered(Tail(queue[h])) /\ UpTo(Tail(queue[h]), added[h])
  BY <1>1, <1>2, HeadLeaves
<1> QED
  BY <1>3, <1>4, <1>5, <1>6

\* The queue a packet is pushed to, after the oldest was dropped if it is full.
Room(h) == IF Full(h) THEN Tail(queue[h]) ELSE queue[h]
OldestOf(lost, h) ==
  lost \subseteq FirstTimes(queue[h]) /\ \A n \in lost : \A m \in FirstTimes(queue[h]) : n <= m

LEMMA RoomMade ==
  ASSUME TypeOK, OrderInv, NEW h \in Pipes
  PROVE  /\ Room(h) \in Seq(Packets) /\ Len(Room(h)) \in Nat /\ Len(Room(h)) + 1 <= QueueMax
         /\ Ordered(Room(h)) /\ UpTo(Room(h), added[h])
         /\ \E lost : OldestOf(lost, h) /\ FirstTimes(Room(h)) = FirstTimes(queue[h]) \ lost
<1>1. queue[h] \in Seq(Packets) /\ added[h] \in Nat /\ Len(queue[h]) <= QueueMax
  BY BoundsAssumption, SMT DEF TypeOK
<1>2. Ordered(queue[h]) /\ UpTo(queue[h], added[h])
  BY DEF OrderInv
<1>3. Len(queue[h]) \in Nat
  BY <1>1, LenProperties
<1>4. CASE ~Full(h)
  <2>1. Room(h) = queue[h]
    BY <1>4 DEF Room
  <2>2. Len(queue[h]) + 1 <= QueueMax
    BY <1>3, <1>4, QueueMaxAssumption, SMT DEF Full
  <2>3. OldestOf({}, h) /\ FirstTimes(Room(h)) = FirstTimes(queue[h]) \ {}
    BY <2>1 DEF OldestOf
  <2> QED
    BY <1>1, <1>2, <1>3, <2>1, <2>2, <2>3
<1>5. CASE Full(h)
  <2>1. queue[h] # << >>
    BY <1>5, QueueMaxAssumption, EmptySeq, SMT DEF Full
  <2>2. Room(h) = Tail(queue[h])
    BY <1>5 DEF Room
  <2>3. Room(h) \in Seq(Packets) /\ Len(Room(h)) = Len(queue[h]) - 1 /\ Len(queue[h]) >= 1
    BY <1>1, <2>1, <2>2, WithoutHead
  <2>4. Len(Room(h)) \in Nat /\ Len(Room(h)) + 1 <= QueueMax
    BY <1>1, <1>3, <2>3, QueueMaxAssumption, SMT
  <2>5. Ordered(Room(h)) /\ UpTo(Room(h), added[h])
    BY <1>1, <1>2, <2>1, <2>2, HeadLeaves
  <2>6. CASE Head(queue[h]).again
    <3>1. OldestOf({}, h)
      BY DEF OldestOf
    <3>2. FirstTimes(Room(h)) = FirstTimes(queue[h]) \ {}
      BY <1>1, <1>2, <2>1, <2>2, <2>6, HeadLeaves
    <3> QED
      BY <2>3, <2>4, <2>5, <3>1, <3>2
  <2>7. CASE ~Head(queue[h]).again
    <3>1. OldestOf({Head(queue[h]).n}, h)
      BY <1>1, <1>2, <2>1, <2>7, HeadLeaves DEF OldestOf
    <3>2. FirstTimes(Room(h)) = FirstTimes(queue[h]) \ {Head(queue[h]).n}
      BY <1>1, <1>2, <2>1, <2>2, <2>7, HeadLeaves
    <3> QED
      BY <2>3, <2>4, <2>5, <3>1, <3>2
  <2> QED
    BY <2>6, <2>7
<1> QED
  BY <1>4, <1>5

LEMMA AddsToQueue ==
  ASSUME TypeOK, OrderInv, NEW h \in Pipes, Adds(h)
  PROVE  /\ Ordered(queue'[h]) /\ UpTo(queue'[h], added'[h])
         /\ queue'[h] \in Seq(Packets) /\ Len(queue'[h]) <= QueueMax
         /\ \E lost : /\ OldestOf(lost, h)
                      /\ \/ /\ added' = added
                            /\ FirstTimes(queue'[h]) = FirstTimes(queue[h]) \ lost
                         \/ /\ added' = [added EXCEPT ![h] = @ + 1]
                            /\ FirstTimes(queue'[h])
                                 = (FirstTimes(queue[h]) \ lost) \cup {added[h] + 1}
<1>1. PICK p \in Packets :
        /\ queue' = [queue EXCEPT ![h] = Pushed(h, p)]
        /\ IF p.again THEN added' = added
                      ELSE added' = [added EXCEPT ![h] = @ + 1] /\ p.n = added[h] + 1
  BY DEF Adds
<1>2. queue'[h] = Append(Room(h), p)
  <2>1. h \in DOMAIN queue
    BY DEF TypeOK
  <2>2. queue'[h] = Pushed(h, p)
    BY <1>1, <2>1
  <2> QED
    BY <2>2 DEF Pushed, Room
<1>3. added[h] \in Nat /\ Room(h) \in Seq(Packets) /\ Len(Room(h)) \in Nat
      /\ Len(Room(h)) + 1 <= QueueMax
      /\ Ordered(Room(h)) /\ UpTo(Room(h), added[h])
  <2>1. added[h] \in Nat
    BY BoundsAssumption, SMT DEF TypeOK
  <2> QED
    BY <2>1, RoomMade
<1>4. PICK lost : OldestOf(lost, h) /\ FirstTimes(Room(h)) = FirstTimes(queue[h]) \ lost
  BY RoomMade
<1>5. queue'[h] \in Seq(Packets) /\ Len(queue'[h]) <= QueueMax
  BY <1>2, <1>3, Appended
<1>6. CASE p.again
  <2>1. added' = added
    BY <1>1, <1>6
  <2>2. Ordered(queue'[h]) /\ UpTo(queue'[h], added[h])
        /\ FirstTimes(queue'[h]) = FirstTimes(Room(h)) \cup {}
    <3>1. added[h] <= added[h]
      BY <1>3, SMT
    <3> QED
      BY <1>2, <1>3, <1>6, <3>1, EndJoined
  <2> QED
    BY <1>4, <1>5, <2>1, <2>2
<1>7. CASE ~p.again
  <2>1. added' = [added EXCEPT ![h] = @ + 1] /\ p.n = added[h] + 1
    BY <1>1, <1>7
  <2>2. added'[h] = added[h] + 1
    BY <2>1 DEF TypeOK
  <2>3. Ordered(queue'[h]) /\ UpTo(queue'[h], added[h] + 1)
        /\ FirstTimes(queue'[h]) = FirstTimes(Room(h)) \cup {p.n}
    <3>1. added[h] + 1 \in Nat /\ added[h] <= added[h] + 1
      BY <1>3, SMT
    <3> QED
      BY <1>2, <1>3, <1>7, <2>1, <3>1, EndJoined
  <2> QED
    BY <1>4, <1>5, <2>1, <2>2, <2>3
<1> QED
  BY <1>6, <1>7

----------------------------------------------------------------------------
\* The queues are ordered and bounded

LEMMA QueueStep ==
  ASSUME TypeOK, OrderInv, Rests \/ \E h \in Pipes : Removes(h) \/ Adds(h)
  PROVE  /\ OrderInv'
         /\ queue' \in [Pipes -> Seq(Packets)]
         /\ \A h \in Pipes : Len(queue'[h]) <= QueueMax
<1>1. CASE Rests
  <2>1. queue' = queue /\ added' = added
    BY <1>1 DEF Rests
  <2> QED
    BY <2>1 DEF TypeOK, OrderInv
<1>2. ASSUME NEW h \in Pipes, Removes(h) \/ Adds(h)
      PROVE  /\ OrderInv'
             /\ queue' \in [Pipes -> Seq(Packets)]
             /\ \A g \in Pipes : Len(queue'[g]) <= QueueMax
  <2>1. /\ Ordered(queue'[h]) /\ UpTo(queue'[h], added'[h])
        /\ queue'[h] \in Seq(Packets) /\ Len(queue'[h]) <= QueueMax
    BY <1>2, RemovesFromQueue, AddsToQueue
  <2>2. PICK q : queue' = [queue EXCEPT ![h] = q]
    BY <1>2 DEF Removes, Adds
  <2>3. PICK n : added' = [added EXCEPT ![h] = n]
    <3>1. DOMAIN added = Pipes /\ added = [added EXCEPT ![h] = added[h]]
      BY DEF TypeOK
    <3> QED
      BY <1>2, <3>1 DEF Removes, Adds
  <2>4. ASSUME NEW g \in Pipes, g # h
        PROVE  queue'[g] = queue[g] /\ added'[g] = added[g]
    BY <2>2, <2>3, <2>4 DEF TypeOK
  <2>5. queue' = [queue EXCEPT ![h] = queue'[h]]
    BY <2>2 DEF TypeOK
  <2>6. queue \in [Pipes -> Seq(Packets)]
    BY DEF TypeOK
  <2>7. queue' \in [Pipes -> Seq(Packets)]
    BY <2>1, <2>5, <2>6
  <2>8. \A g \in Pipes : Len(queue'[g]) <= QueueMax
    BY <2>1, <2>4 DEF TypeOK
  <2>9. OrderInv'
    BY <2>1, <2>4 DEF OrderInv
  <2> QED
    BY <2>7, <2>8, <2>9
<1> QED
  BY <1>1, <1>2

----------------------------------------------------------------------------
\* The refinement

LEMMA ChannelInit == Init => Channel!Init
<1> SUFFICES ASSUME Init PROVE Channel!Init
  OBVIOUS
<1>1. \A h \in Pipes : Waiting(h) = {}
  BY DEF Init, Waiting
<1>2. [h \in Pipes |-> Waiting(h)] = [h \in Pipes |-> {}]
  BY <1>1
<1> QED
  BY <1>2 DEF Init, Channel!Init

LEMMA ChannelStep ==
  ASSUME TypeOK, OrderInv, Rests \/ \E h \in Pipes : Removes(h) \/ Adds(h)
  PROVE  [Channel!Next]_(Channel!vars)
<1> DEFINE w == [h \in Pipes |-> Waiting(h)]
<1>1. \A h \in Pipes : w[h] = FirstTimes(queue[h]) /\ w'[h] = FirstTimes(queue'[h])
  BY DEF Waiting, FirstTimes
<1>2. CASE Rests
  <2>1. w' = w /\ added' = added /\ lastSent' = lastSent
    BY <1>2 DEF Rests, Waiting
  <2> QED
    BY <2>1 DEF Channel!vars
<1>3. ASSUME NEW h \in Pipes, Removes(h)
      PROVE  [Channel!Next]_(Channel!vars)
  <2>1. queue'[h] = Tail(queue[h])
    BY <1>3, RemovesFromQueue
  <2>2. ASSUME NEW g \in Pipes, g # h
        PROVE  w'[g] = w[g]
    BY <1>1, <1>3, <2>2 DEF Removes, TypeOK
  <2>3. w' = [w EXCEPT ![h] = FirstTimes(Tail(queue[h]))]
    BY <1>1, <2>1, <2>2
  <2>4. queue[h] \in Seq(Packets) /\ queue[h] # << >> /\ added[h] \in Nat
    BY <1>3, BoundsAssumption, SMT DEF TypeOK, Removes
  <2>5. Ordered(queue[h]) /\ UpTo(queue[h], added[h])
    BY DEF OrderInv
  <2> DEFINE first == Head(queue[h])
  <2>6. CASE first.again
    <3>1. FirstTimes(Tail(queue[h])) = w[h]
      BY <1>1, <2>4, <2>5, <2>6, HeadLeaves
    <3>2. w' = w
      BY <2>3, <3>1
    <3>3. lastSent' = lastSent
      BY <1>3, <2>6 DEF Removes, TypeOK
    <3>4. added' = added
      BY <1>3 DEF Removes
    <3> QED
      BY <3>2, <3>3, <3>4 DEF Channel!vars
  <2>7. CASE ~first.again
    <3>1. FirstTimes(Tail(queue[h])) = w[h] \ {first.n} /\ first.n \in w[h]
          /\ \A n \in w[h] : first.n <= n
      BY <1>1, <2>4, <2>5, <2>7, HeadLeaves
    <3>2. Channel!Oldest(h, first.n)
      BY <3>1 DEF Channel!Oldest
    <3>3. w' = [w EXCEPT ![h] = @ \ {first.n}]
      BY <2>3, <3>1
    <3>4. added' = added
      BY <1>3 DEF Removes
    <3>5. CASE lastSent' = lastSent
      <4>1. Channel!Lose(h)
        BY <3>1, <3>2, <3>3, <3>4, <3>5 DEF Channel!Lose
      <4> QED
        BY <4>1 DEF Channel!Next
    <3>6. CASE lastSent' = [lastSent EXCEPT ![h] = first.n]
      <4>1. Channel!Deliver(h)
        BY <3>1, <3>2, <3>3, <3>4, <3>6 DEF Channel!Deliver
      <4> QED
        BY <4>1 DEF Channel!Next
    <3> QED
      BY <1>3, <2>7, <3>5, <3>6 DEF Removes
  <2> QED
    BY <2>6, <2>7
<1>4. ASSUME NEW h \in Pipes, Adds(h)
      PROVE  [Channel!Next]_(Channel!vars)
  <2>1. PICK lost :
          /\ OldestOf(lost, h)
          /\ \/ added' = added /\ FirstTimes(queue'[h]) = FirstTimes(queue[h]) \ lost
             \/ /\ added' = [added EXCEPT ![h] = @ + 1]
                /\ FirstTimes(queue'[h]) = (FirstTimes(queue[h]) \ lost) \cup {added[h] + 1}
    BY <1>4, AddsToQueue
  <2>2. lastSent' = lastSent
    BY <1>4 DEF Adds
  <2>3. ASSUME NEW g \in Pipes, g # h
        PROVE  w'[g] = w[g]
    BY <1>1, <1>4, <2>3 DEF Adds, TypeOK
  <2>4. w' = [w EXCEPT ![h] = FirstTimes(queue'[h])]
    BY <1>1, <2>3
  <2>5. lost \in SUBSET w[h] /\ \A n \in lost : Channel!Oldest(h, n)
    BY <1>1, <2>1 DEF OldestOf, Channel!Oldest
  <2>6. CASE /\ added' = [added EXCEPT ![h] = @ + 1]
             /\ FirstTimes(queue'[h]) = (FirstTimes(queue[h]) \ lost) \cup {added[h] + 1}
    <3>1. w' = [w EXCEPT ![h] = (@ \ lost) \cup {added[h] + 1}]
      BY <1>1, <2>4, <2>6
    <3>2. Channel!Accept(h)
      BY <2>2, <2>5, <2>6, <3>1 DEF Channel!Accept
    <3> QED
      BY <3>2 DEF Channel!Next
  <2>7. CASE added' = added /\ FirstTimes(queue'[h]) = FirstTimes(queue[h]) \ lost
    <3>1. w' = [w EXCEPT ![h] = @ \ lost]
      BY <1>1, <2>4, <2>7
    <3>2. CASE lost = {}
      <4>1. w' = w
        BY <3>1, <3>2
      <4> QED
        BY <2>2, <2>7, <4>1 DEF Channel!vars
    <3>3. CASE lost # {}
      <4>1. PICK n : n \in lost
        BY <3>3
      <4>2. ASSUME NEW m \in lost
            PROVE  m = n
        <5>1. m \in Nat /\ n \in Nat
          BY <2>1, <4>1, <4>2, FirstTimesNat DEF OldestOf, TypeOK
        <5>2. m <= n /\ n <= m
          BY <2>1, <4>1, <4>2 DEF OldestOf
        <5> QED
          BY <5>1, <5>2, SMT
      <4>3. w' = [w EXCEPT ![h] = @ \ {n}]
        BY <3>1, <4>1, <4>2
      <4>4. n \in w[h] /\ Channel!Oldest(h, n)
        BY <2>5, <4>1
      <4>5. Channel!Lose(h)
        BY <2>2, <2>7, <4>3, <4>4 DEF Channel!Lose
      <4> QED
        BY <4>5 DEF Channel!Next
    <3> QED
      BY <3>2, <3>3
  <2> QED
    BY <2>1, <2>6, <2>7
<1> QED
  BY <1>2, <1>3, <1>4

----------------------------------------------------------------------------
\* Types

\* What a step leaves to prove of TypeOK when the queues are done.
OthersOK ==
  /\ pc \in [Pipes -> {"begin", "create", "open", "header", "loop", "peek", "take",
                       "after", "clear", "replay", "done"}]
  /\ keyPackets \in [Pipes -> Seq(Packets)]
  /\ isRunning \in [Pipes -> BOOLEAN] /\ isOpen \in [Pipes -> BOOLEAN]
  /\ pipeInterrupted \in BOOLEAN
  /\ replay \in [Pipes -> [next : Nat, end : Nat]]
  /\ omTold \subseteq Pipes /\ crash \in BOOLEAN /\ broken \in [Pipes -> BOOLEAN]
ReadersOK ==
  /\ reader \in [Pipes -> BOOLEAN] /\ readers \in [Pipes -> 0 .. MaxReaders]
  /\ stream \in [Pipes -> Seq(Packets \cup {Header, Half})]
  /\ late \in [Pipes -> BOOLEAN]
CountsOK ==
  /\ added \in [Pipes -> 0 .. MaxPackets] /\ lastSent \in [Pipes -> 0 .. MaxPackets]
  /\ evicted \in [Pipes -> SUBSET Packets]
QueuesOK == queue \in [Pipes -> Seq(Packets)] /\ \A h \in Pipes : Len(queue[h]) <= QueueMax

LEMMA TypeParts == TypeOK <=> OthersOK /\ ReadersOK /\ CountsOK /\ QueuesOK
  BY DEF TypeOK, OthersOK, ReadersOK, CountsOK, QueuesOK

LEMMA OthersStep ==
  ASSUME TypeOK, ReplayInv, Next
  PROVE  OthersOK' /\ ReplayInv'
<1> USE DEF OthersOK, ReplayInv
<1>1. OthersOK
  BY TypeParts
<1>2. ASSUME NEW h \in Pipes, Thread(h)
      PROVE  OthersOK' /\ ReplayInv'
  <2>1. CASE Begin(h)
    BY <1>1, <2>1 DEF Begin, Goes, pipeVars, omOnlyVars
  <2>2. CASE Create(h)
    BY <1>1, <2>2 DEF Create, Goes, pipeVars, omOnlyVars
  <2>3. CASE Finish(h)
    BY <1>1, <2>3 DEF Finish, Goes, pipeVars, omOnlyVars
  <2>4. CASE Open(h)
    <3>1. reader[h] \in BOOLEAN
      BY DEF TypeOK
    <3> QED
      BY <1>1, <2>4, <3>1 DEF Open, OpenLoop, pipeVars, omOnlyVars
  <2>5. CASE WriteGlobalHeader(h)
    BY <1>1, <2>5 DEF WriteGlobalHeader, Goes, omOnlyVars
  <2>6. CASE Test(h)
    BY <1>1, <2>6 DEF Test, Loop, Peek, Goes, pipeVars, omOnlyVars
  <2>7. CASE Take(h)
    <3>1. UNCHANGED TakeVars
      BY <2>7 DEF Take
    <3>2. CASE TakeSent(h)
      BY <1>1, <3>1, <3>2 DEF TakeSent, Goes, TakeVars, omOnlyVars
    <3>3. CASE TakeFull(h)
      BY <1>1, <3>1, <3>3 DEF TakeFull, FailureLeaves, Goes, TakeVars, omOnlyVars
    <3>4. CASE TakeBroken(h)
      BY <1>1, <3>1, <3>4 DEF TakeBroken, FailureLeaves, Goes, TakeVars, omOnlyVars
    <3> QED
      BY <2>7, <3>2, <3>3, <3>4 DEF Take
  <2>8. CASE CloseQuietly(h)
    BY <1>1, <2>8 DEF CloseQuietly, Goes, pipeVars, omOnlyVars
  <2>9. CASE NoticeInterruption(h)
    BY <1>1, <2>9 DEF NoticeInterruption, Goes, pipeVars, omOnlyVars
  <2>10. CASE ClearInterruption(h)
    <3>1. Len(keyPackets[h]) \in Nat
      BY <1>1, LenProperties
    <3>2. [next |-> 1, end |-> ReplayEnd(h)] \in [next : Nat, end : Nat]
      BY <3>1, SMT DEF ReplayEnd
    <3>3. replay' = [replay EXCEPT ![h] = [next |-> 1, end |-> ReplayEnd(h)]]
          /\ keyPackets' = keyPackets
      BY <2>10 DEF ClearInterruption
    <3>4. replay'[h].next = 1 /\ replay'[h].end = Len(keyPackets[h])
      BY <1>1, <3>3 DEF ReplayEnd
    <3>5. Len(keyPackets[h]) <= Len(keyPackets[h]) /\ 1 # 0
      BY <3>1, SMT
    <3>6. ReplayInv'
      <4> SUFFICES ASSUME NEW g \in Pipes
                   PROVE  replay'[g].next # 0 /\ replay'[g].end <= Len(keyPackets'[g])
        OBVIOUS
      <4>1. CASE g = h
        BY <3>3, <3>4, <3>5, <4>1
      <4>2. CASE g # h
        BY <1>1, <3>3, <4>2
      <4> QED
        BY <4>1, <4>2
    <3>7. OthersOK'
      BY <1>1, <2>10, <3>2, <3>3 DEF ClearInterruption, Goes, omOnlyVars
    <3> QED
      BY <3>6, <3>7
  <2>11. CASE ReplayKey(h)
    <3>1. replay' = [replay EXCEPT ![h].next = @ + 1] /\ keyPackets' = keyPackets
      BY <2>11 DEF ReplayKey, AddPacket
    <3>2. replay[h].next \in Nat /\ replay[h].next + 1 \in Nat /\ replay[h].next + 1 # 0
      BY <1>1, SMT
    <3>3. replay' \in [Pipes -> [next : Nat, end : Nat]]
      BY <1>1, <3>1, <3>2
    <3>4. ReplayInv'
      BY <1>1, <3>1, <3>2
    <3> QED
      BY <1>1, <2>11, <3>1, <3>3, <3>4 DEF ReplayKey, pipeVars, omOnlyVars
  <2>12. CASE Replayed(h)
    BY <1>1, <2>12 DEF Replayed, Goes, pipeVars, omOnlyVars
  <2> QED
    BY <1>2, <2>1, <2>2, <2>3, <2>4, <2>5, <2>6, <2>7, <2>8, <2>9, <2>10, <2>11, <2>12 DEF Thread
<1>3. ASSUME NEW h \in Pipes, OutputAdds(h)
      PROVE  OthersOK' /\ ReplayInv'
  <2>1. PICK key \in BOOLEAN :
          /\ AddPacket(h, [n |-> added[h] + 1, key |-> key, again |-> FALSE], key)
          /\ crash' \in IF key /\ pc[h] = "replay" THEN BOOLEAN ELSE {FALSE}
    BY <1>3 DEF OutputAdds
  <2> DEFINE p == [n |-> added[h] + 1, key |-> key, again |-> FALSE]
  <2>2. p \in Packets
    <3>1. added[h] + 1 \in 1 .. MaxPackets
      BY <1>3, BoundsAssumption, SMT DEF OutputAdds, TypeOK
    <3> QED
      BY <3>1 DEF Packets
  <2>3. \/ keyPackets' = keyPackets
        \/ keyPackets' = [keyPackets EXCEPT ![h] = Append(@, p)]
    BY <2>1 DEF AddPacket
  <2>4. keyPackets[h] \in Seq(Packets)
    BY <1>1
  <2>5. Append(keyPackets[h], p) \in Seq(Packets)
        /\ Len(Append(keyPackets[h], p)) = Len(keyPackets[h]) + 1
    BY <2>2, <2>4, Appended
  <2>6. keyPackets' \in [Pipes -> Seq(Packets)]
    BY <1>1, <2>3, <2>5
  <2>7. ASSUME NEW g \in Pipes
        PROVE  \/ keyPackets'[g] = keyPackets[g]
               \/ Len(keyPackets'[g]) = Len(keyPackets[g]) + 1
    <3>1. g # h => keyPackets'[g] = keyPackets[g]
      BY <1>1, <2>3
    <3>2. keyPackets'[h] = keyPackets[h] \/ keyPackets'[h] = Append(keyPackets[h], p)
      BY <1>1, <2>3
    <3> QED
      BY <2>5, <3>1, <3>2
  <2>8. replay' = replay
    BY <1>3 DEF OutputAdds
  <2>9. ReplayInv'
    <3> SUFFICES ASSUME NEW g \in Pipes
                 PROVE  replay'[g].next # 0 /\ replay'[g].end <= Len(keyPackets'[g])
      OBVIOUS
    <3>1. Len(keyPackets[g]) \in Nat /\ replay[g].end \in Nat
      BY <1>1, LenProperties
    <3>2. Len(keyPackets'[g]) = Len(keyPackets[g])
          \/ Len(keyPackets'[g]) = Len(keyPackets[g]) + 1
      BY <2>7
    <3> QED
      BY <2>8, <3>1, <3>2, SMT
  <2>10. crash' \in BOOLEAN
    BY <2>1
  <2> QED
    BY <1>1, <1>3, <2>6, <2>8, <2>9, <2>10 DEF OutputAdds, pipeVars
<1>4. ASSUME NEW h \in Pipes, OutputTells(h)
      PROVE  OthersOK' /\ ReplayInv'
  BY <1>1, <1>4 DEF OutputTells, pipeVars
<1>5. ASSUME NEW h \in Pipes, ReaderOpens(h) \/ ReaderLeaves(h)
      PROVE  OthersOK' /\ ReplayInv'
  BY <1>1, <1>5 DEF ReaderOpens, ReaderLeaves, threadVars, omOnlyVars
<1>6. CASE Ended /\ UNCHANGED vars
  BY <1>1, <1>6 DEF vars, threadVars, pipeVars, omOnlyVars
<1> QED
  BY <1>2, <1>3, <1>4, <1>5, <1>6 DEF Next

LEMMA StreamGrows ==
  ASSUME ReadersOK, NEW h \in Pipes, NEW e \in Packets \cup {Header, Half}
  PROVE  [stream EXCEPT ![h] = Append(@, e)] \in [Pipes -> Seq(Packets \cup {Header, Half})]
<1>1. stream \in [Pipes -> Seq(Packets \cup {Header, Half})]
  BY DEF ReadersOK
<1>2. Append(stream[h], e) \in Seq(Packets \cup {Header, Half})
  BY <1>1, Appended
<1> QED
  BY <1>1, <1>2

LEMMA ReadersStep ==
  ASSUME TypeOK, Next
  PROVE  ReadersOK'
<1>1. ReadersOK
  BY TypeParts
<1>2. CASE UNCHANGED <<reader, readers, stream, late>>
  BY <1>1, <1>2 DEF ReadersOK
<1>3. ASSUME NEW h \in Pipes, Thread(h)
      PROVE  ReadersOK'
  <2>0. stream \in [Pipes -> Seq(Packets \cup {Header, Half})]
    BY <1>1 DEF ReadersOK
  <2>1. CASE Begin(h) \/ Finish(h) \/ Open(h) \/ Test(h) \/ CloseQuietly(h)
             \/ NoticeInterruption(h) \/ ReplayKey(h) \/ Replayed(h)
    BY <1>2, <2>1 DEF Begin, Finish, Open, Test, CloseQuietly, NoticeInterruption, ReplayKey,
                      Replayed, pipeVars
  <2>2. CASE ClearInterruption(h)
    BY <1>2, <2>2 DEF ClearInterruption
  <2>3. CASE Create(h)
    <3>1. << >> \in Seq(Packets \cup {Header, Half})
      BY EmptySeq
    <3> QED
      BY <1>1, <2>3, <3>1 DEF Create, ReadersOK
  <2>4. CASE WriteGlobalHeader(h)
    <3>1. stream' = stream \/ stream' = [stream EXCEPT ![h] = Append(@, Header)]
      BY <2>4 DEF WriteGlobalHeader
    <3>2. stream' \in [Pipes -> Seq(Packets \cup {Header, Half})]
      <4>1. Header \in Packets \cup {Header, Half}
        OBVIOUS
      <4>2. [stream EXCEPT ![h] = Append(@, Header)] \in [Pipes -> Seq(Packets \cup {Header, Half})]
        BY <1>1, <4>1, StreamGrows
      <4> QED
        BY <2>0, <3>1, <4>2
    <3> QED
      BY <1>1, <2>4, <3>2 DEF WriteGlobalHeader, ReadersOK
  <2>5. CASE Take(h)
    <3>1. readers' = readers /\ late' = late
      BY <2>5 DEF Take, TakeVars
    <3>2. Head(queue[h]) \in Packets
      BY <2>5, WithoutHead DEF Take, TypeOK
    <3>3. \/ stream' = stream
          \/ \E e \in Packets \cup {Header, Half} : stream' = [stream EXCEPT ![h] = Append(@, e)]
      <4>1. CASE TakeSent(h)
        BY <3>2, <4>1 DEF TakeSent
      <4>2. CASE TakeFull(h)
        BY <4>2 DEF TakeFull
      <4>3. CASE TakeBroken(h)
        BY <4>3 DEF TakeBroken
      <4> QED
        BY <2>5, <4>1, <4>2, <4>3 DEF Take
    <3>4. reader' = reader \/ reader' = [reader EXCEPT ![h] = FALSE]
      BY <2>5 DEF Take, TakeSent, TakeFull, TakeBroken
    <3>5. stream' \in [Pipes -> Seq(Packets \cup {Header, Half})]
      BY <2>0, <1>1, <3>3, StreamGrows
    <3> QED
      BY <1>1, <3>1, <3>4, <3>5 DEF ReadersOK
  <2> QED
    BY <1>3, <2>1, <2>2, <2>3, <2>4, <2>5 DEF Thread
<1>4. ASSUME NEW h \in Pipes, ReaderOpens(h)
      PROVE  ReadersOK'
  <2>1. PICK i \in 1 .. Len(stream[h]) + 1 :
          stream' = [stream EXCEPT ![h] = SubSeq(@, i, Len(@))]
    BY <1>4 DEF ReaderOpens
  <2>2. stream[h] \in Seq(Packets \cup {Header, Half})
    BY <1>1 DEF ReadersOK
  <2>3. SubSeq(stream[h], i, Len(stream[h])) \in Seq(Packets \cup {Header, Half})
    BY <2>2, SubSeqProperties, LenProperties, SMT
  <2>4. stream' \in [Pipes -> Seq(Packets \cup {Header, Half})]
    BY <1>1, <2>1, <2>3 DEF ReadersOK
  <2>5. readers' \in [Pipes -> 0 .. MaxReaders]
    <3>1. readers[h] + 1 \in 0 .. MaxReaders
      BY <1>1, <1>4, BoundsAssumption, SMT DEF ReaderOpens, ReadersOK
    <3> QED
      BY <1>1, <1>4, <3>1 DEF ReaderOpens, ReadersOK
  <2>6. late' \in [Pipes -> BOOLEAN] /\ reader' \in [Pipes -> BOOLEAN]
    BY <1>1, <1>4 DEF ReaderOpens, ReadersOK
  <2> QED
    BY <2>4, <2>5, <2>6 DEF ReadersOK
<1>5. ASSUME NEW h \in Pipes, ReaderLeaves(h)
      PROVE  ReadersOK'
  BY <1>1, <1>5 DEF ReaderLeaves, ReadersOK
<1>6. ASSUME NEW h \in Pipes, OutputAdds(h) \/ OutputTells(h)
      PROVE  ReadersOK'
  BY <1>2, <1>6 DEF OutputAdds, OutputTells, pipeVars
<1>7. CASE Ended /\ UNCHANGED vars
  BY <1>2, <1>7 DEF vars, pipeVars
<1> QED
  BY <1>3, <1>4, <1>5, <1>6, <1>7 DEF Next

LEMMA CountsStep ==
  ASSUME TypeOK, ReplayInv, Next
  PROVE  CountsOK'
<1>1. CountsOK /\ QueuesOK
  BY TypeParts
<1>2. ASSUME NEW h \in Pipes, queue[h] # << >>
      PROVE  Head(queue[h]) \in Packets /\ Head(queue[h]).n \in 0 .. MaxPackets
  <2>1. Head(queue[h]) \in Packets
    BY <1>1, <1>2, WithoutHead DEF QueuesOK
  <2>2. Head(queue[h]).n \in 1 .. MaxPackets
    BY <2>1, FieldTypes
  <2> QED
    BY <2>1, <2>2, SMT
<1>3. added' \in [Pipes -> 0 .. MaxPackets] /\ lastSent' \in [Pipes -> 0 .. MaxPackets]
  <2>1. CASE Rests
    BY <1>1, <2>1 DEF Rests, CountsOK
  <2>2. ASSUME NEW h \in Pipes, Removes(h)
        PROVE  added' \in [Pipes -> 0 .. MaxPackets] /\ lastSent' \in [Pipes -> 0 .. MaxPackets]
    <3>1. Head(queue[h]).n \in 0 .. MaxPackets
      BY <1>2, <2>2 DEF Removes
    <3> QED
      BY <1>1, <2>2, <3>1 DEF Removes, CountsOK
  <2>3. ASSUME NEW h \in Pipes, Adds(h)
        PROVE  added' \in [Pipes -> 0 .. MaxPackets] /\ lastSent' \in [Pipes -> 0 .. MaxPackets]
    <3>1. PICK p \in Packets :
            /\ lastSent' = lastSent
            /\ IF p.again THEN added' = added
                          ELSE added' = [added EXCEPT ![h] = @ + 1] /\ p.n = added[h] + 1
      BY <2>3 DEF Adds
    <3>2. p.n \in 1 .. MaxPackets
      BY FieldTypes
    <3>3. p.n \in 0 .. MaxPackets
      BY <3>2, SMT
    <3>4. added' = added \/ added' = [added EXCEPT ![h] = p.n]
      BY <3>1
    <3> QED
      BY <1>1, <3>1, <3>3, <3>4 DEF CountsOK
  <2> QED
    BY <2>1, <2>2, <2>3, StepKinds
<1>4. ASSUME NEW h \in Pipes, NEW p, NEW key, AddPacket(h, p, key)
      PROVE  evicted' \in [Pipes -> SUBSET Packets]
  <2>1. CASE ~Full(h)
    BY <1>1, <1>4, <2>1 DEF AddPacket, CountsOK
  <2>2. CASE Full(h)
    <3>1. queue[h] # << >>
      BY <2>2, QueueMaxAssumption, EmptySeq, SMT DEF Full
    <3>2. evicted' = [evicted EXCEPT ![h] = @ \cup {Head(queue[h])}]
      BY <1>4, <2>2 DEF AddPacket
    <3> QED
      BY <1>1, <1>2, <3>1, <3>2 DEF CountsOK
  <2> QED
    BY <2>1, <2>2
<1>5. evicted' = evicted \/ \E h \in Pipes : \E p, key : AddPacket(h, p, key)
  <2>1. ASSUME NEW h \in Pipes, Thread(h)
        PROVE  evicted' = evicted \/ \E p, key : AddPacket(h, p, key)
    <3>1. CASE Begin(h) \/ Create(h) \/ Finish(h) \/ Open(h) \/ WriteGlobalHeader(h) \/ Test(h)
               \/ Take(h)
      BY <3>1 DEF Begin, Create, Finish, Open, WriteGlobalHeader, Test, Take, TakeVars
    <3>2. CASE CloseQuietly(h) \/ NoticeInterruption(h) \/ ClearInterruption(h) \/ Replayed(h)
      BY <3>2 DEF CloseQuietly, NoticeInterruption, ClearInterruption, Replayed
    <3>3. CASE ReplayKey(h)
      BY <3>3 DEF ReplayKey
    <3> QED
      BY <2>1, <3>1, <3>2, <3>3 DEF Thread
  <2>2. ASSUME NEW h \in Pipes, OutputAdds(h)
        PROVE  \E p, key : AddPacket(h, p, key)
    BY <2>2 DEF OutputAdds
  <2>3. ASSUME NEW h \in Pipes, OutputTells(h) \/ ReaderOpens(h) \/ ReaderLeaves(h)
        PROVE  evicted' = evicted
    BY <2>3 DEF OutputTells, ReaderOpens, ReaderLeaves, threadVars
  <2>4. CASE Ended /\ UNCHANGED vars
    BY <2>4 DEF vars, threadVars
  <2> QED
    BY <2>1, <2>2, <2>3, <2>4 DEF Next
<1> QED
  BY <1>1, <1>3, <1>4, <1>5 DEF CountsOK

----------------------------------------------------------------------------
\* Taking

\* Only the thread itself takes from its queue, and it leaves "take" as it does.
LEMMA TakeStep ==
  ASSUME TypeOK, TakeFindsPacket, ReplayInv, OrderInv, Next
  PROVE  TakeFindsPacket'
<1>1. pc \in [Pipes -> {"begin", "create", "open", "header", "loop", "peek", "take",
                        "after", "clear", "replay", "done"}]
      /\ queue \in [Pipes -> Seq(Packets)]
  BY DEF TypeOK
<1>2. CASE UNCHANGED <<pc, queue>>
  BY <1>2 DEF TakeFindsPacket
<1>3. ASSUME NEW h \in Pipes, NEW to, pc' = [pc EXCEPT ![h] = to], queue' = queue,
             to = "take" => queue[h] # << >>
      PROVE  TakeFindsPacket'
  BY <1>1, <1>3 DEF TakeFindsPacket
<1>4. ASSUME NEW h \in Pipes, Adds(h), pc' = pc
      PROVE  TakeFindsPacket'
  <2>1. PICK p \in Packets : queue' = [queue EXCEPT ![h] = Pushed(h, p)]
    BY <1>4 DEF Adds
  <2>2. Room(h) \in Seq(Packets) /\ Len(Room(h)) \in Nat
    BY RoomMade
  <2>3. Append(Room(h), p) # << >>
    <3>1. Len(Append(Room(h), p)) = Len(Room(h)) + 1
      BY <2>2, Appended
    <3> QED
      BY <2>2, <3>1, EmptySeq, SMT
  <2>4. Pushed(h, p) # << >>
    BY <2>3 DEF Pushed, Room
  <2> QED
    BY <1>1, <1>4, <2>1, <2>4 DEF TakeFindsPacket
<1>5. ASSUME NEW h \in Pipes, Thread(h)
      PROVE  TakeFindsPacket'
  <2>1. CASE Begin(h) \/ Create(h) \/ Finish(h) \/ WriteGlobalHeader(h) \/ CloseQuietly(h)
             \/ NoticeInterruption(h) \/ ClearInterruption(h) \/ Replayed(h)
    <3>1. queue' = queue
      BY <2>1 DEF Begin, Create, Finish, WriteGlobalHeader, CloseQuietly, NoticeInterruption,
                  ClearInterruption, Replayed
    <3>2. \E to : to # "take" /\ pc' = [pc EXCEPT ![h] = to]
      BY <2>1 DEF Begin, Create, Finish, WriteGlobalHeader, CloseQuietly, NoticeInterruption,
                  ClearInterruption, Replayed, Goes
    <3> QED
      BY <1>3, <3>1, <3>2
  <2>2. CASE Open(h)
    <3>1. queue' = queue
      BY <2>2 DEF Open
    <3>2. pc' = pc \/ \E to : to # "take" /\ pc' = [pc EXCEPT ![h] = to]
      BY <2>2 DEF Open, OpenLoop
    <3> QED
      BY <1>2, <1>3, <3>1, <3>2
  <2>3. CASE Test(h)
    <3>1. queue' = queue
      BY <2>3 DEF Test
    <3>2. \E to : (to = "take" => queue[h] # << >>) /\ pc' = [pc EXCEPT ![h] = to]
      BY <2>3 DEF Test, Loop, Peek, Goes
    <3> QED
      BY <1>3, <3>1, <3>2
  <2>4. CASE Take(h)
    <3>1. queue' = [queue EXCEPT ![h] = Tail(@)]
      BY <2>4 DEF Take, TakeSent, TakeFull, TakeBroken, QueueAfterFailure
    <3>2. \E to : to # "take" /\ pc' = [pc EXCEPT ![h] = to]
      BY <2>4 DEF Take, TakeSent, TakeFull, TakeBroken, FailureLeaves, Goes
    <3> QED
      BY <1>1, <3>1, <3>2 DEF TakeFindsPacket
  <2>5. CASE ReplayKey(h)
    <3>1. pc' = pc
      BY <2>5 DEF ReplayKey
    <3> DEFINE p == [keyPackets[h][replay[h].next] EXCEPT !.again = TRUE]
    <3>2. p \in Packets /\ p.again
      BY <2>5, RepeatedPacket DEF ReplayKey
    <3>3. queue' = [queue EXCEPT ![h] = Pushed(h, p)] /\ lastSent' = lastSent /\ added' = added
      BY <2>5 DEF ReplayKey, AddPacket, omOnlyVars
    <3>4. Adds(h)
      BY <3>2, <3>3 DEF Adds
    <3> QED
      BY <1>4, <3>1, <3>4
  <2> QED
    BY <1>5, <2>1, <2>2, <2>3, <2>4, <2>5 DEF Thread
<1>6. ASSUME NEW h \in Pipes, OutputAdds(h)
      PROVE  TakeFindsPacket'
  <2>1. pc' = pc
    BY <1>6 DEF OutputAdds
  <2>2. Adds(h)
    BY <1>6, OutputAddsOne
  <2> QED
    BY <1>4, <2>1, <2>2
<1>7. ASSUME NEW h \in Pipes, OutputTells(h) \/ ReaderOpens(h) \/ ReaderLeaves(h)
      PROVE  TakeFindsPacket'
  BY <1>2, <1>7 DEF OutputTells, ReaderOpens, ReaderLeaves, threadVars
<1>8. CASE Ended /\ UNCHANGED vars
  BY <1>2, <1>8 DEF vars, threadVars
<1> QED
  BY <1>5, <1>6, <1>7, <1>8 DEF Next

----------------------------------------------------------------------------
\* The life of a thread

LEMMA LifeStep ==
  ASSUME TypeOK, Next, NEW g \in Pipes, Life(g)' # Life(g)
  PROVE  <<Life(g), Life(g)'>> \in LifeSteps
<1>1. pc \in [Pipes -> {"begin", "create", "open", "header", "loop", "peek", "take",
                        "after", "clear", "replay", "done"}]
      /\ isRunning \in [Pipes -> BOOLEAN]
  BY DEF TypeOK
<1>2. ~(pc'[g] = pc[g] /\ isRunning'[g] = isRunning[g])
  BY DEF Life
<1>3. ASSUME pc[g] \notin {"begin", "done"}, pc'[g] \notin {"begin", "done"},
             isRunning'[g] = isRunning[g]
      PROVE  FALSE
  BY <1>3 DEF Life
<1>4. ASSUME pc[g] \notin {"begin", "done"}, pc'[g] = "done", ~isRunning[g]
      PROVE  <<Life(g), Life(g)'>> \in LifeSteps
  BY <1>4 DEF Life, LifeSteps
<1>5. ASSUME NEW h \in Pipes, Thread(h)
      PROVE  <<Life(g), Life(g)'>> \in LifeSteps
  <2>1. CASE Begin(h)
    <3>1. pc' = [pc EXCEPT ![h] = "create"] /\ isRunning' = [isRunning EXCEPT ![h] = TRUE]
          /\ pc[h] = "begin"
      BY <2>1 DEF Begin, Goes
    <3>2. g = h
      BY <1>1, <1>2, <3>1
    <3> QED
      BY <1>1, <3>1, <3>2 DEF Life, LifeSteps
  <2>2. CASE Finish(h)
    <3>1. pc' = [pc EXCEPT ![h] = "done"] /\ isRunning' = isRunning
          /\ pc[h] = "create" /\ ~isRunning[h]
      BY <2>2 DEF Finish, Goes
    <3>2. g = h
      BY <1>1, <1>2, <3>1
    <3> QED
      BY <1>1, <1>4, <3>1, <3>2
  <2>3. CASE Open(h)
    <3>1. isRunning' = isRunning /\ pc[h] = "open"
      BY <2>3 DEF Open
    <3>2. \/ pc' = pc
          \/ pc' = [pc EXCEPT ![h] = "header"]
          \/ pc' = [pc EXCEPT ![h] = "done"] /\ ~isRunning[h]
      BY <2>3 DEF Open, OpenLoop
    <3>3. g = h
      BY <1>1, <1>2, <3>1, <3>2
    <3>4. pc'[g] = "open" \/ pc'[g] = "header" \/ (pc'[g] = "done" /\ ~isRunning[g])
      BY <1>1, <3>1, <3>2, <3>3
    <3> QED
      BY <1>3, <1>4, <3>1, <3>3, <3>4
  <2>4. CASE Create(h) \/ WriteGlobalHeader(h) \/ Test(h) \/ Take(h) \/ CloseQuietly(h)
             \/ NoticeInterruption(h) \/ ClearInterruption(h) \/ Replayed(h)
    <3>1. isRunning' = isRunning
      BY <2>4 DEF Create, WriteGlobalHeader, Test, Take, TakeVars, CloseQuietly,
                  NoticeInterruption, ClearInterruption, Replayed
    <3>2. pc[h] \notin {"begin", "done"}
      BY <2>4 DEF Create, WriteGlobalHeader, Test, Loop, Peek, Take, CloseQuietly,
                  NoticeInterruption, ClearInterruption, Replayed, Goes
    <3>3. \E to : to \notin {"begin", "done"} /\ pc' = [pc EXCEPT ![h] = to]
      BY <2>4 DEF Create, WriteGlobalHeader, Test, Loop, Peek, Take, TakeSent, TakeFull,
                  TakeBroken, FailureLeaves, CloseQuietly, NoticeInterruption,
                  ClearInterruption, Replayed, Goes
    <3>4. g = h
      BY <1>1, <1>2, <3>1, <3>3
    <3>5. pc'[g] \notin {"begin", "done"}
      BY <1>1, <3>3, <3>4
    <3> QED
      BY <1>3, <3>1, <3>2, <3>4, <3>5
  <2>5. CASE ReplayKey(h)
    BY <1>2, <2>5 DEF ReplayKey
  <2> QED
    BY <1>5, <2>1, <2>2, <2>3, <2>4, <2>5 DEF Thread
<1>6. ASSUME NEW h \in Pipes, OutputTells(h)
      PROVE  <<Life(g), Life(g)'>> \in LifeSteps
  <2>1. pc' = pc /\ isRunning' = [isRunning EXCEPT ![h] = FALSE]
    BY <1>6 DEF OutputTells
  <2>2. g = h
    BY <1>1, <1>2, <2>1
  <2>3. isRunning[g] /\ ~isRunning'[g] /\ pc'[g] = pc[g]
    BY <1>1, <1>2, <2>1, <2>2
  <2> QED
    BY <2>3 DEF Life, LifeSteps
<1>7. ASSUME NEW h \in Pipes, OutputAdds(h) \/ ReaderOpens(h) \/ ReaderLeaves(h)
      PROVE  FALSE
  BY <1>2, <1>7 DEF OutputAdds, ReaderOpens, ReaderLeaves, threadVars
<1>8. CASE Ended /\ UNCHANGED vars
  BY <1>2, <1>8 DEF vars, threadVars
<1> QED
  BY <1>5, <1>6, <1>7, <1>8 DEF Next

----------------------------------------------------------------------------
\* Theorems

LEMMA IInvInit == Init => IInv
<1> SUFFICES ASSUME Init PROVE IInv
  OBVIOUS
<1>1. << >> \in Seq(Packets) /\ << >> \in Seq(Packets \cup {Header, Half})
      /\ DOMAIN << >> = {} /\ Len(<< >>) = 0
  BY EmptySeq
<1>2. 0 \in 0 .. MaxPackets /\ 0 \in 0 .. MaxReaders /\ 0 <= QueueMax
  BY BoundsAssumption, QueueMaxAssumption, SMT
<1>3. [next |-> 1, end |-> 0] \in [next : Nat, end : Nat]
  OBVIOUS
<1>4. OthersOK
  BY <1>1, <1>3 DEF Init, OthersOK
<1>5. ReadersOK
  BY <1>1, <1>2 DEF Init, ReadersOK
<1>6. CountsOK /\ QueuesOK
  BY <1>1, <1>2 DEF Init, CountsOK, QueuesOK
<1>7. ReplayInv
  BY <1>1, SMT DEF Init, ReplayInv
<1>8. TakeFindsPacket
  BY DEF Init, TakeFindsPacket
<1>9. OrderInv
  BY <1>1 DEF Init, OrderInv, Ordered, UpTo
<1> QED
  BY <1>4, <1>5, <1>6, <1>7, <1>8, <1>9, TypeParts DEF IInv

LEMMA IInvStep == IInv /\ [Next]_vars => IInv'
<1> SUFFICES ASSUME IInv, [Next]_vars PROVE IInv'
  OBVIOUS
<1>1. CASE UNCHANGED vars
  BY <1>1 DEF IInv, TypeOK, TakeFindsPacket, ReplayInv, OrderInv, vars, threadVars, pipeVars,
              omOnlyVars
<1>2. CASE Next
  <2>1. TypeOK /\ TakeFindsPacket /\ ReplayInv /\ OrderInv
    BY DEF IInv
  <2>2. OthersOK' /\ ReplayInv'
    BY <1>2, <2>1, OthersStep
  <2>3. ReadersOK' /\ CountsOK'
    BY <1>2, <2>1, ReadersStep, CountsStep
  <2>4. OrderInv' /\ QueuesOK'
    BY <1>2, <2>1, StepKinds, QueueStep DEF QueuesOK
  <2>5. TakeFindsPacket'
    BY <1>2, <2>1, TakeStep
  <2>6. TypeOK'
    BY <2>2, <2>3, <2>4 DEF TypeOK, OthersOK, ReadersOK, CountsOK, QueuesOK
  <2> QED
    BY <2>2, <2>4, <2>5, <2>6 DEF IInv
<1> QED
  BY <1>1, <1>2

LEMMA IInvHolds == Spec => []IInv
  BY IInvInit, IInvStep, PTL DEF Spec

\* The variables keep their types, and no queue grows past its limit
\* (pipe_packet_handler.cpp:50).
THEOREM PipesTypeOK == Spec => []TypeOK
<1>1. IInv => TypeOK
  BY DEF IInv
<1> QED
  BY <1>1, IInvHolds, PTL

\* front and pop are never called on an empty queue (pipe_packet_handler.cpp:105).
THEOREM PipesTakeFindsPacket == Spec => []TakeFindsPacket
<1>1. IInv => TakeFindsPacket
  BY DEF IInv
<1> QED
  BY <1>1, IInvHolds, PTL

\* Every handler implements a lossy channel: over all the readers of a pipe,
\* packets are sent in order and once, repetitions of key packets apart.
THEOREM PipesAreLossyChannels == Spec => SentInOrder
<1>1. Init => Channel!Init
  BY ChannelInit
<1>2. IInv /\ [Next]_vars => [Channel!Next]_(Channel!vars)
  <2> SUFFICES ASSUME IInv, [Next]_vars PROVE [Channel!Next]_(Channel!vars)
    OBVIOUS
  <2>1. TypeOK /\ ReplayInv /\ OrderInv
    BY DEF IInv
  <2>2. CASE UNCHANGED vars
    <3>1. Rests
      BY <2>2 DEF vars, threadVars, omOnlyVars, Rests
    <3> QED
      BY <2>1, <3>1, ChannelStep
  <2>3. CASE Next
    BY <2>1, <2>3, StepKinds, ChannelStep
  <2> QED
    BY <2>2, <2>3
<1> QED
  BY <1>1, <1>2, IInvHolds, PTL DEF Spec, SentInOrder, Channel!Spec

\* The life of a thread is the one OutputManager's model takes for granted:
\* spawned, running, told to stop, over (pipe_packet_handler.cpp:66-145).
THEOREM PipesLiveAsAssumed == Spec => LifeAsAssumed
<1> DEFINE Step == \A h \in Pipes : Life(h)' # Life(h) => <<Life(h), Life(h)'>> \in LifeSteps
<1>1. IInv /\ [Next]_vars => [Step]_vars
  BY LifeStep DEF IInv
<1> QED
  BY <1>1, IInvHolds, PTL DEF Spec, LifeAsAssumed

----------------------------------------------------------------------------
\* What a reader finds

InLoop == {"loop", "peek", "take"}

\* A pipe is empty until its global header is written, while its reader was in
\* time the header is there and first, and a cut record ends the connection.
Good(s, where, tardy, read) ==
  /\ where \in {"begin", "open", "header"} => s = << >>
  /\ \A i \in DOMAIN s : s[i] = Half => i = Len(s) /\ where \notin InLoop
  /\ ~tardy => \A i \in DOMAIN s : (s[i] = Header) = (i = 1)
  /\ ~tardy /\ s = << >> /\ where \in InLoop => ~read

PcapInv == \A h \in Pipes : Good(stream[h], pc[h], late[h], reader[h])

Finds == Packets \cup {Header, Half}

LEMMA Marks == Header # Half /\ Header \notin Packets /\ Half \notin Packets
<1>1. Header # Half
  BY DEF Header, Half
<1>2. Header.n = 0 /\ Half.n = 0
  BY DEF Header, Half
<1>3. \A p \in Packets : p.n # 0
  BY FieldTypes, SMT
<1> QED
  BY <1>1, <1>2, <1>3

LEMMA GoodStays ==
  ASSUME NEW s, NEW where, NEW to, NEW tardy, NEW r, NEW now, Good(s, where, tardy, r),
         now => r,
         \/ to = where
         \/ to \notin {"begin", "open", "header"} \cup InLoop
         \/ where \in InLoop /\ to \in InLoop
         \/ where = "open" /\ to = "header"
  PROVE  Good(s, to, tardy, now)
<1>1. to \in {"begin", "open", "header"} => s = << >>
  BY DEF Good, InLoop
<1>2. \A i \in DOMAIN s : s[i] = Half => i = Len(s) /\ to \notin InLoop
  BY DEF Good, InLoop
<1>3. ~tardy /\ s = << >> /\ to \in InLoop => ~now
  BY DEF Good, InLoop
<1> QED
  BY <1>1, <1>2, <1>3 DEF Good

\* A record that follows what the reader of a thread in its loop finds.
LEMMA GoodRecord ==
  ASSUME NEW s \in Seq(Finds), NEW where \in InLoop, NEW to, NEW tardy, NEW r, NEW now,
         NEW e \in Finds, Good(s, where, tardy, r),
         ~tardy => s # << >>, e # Header, e = Half => to \notin InLoop,
         to \notin {"begin", "open", "header"}
  PROVE  Good(Append(s, e), to, tardy, now)
<1>1. /\ Len(Append(s, e)) = Len(s) + 1 /\ DOMAIN Append(s, e) = 1 .. Len(s) + 1
      /\ \A i \in 1 .. Len(s) : Append(s, e)[i] = s[i]
      /\ Append(s, e)[Len(s) + 1] = e
  BY Appended
<1>2. Len(s) \in Nat /\ DOMAIN s = 1 .. Len(s)
  BY LenProperties
<1>3. Append(s, e) # << >>
  BY <1>1, <1>2, SMT
<1>4. \A i \in DOMAIN Append(s, e) : i \in DOMAIN s \/ i = Len(s) + 1
  BY <1>1, <1>2, SMT
<1>5. \A i \in DOMAIN s : s[i] # Half
  BY DEF Good
<1>6. \A i \in DOMAIN Append(s, e) :
        Append(s, e)[i] = Half => i = Len(Append(s, e)) /\ to \notin InLoop
  BY <1>1, <1>2, <1>4, <1>5
<1>7. ASSUME ~tardy, NEW i \in DOMAIN Append(s, e)
      PROVE  (Append(s, e)[i] = Header) = (i = 1)
  <2>1. CASE i \in DOMAIN s
    <3>1. (s[i] = Header) = (i = 1)
      BY <1>7, <2>1 DEF Good
    <3>2. Append(s, e)[i] = s[i]
      BY <1>1, <1>2, <2>1
    <3> QED
      BY <3>1, <3>2
  <2>2. CASE i = Len(s) + 1
    <3>1. Len(s) # 0
      BY <1>7, EmptySeq
    <3>2. i # 1
      BY <1>2, <2>2, <3>1, SMT
    <3> QED
      BY <1>1, <2>2, <3>2
  <2> QED
    BY <1>4, <2>1, <2>2
<1> QED
  BY <1>3, <1>6, <1>7 DEF Good

LEMMA GoodHeader ==
  ASSUME NEW tardy, NEW r
  PROVE  Good(Append(<< >>, Header), "loop", tardy, r)
<1>1. Append(<< >>, Header) = <<Header>>
  OBVIOUS
<1>2. DOMAIN <<Header>> = {1} /\ <<Header>>[1] = Header /\ <<Header>> # << >>
  OBVIOUS
<1> QED
  BY <1>1, <1>2, Marks DEF Good

\* A reader that comes while the thread holds the pipe open finds the end of
\* what was left in it, else an empty pipe.
LEMMA GoodRest ==
  ASSUME NEW s \in Seq(Finds), NEW h \in Pipes, NEW tardy, NEW r, Good(s, pc[h], tardy, r),
         NEW i \in 1 .. Len(s) + 1, Held(h) \/ i > Len(s)
  PROVE  Good(SubSeq(s, i, Len(s)), pc[h], pc[h] \notin {"begin", "create", "open", "header"},
              TRUE)
<1> DEFINE rest == SubSeq(s, i, Len(s))
           tard == pc[h] \notin {"begin", "create", "open", "header"}
<1>1. Len(s) \in Nat /\ DOMAIN s = 1 .. Len(s) /\ i \in Nat /\ i >= 1
  BY LenProperties, SMT
<1>2. i > Len(s) => rest = << >>
  BY <1>1, SubSeqEmpty, SMT
<1>3. DOMAIN << >> = {}
  OBVIOUS
<1>4. CASE rest = << >>
  <2> HIDE DEF rest
  <2>1. ~tard => pc[h] \notin InLoop
    BY DEF InLoop
  <2>2. DOMAIN rest = {}
    BY <1>3, <1>4
  <2>3. pc[h] \in {"begin", "open", "header"} => rest = << >>
    BY <1>4
  <2> HIDE DEF tard
  <2>4. Good(rest, pc[h], tard, TRUE)
    BY <1>4, <2>1, <2>2, <2>3 DEF Good
  <2> QED
    BY <2>4 DEF rest, tard
<1>5. CASE Held(h) /\ i <= Len(s)
  <2>1. tard
    BY <1>5 DEF Held
  <2>2. \A j \in i .. Len(s) : s[j] \in Finds
    BY <1>1, ElementOfSeq, SMT
  <2>3. Len(rest) = Len(s) - i + 1 /\ rest \in Seq(Finds)
        /\ \A j \in 1 .. Len(s) - i + 1 : rest[j] = s[i + j - 1]
    BY <1>1, <1>5, <2>2, SubSeqProperties, SMT
  <2>4. DOMAIN rest = 1 .. Len(s) - i + 1
    BY <2>3, LenProperties
  <2> HIDE DEF rest
  <2>5. ASSUME NEW j \in DOMAIN rest, rest[j] = Half
        PROVE  j = Len(rest) /\ pc[h] \notin InLoop
    <3>0. j \in Nat /\ 1 <= j /\ j <= Len(s) - i + 1
      BY <2>4, <1>1, <2>5, SMT
    <3>1. s[i + j - 1] = Half
      BY <2>3, <2>4, <2>5
    <3>2. i + j - 1 \in DOMAIN s
      BY <1>1, <3>0, SMT
    <3>3. i + j - 1 = Len(s) /\ pc[h] \notin InLoop
      BY <3>1, <3>2 DEF Good
    <3>4. j = Len(s) - i + 1
      BY <1>1, <3>0, <3>3, SMT
    <3> QED
      BY <2>3, <3>3, <3>4
  <2>6. pc[h] \notin {"begin", "open", "header"}
    BY <2>1
  <2> HIDE DEF tard
  <2>7. Good(rest, pc[h], tard, TRUE)
    BY <2>1, <2>5, <2>6 DEF Good
  <2> QED
    BY <2>7 DEF rest, tard
<1>6. i <= Len(s) \/ i > Len(s)
  BY <1>1, SMT
<1> QED
  BY <1>2, <1>4, <1>5, <1>6

\* A step changes what one pipe's reader finds, or where its thread is.
LEMMA PcapElsewhere ==
  ASSUME PcapInv, NEW h \in Pipes, Good(stream'[h], pc'[h], late'[h], reader'[h]),
         \A g \in Pipes \ {h} : /\ stream'[g] = stream[g] /\ pc'[g] = pc[g]
                                /\ late'[g] = late[g] /\ reader'[g] = reader[g]
  PROVE  PcapInv'
<1>1. ASSUME NEW g \in Pipes, g # h
      PROVE  Good(stream'[g], pc'[g], late'[g], reader'[g])
  <2>1. Good(stream[g], pc[g], late[g], reader[g])
    BY DEF PcapInv
  <2>2. stream'[g] = stream[g] /\ pc'[g] = pc[g] /\ late'[g] = late[g] /\ reader'[g] = reader[g]
    BY <1>1
  <2> QED
    BY <2>1, <2>2
<1>2. \A g \in Pipes : Good(stream'[g], pc'[g], late'[g], reader'[g])
  BY <1>1
<1> QED
  BY <1>2 DEF PcapInv

LEMMA TakenRecord ==
  ASSUME TypeOK, PcapInv, NEW h \in Pipes, Take(h)
  PROVE  PcapInv'
<1>1. OthersOK /\ ReadersOK /\ queue[h] \in Seq(Packets)
  BY TypeParts DEF QueuesOK
<1>2. pc[h] = "take" /\ queue[h] # << >> /\ late' = late /\ pc[h] \in InLoop
  BY DEF Take, TakeVars, InLoop
<1>3. Good(stream[h], pc[h], late[h], reader[h]) /\ stream[h] \in Seq(Finds)
  BY <1>1 DEF PcapInv, ReadersOK, Finds
<1>4. Head(queue[h]) \in Packets
  BY <1>1, <1>2, WithoutHead
<1>5. reader[h] /\ ~late[h] => stream[h] # << >>
  BY <1>2, <1>3 DEF Good
<1>6. ASSUME NEW e \in Finds, e # Header, NEW to, to \notin {"begin", "open", "header"},
             e = Half => to \notin InLoop, reader[h], pc' = [pc EXCEPT ![h] = to],
             stream' = [stream EXCEPT ![h] = Append(@, e)],
             reader' = reader \/ reader' = [reader EXCEPT ![h] = FALSE]
      PROVE  PcapInv'
  <2>1. Good(Append(stream[h], e), to, late[h], reader'[h])
    BY <1>2, <1>3, <1>5, <1>6, GoodRecord
  <2>2. stream'[h] = Append(stream[h], e) /\ pc'[h] = to /\ late'[h] = late[h]
    BY <1>1, <1>2, <1>6 DEF OthersOK, ReadersOK
  <2>3. \A g \in Pipes \ {h} : /\ stream'[g] = stream[g] /\ pc'[g] = pc[g]
                               /\ late'[g] = late[g] /\ reader'[g] = reader[g]
    BY <1>1, <1>2, <1>6 DEF OthersOK, ReadersOK
  <2>4. Good(stream'[h], pc'[h], late'[h], reader'[h])
    BY <2>1, <2>2
  <2> QED
    BY <2>3, <2>4, PcapElsewhere
<1>7. ASSUME pc' = [pc EXCEPT ![h] = "after"], stream' = stream,
             reader' = reader \/ reader' = [reader EXCEPT ![h] = FALSE]
      PROVE  PcapInv'
  <2>1. reader'[h] => reader[h]
    BY <1>1, <1>7 DEF ReadersOK
  <2>2. "after" \notin {"begin", "open", "header"} \cup InLoop
    BY DEF InLoop
  <2>3. Good(stream[h], "after", late[h], reader'[h])
    BY <1>3, <2>1, <2>2, GoodStays
  <2>4. stream'[h] = stream[h] /\ pc'[h] = "after" /\ late'[h] = late[h]
    BY <1>1, <1>2, <1>7 DEF OthersOK
  <2>5. \A g \in Pipes \ {h} : /\ stream'[g] = stream[g] /\ pc'[g] = pc[g]
                               /\ late'[g] = late[g] /\ reader'[g] = reader[g]
    BY <1>1, <1>2, <1>7 DEF OthersOK, ReadersOK
  <2>6. Good(stream'[h], pc'[h], late'[h], reader'[h])
    BY <2>3, <2>4
  <2> QED
    BY <2>5, <2>6, PcapElsewhere
<1>8. Half \in Finds /\ Half # Header /\ "after" \notin InLoop
      /\ "after" \notin {"begin", "open", "header"}
      /\ "loop" \notin {"begin", "open", "header"}
  BY Marks DEF Finds, InLoop
<1>9. CASE TakeSent(h)
  <2>1. Head(queue[h]) \in Finds /\ Head(queue[h]) # Header /\ Head(queue[h]) # Half
    BY <1>4, Marks DEF Finds
  <2>2. reader[h] /\ pc' = [pc EXCEPT ![h] = "loop"] /\ reader' = reader
        /\ stream' = [stream EXCEPT ![h] = Append(@, Head(queue[h]))]
    BY <1>9 DEF TakeSent, Goes
  <2> QED
    BY <1>6, <1>8, <2>1, <2>2
<1>10. CASE TakeFull(h)
  <2>1. reader[h] /\ pc' = [pc EXCEPT ![h] = "after"] /\ reader' = reader
    BY <1>10 DEF TakeFull, FailureLeaves, Goes
  <2>2. stream' = stream \/ stream' = [stream EXCEPT ![h] = Append(@, Half)]
    BY <1>10 DEF TakeFull
  <2> QED
    BY <1>6, <1>7, <1>8, <2>1, <2>2
<1>11. CASE TakeBroken(h)
  <2>1. pc' = [pc EXCEPT ![h] = "after"] /\ reader' = [reader EXCEPT ![h] = FALSE]
    BY <1>11 DEF TakeBroken, FailureLeaves, Goes
  <2>2. stream' = IF reader[h] THEN [stream EXCEPT ![h] = Append(@, Half)] ELSE stream
    BY <1>11 DEF TakeBroken
  <2> QED
    BY <1>6, <1>7, <1>8, <2>1, <2>2
<1> QED
  BY <1>9, <1>10, <1>11 DEF Take

\* The steps of a thread that write nothing.
LEMMA PcapMoves ==
  ASSUME TypeOK, PcapInv, NEW h \in Pipes, NEW to,
         pc' = [pc EXCEPT ![h] = to], stream' = stream, late' = late,
         \/ reader' = reader
         \/ reader' = [reader EXCEPT ![h] = FALSE],
         \/ to = pc[h]
         \/ to \notin {"begin", "open", "header"} \cup InLoop
         \/ pc[h] \in InLoop /\ to \in InLoop
         \/ pc[h] = "open" /\ to = "header"
  PROVE  PcapInv'
<1>1. OthersOK /\ ReadersOK
  BY TypeParts
<1>2. Good(stream[h], pc[h], late[h], reader[h])
  BY DEF PcapInv
<1>3. reader'[h] => reader[h]
  BY <1>1 DEF ReadersOK
<1>4. Good(stream[h], to, late[h], reader'[h])
  BY <1>2, <1>3, GoodStays
<1>5. pc'[h] = to
  BY <1>1 DEF OthersOK
<1>6. Good(stream'[h], pc'[h], late'[h], reader'[h])
  BY <1>4, <1>5
<1>7. \A g \in Pipes \ {h} : /\ stream'[g] = stream[g] /\ pc'[g] = pc[g]
                             /\ late'[g] = late[g] /\ reader'[g] = reader[g]
  BY <1>1 DEF OthersOK, ReadersOK
<1> QED
  BY <1>6, <1>7, PcapElsewhere

LEMMA PcapOfThread ==
  ASSUME TypeOK, PcapInv, NEW h \in Pipes, Thread(h)
  PROVE  PcapInv'
<1>1. OthersOK /\ ReadersOK
  BY TypeParts
<1>2. pc \in [Pipes -> {"begin", "create", "open", "header", "loop", "peek", "take",
                        "after", "clear", "replay", "done"}]
  BY <1>1 DEF OthersOK
<1>3. CASE Begin(h) \/ Finish(h) \/ CloseQuietly(h) \/ NoticeInterruption(h)
           \/ ClearInterruption(h) \/ Replayed(h)
  <2>1. stream' = stream /\ late' = late /\ reader' = reader
    BY <1>3 DEF Begin, Finish, CloseQuietly, NoticeInterruption, ClearInterruption, Replayed,
                pipeVars
  <2>2. \E to : /\ to \notin {"begin", "open", "header"} \cup InLoop
                /\ pc' = [pc EXCEPT ![h] = to]
    BY <1>3 DEF Begin, Finish, CloseQuietly, NoticeInterruption, ClearInterruption, Replayed,
                Goes, InLoop
  <2> QED
    BY <2>1, <2>2, PcapMoves
<1>4. CASE Open(h)
  <2>1. stream' = stream /\ late' = late /\ reader' = reader /\ pc[h] = "open"
    BY <1>4 DEF Open, pipeVars
  <2>2. \/ pc' = pc
        \/ pc' = [pc EXCEPT ![h] = "header"]
        \/ pc' = [pc EXCEPT ![h] = "done"]
    BY <1>4 DEF Open, OpenLoop
  <2>3. pc' = pc => pc' = [pc EXCEPT ![h] = "open"]
    BY <1>2, <2>1
  <2>4. "done" \notin {"begin", "open", "header"} \cup InLoop
    BY DEF InLoop
  <2>5. CASE pc' = [pc EXCEPT ![h] = "open"]
    BY <2>1, <2>5, PcapMoves
  <2>6. CASE pc' = [pc EXCEPT ![h] = "header"]
    BY <2>1, <2>6, PcapMoves
  <2>7. CASE pc' = [pc EXCEPT ![h] = "done"]
    BY <2>1, <2>4, <2>7, PcapMoves
  <2> QED
    BY <2>2, <2>3, <2>5, <2>6, <2>7
<1>5. CASE Test(h)
  <2>1. stream' = stream /\ late' = late /\ reader' = reader
    BY <1>5 DEF Test, pipeVars
  <2>2. \E to : /\ pc' = [pc EXCEPT ![h] = to]
                /\ \/ pc[h] \in InLoop /\ to \in InLoop
                   \/ to \notin {"begin", "open", "header"} \cup InLoop
    BY <1>5 DEF Test, Loop, Peek, Goes, InLoop
  <2> QED
    BY <2>1, <2>2, PcapMoves
<1>6. CASE ReplayKey(h)
  <2>1. stream' = stream /\ late' = late /\ reader' = reader /\ pc' = pc
    BY <1>6 DEF ReplayKey, pipeVars
  <2>2. pc' = [pc EXCEPT ![h] = pc[h]]
    BY <1>2, <2>1
  <2> QED
    BY <2>1, <2>2, PcapMoves
<1>7. CASE Create(h)
  <2>1. /\ pc' = [pc EXCEPT ![h] = "open"] /\ reader' = [reader EXCEPT ![h] = FALSE]
        /\ stream' = [stream EXCEPT ![h] = << >>] /\ late' = late
    BY <1>7 DEF Create, Goes
  <2>2. pc'[h] = "open" /\ stream'[h] = << >> /\ reader'[h] = FALSE
    BY <1>1, <2>1 DEF OthersOK, ReadersOK
  <2>3. DOMAIN << >> = {}
    OBVIOUS
  <2>4. Good(stream'[h], pc'[h], late'[h], reader'[h])
    BY <2>2, <2>3 DEF Good
  <2>5. \A g \in Pipes \ {h} : /\ stream'[g] = stream[g] /\ pc'[g] = pc[g]
                               /\ late'[g] = late[g] /\ reader'[g] = reader[g]
    BY <1>1, <2>1 DEF OthersOK, ReadersOK
  <2> QED
    BY <2>4, <2>5, PcapElsewhere
<1>8. CASE WriteGlobalHeader(h)
  <2>1. /\ pc[h] = "header" /\ pc' = [pc EXCEPT ![h] = "loop"] /\ reader' = reader
        /\ late' = late
    BY <1>8 DEF WriteGlobalHeader, Goes
  <2>2. stream[h] = << >>
    BY <2>1 DEF PcapInv, Good
  <2>3. pc'[h] = "loop" /\ \A g \in Pipes \ {h} : pc'[g] = pc[g]
    BY <1>2, <2>1
  <2>4. CASE reader[h]
    <3>1. stream' = [stream EXCEPT ![h] = Append(@, Header)]
      BY <1>8, <2>4 DEF WriteGlobalHeader
    <3>2. stream'[h] = Append(<< >>, Header) /\ \A g \in Pipes \ {h} : stream'[g] = stream[g]
      BY <1>1, <2>2, <3>1 DEF ReadersOK
    <3>3. Good(stream'[h], pc'[h], late'[h], reader'[h])
      BY <2>3, <3>2, GoodHeader
    <3> QED
      BY <2>1, <2>3, <3>2, <3>3, PcapElsewhere
  <2>5. CASE ~reader[h]
    <3>1. stream' = stream
      BY <1>8, <2>5 DEF WriteGlobalHeader
    <3>2. stream'[h] = << >> /\ ~reader'[h] /\ DOMAIN << >> = {}
      BY <2>1, <2>2, <2>5, <3>1
    <3>3. Good(stream'[h], pc'[h], late'[h], reader'[h])
      BY <2>3, <3>2 DEF Good
    <3> QED
      BY <2>1, <2>3, <3>1, <3>3, PcapElsewhere
  <2> QED
    BY <2>4, <2>5
<1>9. CASE Take(h)
  BY <1>9, TakenRecord
<1> QED
  BY <1>3, <1>4, <1>5, <1>6, <1>7, <1>8, <1>9 DEF Thread

LEMMA PcapStep ==
  ASSUME TypeOK, PcapInv, Next
  PROVE  PcapInv'
<1>1. OthersOK /\ ReadersOK
  BY TypeParts
<1>2. ASSUME UNCHANGED <<pc, stream, late, reader>>
      PROVE  PcapInv'
  BY <1>2 DEF PcapInv
<1>3. ASSUME NEW h \in Pipes, OutputAdds(h) \/ OutputTells(h)
      PROVE  PcapInv'
  BY <1>2, <1>3 DEF OutputAdds, OutputTells, pipeVars
<1>4. ASSUME NEW h \in Pipes, ReaderOpens(h)
      PROVE  PcapInv'
  <2>1. PICK i \in 1 .. Len(stream[h]) + 1 :
          /\ Held(h) \/ i > Len(stream[h])
          /\ stream' = [stream EXCEPT ![h] = SubSeq(@, i, Len(@))]
    BY <1>4 DEF ReaderOpens
  <2>2. /\ pc' = pc /\ reader' = [reader EXCEPT ![h] = TRUE]
        /\ late' = [late EXCEPT ![h] = pc[h] \notin {"begin", "create", "open", "header"}]
    BY <1>4 DEF ReaderOpens, threadVars
  <2>3. stream[h] \in Seq(Finds) /\ Good(stream[h], pc[h], late[h], reader[h])
    BY <1>1 DEF PcapInv, ReadersOK, Finds
  <2>4. Good(SubSeq(stream[h], i, Len(stream[h])), pc[h],
             pc[h] \notin {"begin", "create", "open", "header"}, TRUE)
    BY <2>1, <2>3, GoodRest
  <2>5. /\ stream'[h] = SubSeq(stream[h], i, Len(stream[h])) /\ reader'[h] = TRUE
        /\ late'[h] = (pc[h] \notin {"begin", "create", "open", "header"})
    BY <1>1, <2>1, <2>2 DEF ReadersOK
  <2>6. Good(stream'[h], pc'[h], late'[h], reader'[h])
    BY <2>2, <2>4, <2>5
  <2>7. \A g \in Pipes \ {h} : /\ stream'[g] = stream[g] /\ pc'[g] = pc[g]
                               /\ late'[g] = late[g] /\ reader'[g] = reader[g]
    BY <1>1, <2>1, <2>2 DEF OthersOK, ReadersOK
  <2> QED
    BY <2>6, <2>7, PcapElsewhere
<1>5. ASSUME NEW h \in Pipes, ReaderLeaves(h)
      PROVE  PcapInv'
  <2>1. /\ pc' = pc /\ stream' = stream /\ late' = late
        /\ reader' = [reader EXCEPT ![h] = FALSE]
    BY <1>5 DEF ReaderLeaves, threadVars
  <2>2. pc' = [pc EXCEPT ![h] = pc[h]]
    BY <1>1, <2>1 DEF OthersOK
  <2> QED
    BY <2>1, <2>2, PcapMoves
<1>6. CASE Ended /\ UNCHANGED vars
  BY <1>2, <1>6 DEF vars, threadVars, pipeVars
<1> QED
  BY <1>3, <1>4, <1>5, <1>6, PcapOfThread DEF Next

----------------------------------------------------------------------------
\* The keys of a thread that has lost its reader

Queued(h, i) ==
  \/ evicted[h] # {}
  \/ \E j \in DOMAIN queue[h] : queue[h][j].n = keyPackets[h][i].n
KeysAt(h) ==
  /\ pc[h] \in InLoop \cup {"begin"} => ~broken[h]
  /\ broken[h] /\ pc[h] = "after" => pipeInterrupted
  /\ broken[h] /\ pc[h] = "replay" =>
       \A i \in DOMAIN keyPackets[h] :
         i < replay[h].next \/ i > replay[h].end => Queued(h, i)
  /\ broken[h] /\ pc[h] \in {"create", "open", "header"} =>
       \A i \in DOMAIN keyPackets[h] : Queued(h, i)

\* Of a thread that no other shares the flag with.
KeysInv == Cardinality(Pipes) = 1 => \A h \in Pipes : KeysAt(h)

\* A packet that is added waits at the end, and those before it are where they
\* were unless a full queue dropped one.
LEMMA AddedIsQueued ==
  ASSUME TypeOK, OrderInv, NEW h \in Pipes, NEW p \in Packets, NEW key, AddPacket(h, p, key)
  PROVE  /\ \E j \in DOMAIN queue'[h] : queue'[h][j] = p
         /\ \/ evicted'[h] # {}
            \/ /\ evicted'[h] = evicted[h]
               /\ \A j \in DOMAIN queue[h] : j \in DOMAIN queue'[h] /\ queue'[h][j] = queue[h][j]
<1>1. QueuesOK /\ CountsOK
  BY TypeParts
<1>2. Room(h) \in Seq(Packets) /\ Len(Room(h)) \in Nat
  BY RoomMade
<1>3. queue'[h] = Append(Room(h), p)
  BY <1>1 DEF AddPacket, Pushed, Room, QueuesOK
<1>4. /\ DOMAIN Append(Room(h), p) = 1 .. Len(Room(h)) + 1
      /\ \A i \in 1 .. Len(Room(h)) : Append(Room(h), p)[i] = Room(h)[i]
      /\ Append(Room(h), p)[Len(Room(h)) + 1] = p
  BY <1>2, Appended
<1>5. Len(Room(h)) + 1 \in DOMAIN queue'[h] /\ queue'[h][Len(Room(h)) + 1] = p
  BY <1>2, <1>3, <1>4, SMT
<1>6. CASE Full(h)
  <2>1. evicted'[h] = evicted[h] \cup {Head(queue[h])}
    BY <1>1, <1>6 DEF AddPacket, CountsOK
  <2> QED
    BY <1>5, <2>1
<1>7. CASE ~Full(h)
  <2>1. evicted' = evicted /\ Room(h) = queue[h]
    BY <1>7 DEF AddPacket, Room
  <2>2. DOMAIN queue[h] = 1 .. Len(queue[h])
    BY <1>1, LenProperties DEF QueuesOK
  <2>3. ASSUME NEW j \in DOMAIN queue[h]
        PROVE  j \in DOMAIN queue'[h] /\ queue'[h][j] = queue[h][j]
    <3>1. j \in 1 .. Len(Room(h)) /\ j \in 1 .. Len(Room(h)) + 1
      BY <1>2, <2>1, <2>2, SMT
    <3> QED
      BY <1>3, <1>4, <2>1, <3>1
  <2> QED
    BY <1>5, <2>1, <2>3
<1> QED
  BY <1>6, <1>7

\* So what was queued is queued, and so is the packet.
LEMMA QueuedStays ==
  ASSUME TypeOK, OrderInv, NEW h \in Pipes, NEW p \in Packets, NEW key, AddPacket(h, p, key)
  PROVE  /\ \A i : Queued(h, i) /\ keyPackets'[h][i].n = keyPackets[h][i].n => Queued(h, i)'
         /\ \A i : keyPackets'[h][i].n = p.n => Queued(h, i)'
<1> DEFINE After(i) == \/ evicted'[h] # {}
                       \/ \E j \in DOMAIN queue'[h] : queue'[h][j].n = keyPackets'[h][i].n
<1>1. /\ \E j \in DOMAIN queue'[h] : queue'[h][j] = p
      /\ \/ evicted'[h] # {}
         \/ /\ evicted'[h] = evicted[h]
            /\ \A j \in DOMAIN queue[h] : j \in DOMAIN queue'[h] /\ queue'[h][j] = queue[h][j]
  BY AddedIsQueued
<1>2. ASSUME NEW i, Queued(h, i), keyPackets'[h][i].n = keyPackets[h][i].n
      PROVE  After(i)
  BY <1>1, <1>2 DEF Queued
<1>3. ASSUME NEW i, keyPackets'[h][i].n = p.n
      PROVE  After(i)
  BY <1>1, <1>3
<1>4. \A i : Queued(h, i)' <=> After(i)
  BY DEF Queued
<1> QED
  BY <1>2, <1>3, <1>4

LEMMA KeysStep ==
  ASSUME TypeOK, ReplayInv, OrderInv, NEW h, Pipes = {h}, KeysAt(h), Next
  PROVE  KeysAt(h)'
<1>1. OthersOK /\ CountsOK /\ QueuesOK /\ h \in Pipes
  BY TypeParts
<1>2. keyPackets[h] \in Seq(Packets) /\ queue[h] \in Seq(Packets)
      /\ Len(keyPackets[h]) \in Nat /\ DOMAIN keyPackets[h] = 1 .. Len(keyPackets[h])
      /\ replay[h].next \in Nat /\ replay[h].end \in Nat
  BY <1>1, LenProperties DEF OthersOK, QueuesOK
<1>3. ASSUME NEW to, pc' = [pc EXCEPT ![h] = to], UNCHANGED <<queue, keyPackets, evicted>>
      PROVE  pc'[h] = to /\ \A i : Queued(h, i)' <=> Queued(h, i)
  BY <1>1, <1>3 DEF OthersOK, Queued
\* A step that leaves the queue and the list alone.
<1>4. ASSUME NEW to, pc' = [pc EXCEPT ![h] = to], UNCHANGED <<queue, keyPackets, evicted, broken>>,
             to \in InLoop \cup {"begin"} => ~broken[h],
             broken[h] /\ to = "after" => pipeInterrupted',
             broken[h] /\ to = "replay" =>
               \A i \in DOMAIN keyPackets[h] :
                 i < replay'[h].next \/ i > replay'[h].end => Queued(h, i),
             broken[h] /\ to \in {"create", "open", "header"} =>
               \A i \in DOMAIN keyPackets[h] : Queued(h, i)
      PROVE  KeysAt(h)'
  <2>1. pc'[h] = to /\ \A i : Queued(h, i)' <=> Queued(h, i)
    BY <1>3, <1>4
  <2>2. broken'[h] = broken[h] /\ keyPackets'[h] = keyPackets[h]
    BY <1>4
  <2> QED
    BY <1>4, <2>1, <2>2 DEF KeysAt
<1>5. CASE Begin(h)
  <2>1. /\ pc[h] = "begin" /\ pc' = [pc EXCEPT ![h] = "create"]
        /\ UNCHANGED <<queue, keyPackets, evicted, broken>>
    BY <1>5 DEF Begin, Goes
  <2>2. ~broken[h]
    BY <2>1 DEF KeysAt
  <2> QED
    BY <1>4, <2>1, <2>2
<1>6. CASE Create(h) \/ Open(h)
  <2>1. UNCHANGED <<queue, keyPackets, evicted, broken>> /\ pc[h] \in {"create", "open"}
    BY <1>6 DEF Create, Open, Goes
  <2>2. \E to \in {"open", "header", "done"} : pc' = [pc EXCEPT ![h] = to]
    BY <1>1, <1>6 DEF Create, Open, OpenLoop, Goes, OthersOK
  <2>3. broken[h] => \A i \in DOMAIN keyPackets[h] : Queued(h, i)
    BY <2>1 DEF KeysAt
  <2>4. \A to \in {"open", "header", "done"} :
          to \notin InLoop \cup {"begin"} /\ to # "after" /\ to # "replay"
    BY DEF InLoop
  <2> QED
    BY <1>4, <2>1, <2>2, <2>3, <2>4
<1>7. CASE Finish(h)
  <2>1. pc' = [pc EXCEPT ![h] = "done"] /\ UNCHANGED <<queue, keyPackets, evicted, broken>>
    BY <1>7 DEF Finish, Goes
  <2>2. "done" \notin InLoop \cup {"begin"}
    BY DEF InLoop
  <2> QED
    BY <1>4, <2>1, <2>2
<1>8. CASE WriteGlobalHeader(h)
  <2>1. pc' = [pc EXCEPT ![h] = "loop"] /\ broken' = [broken EXCEPT ![h] = FALSE]
    BY <1>8 DEF WriteGlobalHeader, Goes
  <2>2. ~broken'[h]
    BY <1>1, <2>1 DEF OthersOK
  <2> QED
    BY <2>2 DEF KeysAt
<1>9. CASE Test(h)
  <2>1. UNCHANGED <<queue, keyPackets, evicted, broken>> /\ pc[h] \in InLoop
    BY <1>9 DEF Test, Loop, Peek, Goes, InLoop
  <2>2. \E to : pc' = [pc EXCEPT ![h] = to]
    BY <1>9 DEF Test, Loop, Peek, Goes
  <2>3. ~broken[h]
    BY <2>1 DEF KeysAt
  <2> QED
    BY <1>4, <2>1, <2>2, <2>3
<1>10. CASE Take(h)
  <2>1. pc[h] = "take" /\ ~broken[h]
    BY <1>10 DEF Take, KeysAt, InLoop
  <2>2. CASE TakeSent(h) \/ TakeFull(h)
    <3>1. broken' = broken
      BY <2>2 DEF TakeSent, TakeFull
    <3>2. ~broken'[h]
      BY <2>1, <3>1
    <3> QED
      BY <3>2 DEF KeysAt
  <2>3. CASE TakeBroken(h)
    <3>1. pc' = [pc EXCEPT ![h] = "after"] /\ pipeInterrupted'
      BY <2>3 DEF TakeBroken, FailureLeaves, Goes
    <3>2. pc'[h] = "after"
      BY <1>1, <3>1 DEF OthersOK
    <3>3. "after" \notin InLoop \cup {"begin"}
      BY DEF InLoop
    <3> QED
      BY <3>1, <3>2, <3>3 DEF KeysAt
  <2> QED
    BY <1>10, <2>2, <2>3 DEF Take
<1>11. CASE CloseQuietly(h)
  <2>1. /\ pc[h] = "after" /\ pc' = [pc EXCEPT ![h] = "create"] /\ ~pipeInterrupted
        /\ UNCHANGED <<queue, keyPackets, evicted, broken>>
    BY <1>11 DEF CloseQuietly, Goes
  <2>2. ~broken[h]
    BY <2>1 DEF KeysAt
  <2> QED
    BY <1>4, <2>1, <2>2
<1>12. CASE NoticeInterruption(h)
  <2>1. /\ pc' = [pc EXCEPT ![h] = "clear"]
        /\ UNCHANGED <<queue, keyPackets, evicted, broken>>
    BY <1>12 DEF NoticeInterruption, Goes
  <2>2. "clear" \notin InLoop \cup {"begin"}
    BY DEF InLoop
  <2> QED
    BY <1>4, <2>1, <2>2
<1>13. CASE ClearInterruption(h)
  <2>1. /\ pc' = [pc EXCEPT ![h] = "replay"]
        /\ UNCHANGED <<queue, keyPackets, evicted, broken>>
        /\ replay' = [replay EXCEPT ![h] = [next |-> 1, end |-> ReplayEnd(h)]]
    BY <1>13 DEF ClearInterruption, Goes
  <2>2. replay'[h].next = 1 /\ replay'[h].end = Len(keyPackets[h])
    BY <1>1, <2>1 DEF OthersOK, ReplayEnd
  <2>3. \A i \in DOMAIN keyPackets[h] : ~(i < 1) /\ ~(i > Len(keyPackets[h]))
    BY <1>2, SMT
  <2>4. "replay" \notin InLoop \cup {"begin"}
    BY DEF InLoop
  <2>5. \A i \in DOMAIN keyPackets[h] :
          i < replay'[h].next \/ i > replay'[h].end => Queued(h, i)
    BY <2>2, <2>3
  <2> QED
    BY <1>4, <2>1, <2>4, <2>5
<1>14. CASE Replayed(h)
  <2>1. /\ pc[h] = "replay" /\ pc' = [pc EXCEPT ![h] = "create"]
        /\ replay[h].next > replay[h].end
        /\ UNCHANGED <<queue, keyPackets, evicted, broken>>
    BY <1>14 DEF Replayed, Goes
  <2>2. \A i \in DOMAIN keyPackets[h] : i < replay[h].next \/ i > replay[h].end
    BY <1>2, <2>1, SMT
  <2>3. broken[h] => \A i \in DOMAIN keyPackets[h] : Queued(h, i)
    BY <2>1, <2>2 DEF KeysAt
  <2>4. "create" \notin InLoop \cup {"begin"}
    BY DEF InLoop
  <2> QED
    BY <1>4, <2>1, <2>3, <2>4
<1>15. CASE ReplayKey(h)
  <2> DEFINE p == [keyPackets[h][replay[h].next] EXCEPT !.again = TRUE]
  <2>1. p \in Packets /\ AddPacket(h, p, FALSE) /\ pc[h] = "replay" /\ pc' = pc /\ broken' = broken
        /\ replay' = [replay EXCEPT ![h].next = @ + 1]
    BY <1>1, <1>15, RepeatedPacket DEF ReplayKey
  <2>2. keyPackets' = keyPackets
    BY <2>1 DEF AddPacket
  <2>3. replay'[h].next = replay[h].next + 1 /\ replay'[h].end = replay[h].end
    BY <1>1, <2>1 DEF OthersOK
  <2>4. p.n = keyPackets[h][replay[h].next].n
    <3>1. replay[h].next \in 1 .. Len(keyPackets[h])
      BY <1>1, <1>2, <1>15, SMT DEF ReplayKey, ReplayInv
    <3>2. keyPackets[h][replay[h].next] \in Packets
      BY <1>2, <3>1, ElementOfSeq
    <3> QED
      BY <3>2 DEF Packets
  <2> HIDE DEF p
  <2>5. /\ \A i : Queued(h, i) => Queued(h, i)'
        /\ \A i : keyPackets[h][i].n = p.n => Queued(h, i)'
    BY <1>1, <2>1, <2>2, QueuedStays
  <2>6. ASSUME broken[h], NEW i \in DOMAIN keyPackets[h],
               i < replay'[h].next \/ i > replay'[h].end
        PROVE  Queued(h, i)'
    <3>1. i < replay[h].next \/ i > replay[h].end \/ i = replay[h].next
      BY <1>2, <2>3, <2>6, SMT
    <3>2. CASE i = replay[h].next
      BY <2>4, <2>5, <3>2
    <3>3. CASE i < replay[h].next \/ i > replay[h].end
      BY <2>1, <2>5, <2>6, <3>3 DEF KeysAt
    <3> QED
      BY <3>1, <3>2, <3>3
  <2>7. pc'[h] = "replay" /\ "replay" \notin InLoop \cup {"begin"}
    BY <2>1 DEF InLoop
  <2> QED
    BY <2>1, <2>2, <2>6, <2>7 DEF KeysAt
<1>16. CASE OutputAdds(h)
  <2>1. PICK key \in BOOLEAN :
          AddPacket(h, [n |-> added[h] + 1, key |-> key, again |-> FALSE], key)
    BY <1>16 DEF OutputAdds
  <2> DEFINE p == [n |-> added[h] + 1, key |-> key, again |-> FALSE]
  <2>2. p \in Packets
    <3>1. added[h] + 1 \in 1 .. MaxPackets
      BY <1>1, <1>16, BoundsAssumption, SMT DEF OutputAdds, TypeOK
    <3> QED
      BY <3>1 DEF Packets
  <2>3. pc' = pc /\ replay' = replay /\ broken' = broken /\ pipeInterrupted' = pipeInterrupted
    BY <1>16 DEF OutputAdds, pipeVars
  <2>4. keyPackets'[h] = keyPackets[h] \/ keyPackets'[h] = Append(keyPackets[h], p)
    BY <1>1, <2>1 DEF AddPacket, OthersOK
  <2> HIDE DEF p
  <2>5. AddPacket(h, p, key)
    BY <2>1 DEF p
  <2>6. ASSUME NEW i \in DOMAIN keyPackets'[h]
        PROVE  \/ i \in DOMAIN keyPackets[h] /\ keyPackets'[h][i] = keyPackets[h][i]
               \/ keyPackets'[h][i] = p
    <3>1. CASE keyPackets'[h] = keyPackets[h]
      BY <2>6, <3>1
    <3>2. CASE keyPackets'[h] = Append(keyPackets[h], p)
      <4>1. /\ DOMAIN Append(keyPackets[h], p) = 1 .. Len(keyPackets[h]) + 1
            /\ \A j \in 1 .. Len(keyPackets[h]) : Append(keyPackets[h], p)[j] = keyPackets[h][j]
            /\ Append(keyPackets[h], p)[Len(keyPackets[h]) + 1] = p
        BY <1>2, <2>2, Appended
      <4>2. i \in 1 .. Len(keyPackets[h]) \/ i = Len(keyPackets[h]) + 1
        BY <1>2, <2>6, <3>2, <4>1, SMT
      <4> QED
        BY <1>2, <3>2, <4>1, <4>2
    <3> QED
      BY <2>4, <3>1, <3>2
  <2>7. /\ \A i : Queued(h, i) /\ keyPackets'[h][i].n = keyPackets[h][i].n => Queued(h, i)'
        /\ \A i : keyPackets'[h][i].n = p.n => Queued(h, i)'
    BY <1>1, <2>2, <2>5, QueuedStays
  <2>8. \A i \in DOMAIN keyPackets'[h] :
          (i \in DOMAIN keyPackets[h] => Queued(h, i)) => Queued(h, i)'
    BY <2>6, <2>7
  <2> QED
    BY <2>3, <2>6, <2>8 DEF KeysAt
<1>17. CASE OutputTells(h) \/ ReaderOpens(h) \/ ReaderLeaves(h) \/ (Ended /\ UNCHANGED vars)
  <2>1. UNCHANGED <<pc, queue, keyPackets, evicted, broken, replay, pipeInterrupted>>
    BY <1>17 DEF OutputTells, ReaderOpens, ReaderLeaves, vars, threadVars, pipeVars
  <2> QED
    BY <2>1 DEF KeysAt, Queued
<1> QED
  BY <1>1, <1>5, <1>6, <1>7, <1>8, <1>9, <1>10, <1>11, <1>12, <1>13, <1>14, <1>15, <1>16, <1>17
     DEF Next, Thread

----------------------------------------------------------------------------
\* Theorems about readers

LEMMA ReadersInit == Init => PcapInv /\ KeysInv
<1> SUFFICES ASSUME Init PROVE PcapInv /\ KeysInv
  OBVIOUS
<1>1. DOMAIN << >> = {}
  OBVIOUS
<1>2. ASSUME NEW h \in Pipes
      PROVE  Good(stream[h], pc[h], late[h], reader[h]) /\ KeysAt(h)
  <2>1. stream[h] = << >> /\ pc[h] = "begin" /\ ~late[h] /\ ~reader[h] /\ ~broken[h]
    BY DEF Init
  <2>2. KeysAt(h)
    BY <2>1 DEF KeysAt
  <2>3. Good(stream[h], pc[h], late[h], reader[h])
    BY <1>1, <2>1 DEF Good
  <2> QED
    BY <2>2, <2>3
<1> QED
  BY <1>2 DEF PcapInv, KeysInv

LEMMA ReadersKeep == IInv /\ PcapInv /\ KeysInv /\ [Next]_vars => PcapInv' /\ KeysInv'
<1> SUFFICES ASSUME IInv, PcapInv, KeysInv, [Next]_vars PROVE PcapInv' /\ KeysInv'
  OBVIOUS
<1>1. CASE UNCHANGED vars
  BY <1>1 DEF PcapInv, KeysInv, KeysAt, Queued, vars, threadVars, pipeVars
<1>2. CASE Next
  <2>1. TypeOK /\ ReplayInv /\ OrderInv
    BY DEF IInv
  <2>2. PcapInv'
    BY <1>2, <2>1, PcapStep
  <2>3. ASSUME Cardinality(Pipes) = 1, NEW g \in Pipes
        PROVE  KeysAt(g)'
    <3>1. PICK h : Pipes = {h}
      BY <2>3, FS_Singleton, PipesAssumption
    <3>2. KeysAt(g)
      BY <2>3 DEF KeysInv
    <3>3. Pipes = {g}
      BY <3>1
    <3> QED
      BY <1>2, <2>1, <3>2, <3>3, KeysStep
  <2>4. KeysInv'
    BY <2>3 DEF KeysInv
  <2> QED
    BY <2>2, <2>4
<1> QED
  BY <1>1, <1>2

LEMMA ReadersHold == Spec => [](PcapInv /\ KeysInv)
<1>1. Init => PcapInv /\ KeysInv
  BY ReadersInit
<1>2. IInv /\ (PcapInv /\ KeysInv) /\ [Next]_vars => (PcapInv /\ KeysInv)'
  BY ReadersKeep
<1> QED
  BY <1>1, <1>2, IInvHolds, PTL DEF Spec

\* A reader that opened the pipe before the global header was written finds it
\* first and once, then records of which only the last may be cut, and one that
\* came later finds records, whoever else comes and goes
\* (pipe_packet_handler.cpp:97-125).
THEOREM ReadersFindPcap == Spec => []StreamIsPcap
<1>1. PcapInv => StreamIsPcap
  BY DEF PcapInv, Good, StreamIsPcap
<1> QED
  BY <1>1, ReadersHold, PTL

\* With one pipe, what was learnt while the last reader was there is repeated
\* to the next one, whatever the output thread adds during the replay
\* (pipe_packet_handler.cpp:142-153).
THEOREM NextReaderGetsKeys == Spec => []KeysForNextReader
<1>1. KeysInv => KeysForNextReader
  <2> SUFFICES ASSUME KeysInv, Cardinality(Pipes) = 1, NEW h \in Pipes, broken[h],
                      pc[h] \in {"create", "open", "header"}, NEW i \in DOMAIN keyPackets[h]
               PROVE  \/ \E j \in DOMAIN queue[h] : queue[h][j].n = keyPackets[h][i].n
                      \/ evicted[h] # {}
    BY DEF KeysForNextReader
  <2>1. KeysAt(h)
    BY DEF KeysInv
  <2> QED
    BY <2>1 DEF KeysAt, Queued
<1> QED
  BY <1>1, ReadersHold, PTL
=============================================================================
