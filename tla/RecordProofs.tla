---------------------------- MODULE RecordProofs -----------------------------
(***************************************************************************)
(* For all boards, clocks, time zones and starts of a session: the dates   *)
(* of RecordDates are near the captures of the board that gave the session *)
(* its start, and in the order of the captures of every board.  For all    *)
(* frames: the lengths in a record of PcapBuilder are those of its bytes.  *)
(***************************************************************************)
EXTENDS RecordDates, SelectionProofs

PacketSet == [dev : Devices \cup {Simulated}, id : Devices, stamp : Nat, at : Int, life : Nat]
RecordSet == [packet : PacketSet, date : [sec : Int, usec : Int]]

Typed ==
  /\ now \in Int
  /\ timer \in [Devices -> Nat] /\ restarts \in [Devices -> Nat]
  /\ saved \in Seq(Nat)
  /\ queue \in Seq(PacketSet) /\ pipeQueue \in [Pipes -> Seq(PacketSet)]
  /\ startTime \in Int \cup {None} /\ pipeStart \in [Pipes -> Int \cup {None}]
  /\ log \in Seq(RecordSet) /\ sentLog \in Seq(RecordSet)
  /\ base \in [dev : Devices \cup {Simulated}, life : Nat, lag : Int]

\* The packets there are, wherever they have got to.
Logged == { r.packet : r \in ToSet(log) }
Sent == { r.packet : r \in ToSet(sentLog) }
Piped == UNION { ToSet(pipeQueue[p]) : p \in Pipes }
Known == ToSet(queue) \cup Piped \cup Logged \cup Sent

\* While a board lives, its timer and the clock go on together.
ClockInv ==
  /\ \A x \in Known : x.dev # Simulated =>
       /\ x.life <= restarts[x.dev]
       /\ x.life = restarts[x.dev] => x.stamp - x.at = timer[x.dev] - now
  /\ \A x, y \in Known :
       x.dev # Simulated /\ x.dev = y.dev /\ x.life = y.life => x.stamp - x.at = y.stamp - y.at

\* There is one start of the session, which the pipes are told before they are
\* given packets; the packet it was made from is in the log.
Dated == \A r \in Records : startTime # None /\ r.date = Date(startTime, r.packet.stamp)
Based ==
  startTime # None /\ base.dev # Simulated =>
    \E b \in Logged : /\ b.dev = base.dev /\ b.life = base.life
                      /\ startTime = ((base.lag + Timezone) + b.at) - b.stamp
StartInv ==
  /\ \A p \in Pipes : pipeStart[p] = startTime
  /\ startTime = None => \A p \in Pipes : pipeQueue[p] = << >>
  /\ Dated /\ Based

IInv == Typed /\ ClockInv /\ StartInv

----------------------------------------------------------------------------
\* Sequences as sets

LEMMA ElementsTyped ==
  ASSUME NEW S, NEW s \in Seq(S)
  PROVE  ToSet(s) \subseteq S /\ s \in Seq(ToSet(s))
<1>1. DOMAIN s = 1 .. Len(s) /\ Len(s) \in Nat /\ \A i \in DOMAIN s : s[i] \in S
  BY ElementOfSeq, LenProperties
<1>2. s = [i \in 1 .. Len(s) |-> s[i]]
  OBVIOUS
<1> QED
  BY <1>1, <1>2 DEF ToSet

LEMMA ElementsAppended ==
  ASSUME NEW S, NEW s \in Seq(S), NEW e \in S
  PROVE  Append(s, e) \in Seq(S) /\ ToSet(Append(s, e)) = ToSet(s) \cup {e}
<1>1. /\ Append(s, e) \in Seq(S) /\ Len(Append(s, e)) = Len(s) + 1
      /\ \A i \in 1 .. Len(s) : Append(s, e)[i] = s[i]
      /\ Append(s, e)[Len(s) + 1] = e
  BY AppendProperties
<1>2. Len(s) \in Nat /\ DOMAIN s = 1 .. Len(s) /\ DOMAIN Append(s, e) = 1 .. Len(s) + 1
  BY <1>1, LenProperties
<1>3. DOMAIN Append(s, e) = DOMAIN s \cup {Len(s) + 1}
  BY <1>2, SMT
<1> QED
  BY <1>1, <1>2, <1>3 DEF ToSet

LEMMA ElementsTaken ==
  ASSUME NEW S, NEW s \in Seq(S), s # << >>
  PROVE  /\ Tail(s) \in Seq(S) /\ ToSet(Tail(s)) \subseteq ToSet(s)
         /\ Head(s) \in S /\ Head(s) \in ToSet(s)
<1>1. /\ Tail(s) \in Seq(S) /\ Len(Tail(s)) = Len(s) - 1
      /\ \A i \in 1 .. Len(Tail(s)) : Tail(s)[i] = s[i + 1]
      /\ Head(s) \in S
  BY HeadTailProperties
<1>2. Len(s) \in Nat /\ Len(s) # 0 /\ DOMAIN s = 1 .. Len(s)
      /\ DOMAIN Tail(s) = 1 .. Len(Tail(s))
  BY <1>1, EmptySeq, LenProperties
<1>3. 1 \in DOMAIN s /\ Head(s) = s[1]
  BY <1>2, SMT
<1>4. \A i \in DOMAIN Tail(s) : i + 1 \in DOMAIN s /\ Tail(s)[i] = s[i + 1]
  BY <1>1, <1>2, SMT
<1> QED
  BY <1>1, <1>3, <1>4 DEF ToSet

LEMMA ElementsJoined ==
  ASSUME NEW S, NEW s \in Seq(S), NEW t \in Seq(S)
  PROVE  s \o t \in Seq(S) /\ ToSet(s \o t) = ToSet(s) \cup ToSet(t)
<1>1. /\ s \o t \in Seq(S) /\ Len(s \o t) = Len(s) + Len(t)
      /\ \A i \in 1 .. Len(s) + Len(t) :
           (s \o t)[i] = IF i <= Len(s) THEN s[i] ELSE t[i - Len(s)]
  BY ConcatProperties
<1>2. /\ Len(s) \in Nat /\ DOMAIN s = 1 .. Len(s) /\ Len(t) \in Nat /\ DOMAIN t = 1 .. Len(t)
      /\ DOMAIN (s \o t) = 1 .. Len(s) + Len(t)
  BY <1>1, LenProperties
<1>3. ASSUME NEW i \in DOMAIN (s \o t)
      PROVE  (s \o t)[i] \in ToSet(s) \cup ToSet(t)
  <2>1. CASE i <= Len(s)
    <3>1. i \in DOMAIN s /\ (s \o t)[i] = s[i]
      BY <1>1, <1>2, <2>1, SMT
    <3> QED
      BY <3>1 DEF ToSet
  <2>2. CASE ~(i <= Len(s))
    <3>1. i - Len(s) \in DOMAIN t /\ (s \o t)[i] = t[i - Len(s)]
      BY <1>1, <1>2, <2>2, SMT
    <3> QED
      BY <3>1 DEF ToSet
  <2> QED
    BY <2>1, <2>2
<1>4. ASSUME NEW i \in DOMAIN s
      PROVE  i \in DOMAIN (s \o t) /\ (s \o t)[i] = s[i]
  BY <1>1, <1>2, SMT
<1>5. ASSUME NEW i \in DOMAIN t
      PROVE  i + Len(s) \in DOMAIN (s \o t) /\ (s \o t)[i + Len(s)] = t[i]
  <2>1. i + Len(s) \in 1 .. Len(s) + Len(t) /\ ~(i + Len(s) <= Len(s))
        /\ (i + Len(s)) - Len(s) = i
    BY <1>2, SMT
  <2> QED
    BY <1>1, <1>2, <2>1
<1>6. \A x \in ToSet(s \o t) : x \in ToSet(s) \cup ToSet(t)
  BY <1>3 DEF ToSet
<1>7. \A x \in ToSet(s) : x \in ToSet(s \o t)
  BY <1>4 DEF ToSet
<1>8. \A x \in ToSet(t) : x \in ToSet(s \o t)
  BY <1>5 DEF ToSet
<1> QED
  BY <1>1, <1>6, <1>7, <1>8

LEMMA ElementsSelected ==
  ASSUME NEW S, NEW s \in Seq(S), NEW set
  PROVE  Selected(s, set) \in Seq(S) /\ ToSet(Selected(s, set)) \subseteq ToSet(s)
<1>1. s \in Seq(ToSet(s)) /\ ToSet(s) \subseteq S
  BY ElementsTyped
<1>2. Selected(s, set) \in Seq(ToSet(s) \cap set)
  BY <1>1, SelectedType
<1>3. ToSet(Selected(s, set)) \subseteq ToSet(s) \cap set
  BY <1>2, ElementsTyped
<1>4. Selected(s, set) \in Seq(S)
  BY <1>1, <1>2, SeqMonotonic
<1> QED
  BY <1>3, <1>4

----------------------------------------------------------------------------
\* Dates

\* What is lost of a date is the carry of its microseconds.
LEMMA DateError ==
  ASSUME NEW start \in Int, NEW stamp \in Nat
  PROVE  /\ Date(start, stamp) \in [sec : Int, usec : Int]
         /\ \E u, v, w \in 0 .. Second - 1 :
              Instant(Date(start, stamp)) = start + stamp + u - v - w
<1>0. Second \in Nat /\ Second > 1 /\ Width \in Nat /\ Width > 0
  BY TimeAssumption, SMT
<1> DEFINE q == start \div Second
           r == start % Second
           k == stamp \div Second
           m == stamp % Second
           u == ((start % Width) + stamp) % Second
<1>1. q \in Int /\ r \in 0 .. Second - 1 /\ start = q * Second + r
  BY <1>0, SMT
<1>2. k \in Int /\ m \in 0 .. Second - 1 /\ stamp = k * Second + m
  BY <1>0, SMT
<1>3. u \in 0 .. Second - 1
  <2>1. (start % Width) \in Int
    BY <1>0, SMT
  <2>2. (start % Width) + stamp \in Int
    BY <2>1, SMT
  <2> DEFINE sum == (start % Width) + stamp
  <2> HIDE DEF sum
  <2>3. sum \in Int
    BY <2>2 DEF sum
  <2>4. sum % Second \in 0 .. Second - 1
    BY <1>0, <2>3, SMT
  <2> QED
    BY <2>4 DEF sum
<1>4. Date(start, stamp) = [sec |-> q + k, usec |-> u]
  BY DEF Date
<1>5. Instant(Date(start, stamp)) = (q + k) * Second + u
  BY <1>4 DEF Instant
<1> HIDE DEF q, r, k, m, u
<1>6. (q + k) * Second + u = start + stamp + u - r - m
  <2>1. (q + k) * Second = q * Second + k * Second
    BY <1>0, <1>1, <1>2, SMT
  <2>2. q * Second \in Int /\ k * Second \in Int
    BY <1>0, <1>1, <1>2, SMT
  <2> QED
    BY <1>1, <1>2, <1>3, <2>1, <2>2, SMT
<1>7. Date(start, stamp) \in [sec : Int, usec : Int]
  BY <1>0, <1>1, <1>2, <1>3, <1>4, SMT
<1> QED
  BY <1>1, <1>2, <1>3, <1>5, <1>6, <1>7

\* A second more on the timer is more than what is lost.
LEMMA DateOrder ==
  ASSUME NEW start \in Int, NEW x \in Nat, NEW y \in Nat, x + Second <= y
  PROVE  Instant(Date(start, x)) < Instant(Date(start, y))
<1>0. Second \in Nat /\ Second > 1 /\ Width \in Nat /\ Width > 0
  BY TimeAssumption, SMT
<1> DEFINE q == start \div Second
           k == x \div Second
           l == y \div Second
           m == x % Second
           n == y % Second
           u == ((start % Width) + x) % Second
           v == ((start % Width) + y) % Second
<1>1. q \in Int
  BY <1>0, SMT
<1>2. k \in Int /\ m \in 0 .. Second - 1 /\ x = k * Second + m
  BY <1>0, SMT
<1>3. l \in Int /\ n \in 0 .. Second - 1 /\ y = l * Second + n
  BY <1>0, SMT
<1>4. u \in 0 .. Second - 1 /\ v \in 0 .. Second - 1
  <2>1. ASSUME NEW z \in Nat
        PROVE  ((start % Width) + z) % Second \in 0 .. Second - 1
    <3> DEFINE sum == (start % Width) + z
    <3>1. (start % Width) \in Int
      BY <1>0, SMT
    <3>2. sum \in Int
      BY <3>1, SMT
    <3> HIDE DEF sum
    <3>3. sum % Second \in 0 .. Second - 1
      BY <1>0, <3>2, SMT
    <3> QED
      BY <3>3 DEF sum
  <2> QED
    BY <2>1
<1>5. Instant(Date(start, x)) = (q + k) * Second + u /\ Instant(Date(start, y)) = (q + l) * Second + v
  BY DEF Date, Instant
<1> HIDE DEF q, k, l, m, n, u, v
<1>6. k + 1 <= l
  <2> SUFFICES ASSUME l <= k PROVE FALSE
    BY <1>2, <1>3, SMT
  <2>1. l * Second <= k * Second
    BY <1>0, <1>2, <1>3, SMT
  <2>2. l * Second \in Int /\ k * Second \in Int
    BY <1>0, <1>2, <1>3, SMT
  <2> QED
    BY <1>0, <1>2, <1>3, <2>1, <2>2, SMT
<1>7. (q + k) * Second + Second <= (q + l) * Second
  <2>1. (q + k) + 1 <= q + l /\ q + k \in Int /\ q + l \in Int
    BY <1>1, <1>2, <1>3, <1>6, SMT
  <2>2. ASSUME NEW a \in Int, NEW b \in Int, a + 1 <= b
        PROVE  a * Second + Second <= b * Second
    <3>1. (a + 1) * Second <= b * Second
      BY <1>0, <2>2, SMT
    <3>2. (a + 1) * Second = a * Second + Second
      BY <1>0, SMT
    <3> QED
      BY <3>1, <3>2
  <2> QED
    BY <2>1, <2>2
<1>8. (q + k) * Second \in Int /\ (q + l) * Second \in Int
  BY <1>0, <1>1, <1>2, <1>3, SMT
<1> QED
  BY <1>0, <1>4, <1>5, <1>7, <1>8, SMT

----------------------------------------------------------------------------
\* Handling packets

LEMMA PipesAre == Pipes \subseteq Devices /\ Pipes # {} /\ IsFiniteSet(Pipes)
<1>1. (CHOOSE d \in Devices : TRUE) \in Devices
  BY DevicesAssumption
<1>2. Pipes = Devices \/ Pipes = {CHOOSE d \in Devices : TRUE}
  BY DEF Pipes
<1> QED
  BY <1>1, <1>2, DevicesAssumption, FS_Singleton

LEMMA KnownTyped ==
  ASSUME Typed
  PROVE  Known \subseteq PacketSet
         /\ \A x \in Known : x.life \in Nat /\ (x.dev # Simulated => x.dev \in Devices)
<1>1. ToSet(queue) \subseteq PacketSet /\ ToSet(log) \subseteq RecordSet
      /\ ToSet(sentLog) \subseteq RecordSet
  BY ElementsTyped DEF Typed
<1>2. Piped \subseteq PacketSet
  <2>1. \A p \in Pipes : ToSet(pipeQueue[p]) \subseteq PacketSet
    BY ElementsTyped DEF Typed
  <2> QED
    BY <2>1 DEF Piped
<1>3. Logged \subseteq PacketSet /\ Sent \subseteq PacketSet
  BY <1>1 DEF Logged, Sent, RecordSet
<1>4. Known \subseteq PacketSet
  BY <1>1, <1>2, <1>3 DEF Known
<1> QED
  BY <1>4 DEF PacketSet

\* What is unknown of a packet does not trouble the clocks: it is simulated, or
\* it has just been captured.
LEMMA ClockKept ==
  ASSUME Typed, ClockInv, \A x \in Known' : x \in Known \/ x.dev = Simulated,
         UNCHANGED <<now, timer, restarts>>
  PROVE  ClockInv'
<1>1. \A x \in Known' : x \in Known \/ x.dev = Simulated
  OBVIOUS
<1>2. ASSUME NEW x \in Known', x.dev # Simulated
      PROVE  /\ x.life <= restarts'[x.dev]
             /\ x.life = restarts'[x.dev] => x.stamp - x.at = timer'[x.dev] - now'
  BY <1>1, <1>2 DEF ClockInv
<1>3. ASSUME NEW x \in Known', NEW y \in Known', x.dev # Simulated, x.dev = y.dev,
             x.life = y.life
      PROVE  x.stamp - x.at = y.stamp - y.at
  BY <1>1, <1>3 DEF ClockInv
<1> QED
  BY <1>2, <1>3 DEF ClockInv

\* handle_packet keeps the one start, and the packets get nowhere else than to
\* the log and the pipes (output_manager.cpp:244-309).
LEMMA HandlePacketsKeeps ==
  ASSUME Typed, StartInv, NEW packets \in Seq(PacketSet), packets # << >>,
         HandlePackets(packets), sentLog' = sentLog, UNCHANGED now
  PROVE  /\ startTime' \in Int \cup {None} /\ pipeStart' \in [Pipes -> Int \cup {None}]
         /\ log' \in Seq(RecordSet) /\ pipeQueue' \in [Pipes -> Seq(PacketSet)]
         /\ base' \in [dev : Devices \cup {Simulated}, life : Nat, lag : Int]
         /\ StartInv'
         /\ Piped' \cup Logged' \cup Sent' \subseteq Piped \cup Logged \cup Sent \cup ToSet(packets)
<1> DEFINE first == packets[1]
           start == IF startTime = None THEN StartFrom(first) ELSE startTime
           records == [i \in DOMAIN packets |-> Record(packets[i], start)]
<1>1. DOMAIN packets = 1 .. Len(packets) /\ Len(packets) \in Nat /\ Len(packets) # 0
      /\ ToSet(packets) \subseteq PacketSet
  BY EmptySeq, LenProperties, ElementsTyped
<1>2. 1 \in DOMAIN packets /\ first \in ToSet(packets) /\ first \in PacketSet
  <2>1. 1 \in DOMAIN packets
    BY <1>1, SMT
  <2>2. first \in ToSet(packets)
    BY <2>1 DEF ToSet
  <2> QED
    BY <1>1, <2>1, <2>2
<1>3. first.dev \in Devices \cup {Simulated} /\ first.life \in Nat /\ first.stamp \in Nat
      /\ first.at \in Int
  BY <1>2 DEF PacketSet
<1>4. now \in Int /\ Timezone \in Int /\ startTime \in Int \cup {None}
  BY SessionAssumption DEF Typed
<1>5. StartFrom(first) \in Int
  BY <1>3, <1>4, SMT DEF StartFrom
<1>6. startTime' = start /\ log' = log \o records
      /\ pipeQueue' = [p \in Pipes |-> pipeQueue[p] \o Selected(packets, Of(p, packets))]
  BY DEF HandlePackets
<1>7. start \in Int /\ start # None
  BY <1>4, <1>5, NoneAssumption
<1>8. /\ startTime = None => /\ pipeStart' = Told(start)
                             /\ base' = [dev |-> first.dev, life |-> first.life,
                                         lag |-> now - first.at]
      /\ startTime # None => pipeStart' = pipeStart /\ base' = base
  BY DEF HandlePackets
<1>9. StartFrom(first) = (((now - first.at) + Timezone) + first.at) - first.stamp
      /\ now - first.at \in Int
  <2>1. ASSUME NEW a \in Int, NEW b \in Int, NEW c \in Int, NEW e \in Int
        PROVE  (a - b) + c = (((a - e) + c) + e) - b /\ a - e \in Int
    BY SMT
  <2>2. StartFrom(first) = (now - first.stamp) + Timezone
    BY DEF StartFrom
  <2>3. first.stamp \in Int
    BY <1>3
  <2> HIDE DEF first
  <2> QED
    BY <1>3, <1>4, <2>1, <2>2, <2>3
<1> HIDE DEF start
<1>10. /\ \A i \in DOMAIN packets : records[i] = Record(packets[i], start)
       /\ records \in Seq(RecordSet) /\ Len(records) = Len(packets)
       /\ DOMAIN records = DOMAIN packets
  <2>1. \A i \in DOMAIN packets : packets[i] \in PacketSet
    BY <1>1, ElementOfSeq
  <2>2. \A x \in PacketSet : x.stamp \in Nat
    BY DEF PacketSet
  <2>3. \A x \in PacketSet : Date(start, x.stamp) \in [sec : Int, usec : Int]
    BY <1>7, <2>2, DateError
  <2>4. \A i \in DOMAIN packets : Record(packets[i], start) \in RecordSet
    BY <2>1, <2>3 DEF Record, RecordSet
  <2>5. records \in [1 .. Len(packets) -> RecordSet]
    BY <1>1, <2>4
  <2> QED
    BY <1>1, <2>5, SMT
<1> HIDE DEF records
<1>11. log \in Seq(RecordSet) /\ sentLog \in Seq(RecordSet)
  BY DEF Typed
<1>12. log' \in Seq(RecordSet) /\ ToSet(log') = ToSet(log) \cup ToSet(records)
  BY <1>6, <1>10, <1>11, ElementsJoined
<1>13. \A r \in ToSet(records) : \E x \in ToSet(packets) : r = Record(x, start)
  BY <1>10 DEF ToSet
<1>14. \E r \in ToSet(records) : r = Record(first, start)
  BY <1>2, <1>10 DEF ToSet
<1>15. \A x : Record(x, start).packet = x /\ Record(x, start).date = Date(start, x.stamp)
  BY DEF Record
<1>16. Logged' \subseteq Logged \cup ToSet(packets) /\ Logged \subseteq Logged' /\ first \in Logged'
  <2>1. ASSUME NEW r \in ToSet(log')
        PROVE  r.packet \in Logged \cup ToSet(packets)
    BY <1>12, <1>13, <1>15 DEF Logged
  <2>2. \A x \in Logged' : \E r \in ToSet(log') : x = r.packet
    BY DEF Logged
  <2>3. \A r \in ToSet(log') : r.packet \in Logged'
    BY DEF Logged
  <2>4. \A x \in Logged : \E r \in ToSet(log) : x = r.packet
    BY DEF Logged
  <2>5. first \in Logged'
    BY <1>12, <1>14, <1>15, <2>3
  <2> QED
    BY <1>12, <2>1, <2>2, <2>3, <2>4, <2>5
<1>17. Sent' = Sent
  BY DEF Sent
<1>18. ASSUME NEW p \in Pipes
       PROVE  /\ pipeQueue'[p] \in Seq(PacketSet)
              /\ ToSet(pipeQueue'[p]) \subseteq ToSet(pipeQueue[p]) \cup ToSet(packets)
  <2>1. pipeQueue[p] \in Seq(PacketSet)
    BY DEF Typed
  <2>2. /\ Selected(packets, Of(p, packets)) \in Seq(PacketSet)
        /\ ToSet(Selected(packets, Of(p, packets))) \subseteq ToSet(packets)
    BY ElementsSelected
  <2>3. pipeQueue'[p] = pipeQueue[p] \o Selected(packets, Of(p, packets))
    BY <1>6
  <2> QED
    BY <2>1, <2>2, <2>3, ElementsJoined
<1>19. Piped' \subseteq Piped \cup ToSet(packets)
  <2>1. \A x \in Piped' : \E p \in Pipes : x \in ToSet(pipeQueue'[p])
    BY DEF Piped
  <2>2. \A p \in Pipes : ToSet(pipeQueue[p]) \subseteq Piped
    BY DEF Piped
  <2> QED
    BY <1>18, <2>1, <2>2
<1>20. pipeQueue' \in [Pipes -> Seq(PacketSet)]
  BY <1>6, <1>18
<1>21. pipeStart' \in [Pipes -> Int \cup {None}] /\ \A p \in Pipes : pipeStart'[p] = startTime'
  <2>1. CASE startTime = None
    BY <1>6, <1>7, <1>8, <2>1 DEF Told
  <2>2. CASE startTime # None
    BY <1>6, <1>8, <2>2 DEF start, StartInv, Typed
  <2> QED
    BY <2>1, <2>2
<1>22. Dated'
  <2>1. ASSUME NEW r \in Records'
        PROVE  r.date = Date(start, r.packet.stamp)
    <3>1. r \in ToSet(log) \cup ToSet(records) \cup ToSet(sentLog)
      BY <1>12 DEF Records, ToSet
    <3>2. CASE r \in ToSet(log) \cup ToSet(sentLog)
      <4>1. r \in Records
        BY <3>2 DEF Records, ToSet
      <4>2. startTime # None /\ r.date = Date(startTime, r.packet.stamp)
        BY <4>1 DEF StartInv, Dated
      <4> QED
        BY <4>2 DEF start
    <3>3. CASE r \in ToSet(records)
      BY <1>13, <1>15, <3>3
    <3> QED
      BY <3>1, <3>2, <3>3
  <2> QED
    BY <1>6, <1>7, <2>1 DEF Dated
<1>23. Based'
  <2>1. CASE startTime = None
    <3>1. start = (((now - first.at) + Timezone) + first.at) - first.stamp
      BY <1>9, <2>1 DEF start
    <3>2. base'.dev = first.dev /\ base'.life = first.life /\ base'.lag = now - first.at
      BY <1>8, <2>1
    <3>3. startTime' = ((base'.lag + Timezone) + first.at) - first.stamp
      BY <1>6, <3>1, <3>2
    <3> QED
      BY <1>16, <3>2, <3>3 DEF Based
  <2>2. CASE startTime # None
    <3>1. startTime' = startTime /\ base' = base
      BY <1>6, <1>8, <2>2 DEF start
    <3> QED
      BY <1>16, <2>2, <3>1 DEF Based, StartInv
  <2> QED
    BY <2>1, <2>2
<1>24. base' \in [dev : Devices \cup {Simulated}, life : Nat, lag : Int]
  <2>1. CASE startTime = None
    BY <1>3, <1>8, <1>9, <2>1
  <2>2. CASE startTime # None
    BY <1>8, <2>2 DEF Typed
  <2> QED
    BY <2>1, <2>2
<1>25. StartInv'
  BY <1>6, <1>7, <1>21, <1>22, <1>23 DEF StartInv
<1> QED
  BY <1>6, <1>7, <1>12, <1>16, <1>17, <1>19, <1>20, <1>21, <1>24, <1>25

----------------------------------------------------------------------------
\* The invariant

LEMMA IInvInit == Init => IInv
<1> SUFFICES ASSUME Init PROVE IInv
  OBVIOUS
<1>1. begun \in Nat /\ now = begun /\ timer \in [Devices -> Nat]
  BY SessionAssumption DEF Init
<1>2. saved \in Seq(Nat)
  <2>1. CASE saved = << >>
    BY <2>1
  <2>2. CASE saved # << >>
    <3>1. PICK t \in SavedStamps : saved = << t >>
      BY <2>2 DEF Init
    <3>2. t \in Nat
      BY <3>1, SessionAssumption
    <3> QED
      BY <3>1, <3>2
  <2> QED
    BY <2>1, <2>2
<1>3. ToSet(<< >>) = {} /\ << >> \in Seq(PacketSet) /\ << >> \in Seq(RecordSet)
  <2>1. DOMAIN << >> = {}
    BY EmptySeq
  <2> QED
    BY <2>1 DEF ToSet
<1>4. /\ queue = << >> /\ log = << >> /\ sentLog = << >>
      /\ startTime = None /\ pipeStart = [p \in Pipes |-> None]
      /\ pipeQueue = [p \in Pipes |-> << >>]
      /\ restarts = [d \in Devices |-> 0]
      /\ base = [dev |-> Simulated, life |-> 0, lag |-> 0]
  BY DEF Init
<1>5. Typed
  <2>1. restarts \in [Devices -> Nat] /\ now \in Int
    BY <1>1, <1>4
  <2>2. pipeQueue \in [Pipes -> Seq(PacketSet)] /\ pipeStart \in [Pipes -> Int \cup {None}]
    BY <1>3, <1>4
  <2>3. base \in [dev : Devices \cup {Simulated}, life : Nat, lag : Int]
    BY <1>4
  <2> QED
    BY <1>1, <1>2, <1>3, <1>4, <2>1, <2>2, <2>3 DEF Typed
<1>6. Known = {}
  <2>1. ToSet(queue) = {} /\ Logged = {} /\ Sent = {}
    BY <1>3, <1>4 DEF Logged, Sent
  <2>2. Piped = {}
    BY <1>3, <1>4 DEF Piped
  <2> QED
    BY <2>1, <2>2 DEF Known
<1>7. ClockInv
  BY <1>6 DEF ClockInv
<1>8. Records = {}
  <2>1. DOMAIN log = {} /\ DOMAIN sentLog = {}
    BY <1>4, EmptySeq
  <2> QED
    BY <2>1 DEF Records
<1>9. StartInv
  BY <1>4, <1>8 DEF StartInv, Dated, Based
<1> QED
  BY <1>5, <1>7, <1>9 DEF IInv

LEMMA CaptureKeeps ==
  ASSUME IInv, NEW d \in Devices, Capture(d)
  PROVE  IInv'
<1> DEFINE packet == Packet(d, d, timer[d])
<1>1. UNCHANGED <<now, timer, restarts, saved, startTime, pipeStart, pipeQueue, log, sentLog, base>>
      /\ queue' = Append(queue, packet)
  BY DEF Capture
<1>2. Typed /\ ClockInv /\ StartInv /\ d # Simulated
  BY DevicesAssumption DEF IInv
<1>3. /\ packet.dev = d /\ packet.stamp = timer[d] /\ packet.at = now
      /\ packet.life = restarts[d] /\ packet \in PacketSet
  <2>1. packet = [dev |-> d, id |-> d, stamp |-> timer[d], at |-> now, life |-> restarts[d]]
    BY <1>2 DEF Packet
  <2>2. timer[d] \in Nat /\ restarts[d] \in Nat /\ now \in Int
    BY <1>2 DEF Typed
  <2> QED
    BY <2>1, <2>2 DEF PacketSet
<1> HIDE DEF packet
<1>4. queue' \in Seq(PacketSet) /\ ToSet(queue') = ToSet(queue) \cup {packet}
  BY <1>1, <1>2, <1>3, ElementsAppended DEF Typed
<1>5. Typed'
  BY <1>1, <1>2, <1>4 DEF Typed
<1>6. Piped' = Piped /\ Logged' = Logged /\ Sent' = Sent /\ Records' = Records
  BY <1>1 DEF Piped, Logged, Sent, Records
<1>7. Known' = Known \cup {packet}
  BY <1>4, <1>6 DEF Known
<1>8. restarts[d] \in Nat /\ timer[d] \in Int /\ now \in Int
  BY <1>2 DEF Typed
<1>9. ASSUME NEW x \in Known', x.dev # Simulated
      PROVE  /\ x.life <= restarts'[x.dev]
             /\ x.life = restarts'[x.dev] => x.stamp - x.at = timer'[x.dev] - now'
  <2>1. CASE x \in Known
    BY <1>1, <1>2, <1>9, <2>1 DEF ClockInv
  <2>2. CASE x = packet
    <3>1. x.life = restarts'[x.dev] /\ x.stamp - x.at = timer'[x.dev] - now'
      BY <1>1, <1>3, <2>2
    <3>2. restarts[d] <= restarts[d]
      BY <1>8, SMT
    <3> QED
      BY <1>1, <1>3, <2>2, <3>1, <3>2
  <2> QED
    BY <1>7, <2>1, <2>2
<1>10. ASSUME NEW x \in Known', NEW y \in Known', x.dev # Simulated, x.dev = y.dev,
              x.life = y.life
       PROVE  x.stamp - x.at = y.stamp - y.at
  <2>1. CASE x \in Known /\ y \in Known
    BY <1>2, <1>10, <2>1 DEF ClockInv
  <2>2. CASE x = packet /\ y = packet
    BY <2>2
  <2>3. CASE x = packet /\ y \in Known
    BY <1>2, <1>3, <1>10, <2>3 DEF ClockInv
  <2>4. CASE x \in Known /\ y = packet
    BY <1>2, <1>3, <1>10, <2>4 DEF ClockInv
  <2> QED
    BY <1>7, <2>1, <2>2, <2>3, <2>4
<1>11. ClockInv'
  BY <1>9, <1>10 DEF ClockInv
<1>12. Dated' /\ Based'
  BY <1>1, <1>2, <1>6 DEF StartInv, Dated, Based
<1>13. StartInv'
  BY <1>1, <1>2, <1>12 DEF StartInv
<1> QED
  BY <1>5, <1>11, <1>13 DEF IInv

LEMMA HandleKeeps ==
  ASSUME IInv, Handle
  PROVE  IInv'
<1>1. UNCHANGED <<now, timer, restarts, saved, sentLog>> /\ queue' = Tail(queue)
      /\ queue # << >> /\ HandlePackets(<< Head(queue) >>)
  BY DEF Handle
<1>2. Typed /\ ClockInv /\ StartInv /\ queue \in Seq(PacketSet)
  BY DEF IInv, Typed
<1>3. /\ queue' \in Seq(PacketSet) /\ ToSet(queue') \subseteq ToSet(queue)
      /\ Head(queue) \in PacketSet /\ Head(queue) \in ToSet(queue)
  BY <1>1, <1>2, ElementsTaken
<1> DEFINE packets == << Head(queue) >>
<1>4. packets \in Seq(PacketSet) /\ packets # << >> /\ ToSet(packets) = {Head(queue)}
  <2>1. packets \in Seq(PacketSet) /\ Len(packets) = 1 /\ packets[1] = Head(queue)
    BY <1>3
  <2>2. DOMAIN packets = {1}
    BY <2>1, LenProperties
  <2> QED
    BY <2>1, <2>2, EmptySeq DEF ToSet
<1> HIDE DEF packets
<1>5. HandlePackets(packets)
  BY <1>1 DEF packets
<1>6. /\ startTime' \in Int \cup {None} /\ pipeStart' \in [Pipes -> Int \cup {None}]
      /\ log' \in Seq(RecordSet) /\ pipeQueue' \in [Pipes -> Seq(PacketSet)]
      /\ base' \in [dev : Devices \cup {Simulated}, life : Nat, lag : Int]
      /\ StartInv'
      /\ Piped' \cup Logged' \cup Sent' \subseteq Piped \cup Logged \cup Sent \cup ToSet(packets)
  BY <1>1, <1>2, <1>4, <1>5, HandlePacketsKeeps
<1>7. Known' \subseteq Known
  BY <1>3, <1>4, <1>6 DEF Known
<1>8. ClockInv'
  BY <1>1, <1>2, <1>7, ClockKept
<1>9. Typed'
  BY <1>1, <1>2, <1>3, <1>6 DEF Typed
<1> QED
  BY <1>6, <1>8, <1>9 DEF IInv

LEMMA SimulateKeeps ==
  ASSUME IInv, Simulate
  PROVE  IInv'
<1> DEFINE ids == SetToSeq(Pipes)
           packets == [i \in DOMAIN ids |-> Packet(Simulated, ids[i], Head(saved))]
<1>1. UNCHANGED <<now, timer, restarts, queue, sentLog>> /\ saved' = Tail(saved)
      /\ saved # << >> /\ HandlePackets(packets)
  BY DEF Simulate
<1>2. Typed /\ ClockInv /\ StartInv /\ saved \in Seq(Nat) /\ now \in Int
  BY DEF IInv, Typed
<1>3. saved' \in Seq(Nat) /\ Head(saved) \in Nat
  BY <1>1, <1>2, HeadTailProperties
<1>4. Cardinality(Pipes) \in Nat /\ Cardinality(Pipes) # 0
      /\ ids \in [1 .. Cardinality(Pipes) -> Pipes]
  <2>1. Cardinality(Pipes) \in Nat /\ ExistsBijection(1 .. Cardinality(Pipes), Pipes)
    BY PipesAre, FS_CardinalityType
  <2>2. \E f \in [1 .. Cardinality(Pipes) -> Pipes] : IsInjective(f)
    BY <2>1 DEF ExistsBijection, Bijection, Injection
  <2>3. ids \in [1 .. Cardinality(Pipes) -> Pipes]
    BY <2>2 DEF SetToSeq
  <2>4. Cardinality(Pipes) # 0
    BY PipesAre, FS_EmptySet
  <2> QED
    BY <2>1, <2>3, <2>4
<1> HIDE DEF ids
<1>5. ASSUME NEW i \in 1 .. Cardinality(Pipes)
      PROVE  /\ Packet(Simulated, ids[i], Head(saved)) \in PacketSet
             /\ Packet(Simulated, ids[i], Head(saved)).dev = Simulated
  <2>1. ids[i] \in Devices
    BY <1>4, PipesAre
  <2>2. Packet(Simulated, ids[i], Head(saved)) =
          [dev |-> Simulated, id |-> ids[i], stamp |-> Head(saved), at |-> now, life |-> 0]
    BY DEF Packet
  <2> QED
    BY <1>2, <1>3, <2>1, <2>2 DEF PacketSet
<1>6. packets \in Seq(PacketSet) /\ packets # << >>
      /\ DOMAIN packets = 1 .. Cardinality(Pipes)
  <2>1. packets \in [1 .. Cardinality(Pipes) -> PacketSet]
    BY <1>4, <1>5
  <2> HIDE DEF packets
  <2>2. packets \in Seq(PacketSet) /\ Len(packets) = Cardinality(Pipes)
    BY <1>4, <2>1, SMT
  <2> QED
    BY <1>4, <2>1, <2>2, EmptySeq
<1>7. \A x \in ToSet(packets) : x.dev = Simulated
  BY <1>5, <1>6 DEF ToSet
<1> HIDE DEF packets
<1>8. /\ startTime' \in Int \cup {None} /\ pipeStart' \in [Pipes -> Int \cup {None}]
      /\ log' \in Seq(RecordSet) /\ pipeQueue' \in [Pipes -> Seq(PacketSet)]
      /\ base' \in [dev : Devices \cup {Simulated}, life : Nat, lag : Int]
      /\ StartInv'
      /\ Piped' \cup Logged' \cup Sent' \subseteq Piped \cup Logged \cup Sent \cup ToSet(packets)
  BY <1>1, <1>2, <1>6, HandlePacketsKeeps
<1>9. Known' \subseteq Known \cup ToSet(packets)
  BY <1>1, <1>8 DEF Known
<1>10. ClockInv'
  BY <1>1, <1>2, <1>7, <1>9, ClockKept
<1>11. Typed'
  BY <1>1, <1>2, <1>3, <1>8 DEF Typed
<1> QED
  BY <1>8, <1>10, <1>11 DEF IInv

LEMMA WriteKeeps ==
  ASSUME IInv, NEW p \in Pipes, Write(p)
  PROVE  IInv'
<1> DEFINE record == Record(Head(pipeQueue[p]), pipeStart[p])
<1>1. UNCHANGED <<now, timer, restarts, saved, queue, startTime, pipeStart, log, base>>
      /\ pipeQueue[p] # << >> /\ sentLog' = Append(sentLog, record)
      /\ pipeQueue' = [pipeQueue EXCEPT ![p] = Tail(@)]
  BY DEF Write
<1>2. Typed /\ ClockInv /\ StartInv /\ sentLog \in Seq(RecordSet)
      /\ pipeQueue \in [Pipes -> Seq(PacketSet)]
  BY DEF IInv, Typed
<1>3. /\ Tail(pipeQueue[p]) \in Seq(PacketSet)
      /\ ToSet(Tail(pipeQueue[p])) \subseteq ToSet(pipeQueue[p])
      /\ Head(pipeQueue[p]) \in PacketSet /\ Head(pipeQueue[p]) \in ToSet(pipeQueue[p])
  BY <1>1, <1>2, ElementsTaken
<1>4. startTime # None /\ pipeStart[p] = startTime /\ startTime \in Int
  BY <1>1, <1>2 DEF StartInv, Typed
<1>5. record.packet = Head(pipeQueue[p])
      /\ record.date = Date(startTime, record.packet.stamp) /\ record \in RecordSet
  <2>1. record = [packet |-> Head(pipeQueue[p]),
                  date |-> Date(startTime, Head(pipeQueue[p]).stamp)]
    BY <1>4 DEF Record
  <2>2. Head(pipeQueue[p]).stamp \in Nat
    BY <1>3 DEF PacketSet
  <2>3. Date(startTime, Head(pipeQueue[p]).stamp) \in [sec : Int, usec : Int]
    BY <1>4, <2>2, DateError
  <2> QED
    BY <1>3, <2>1, <2>3 DEF RecordSet
<1> HIDE DEF record
<1>6. sentLog' \in Seq(RecordSet) /\ ToSet(sentLog') = ToSet(sentLog) \cup {record}
  BY <1>1, <1>2, <1>5, ElementsAppended
<1>7. pipeQueue' \in [Pipes -> Seq(PacketSet)]
      /\ \A e \in Pipes : ToSet(pipeQueue'[e]) \subseteq ToSet(pipeQueue[e])
  <2>1. ASSUME NEW e \in Pipes
        PROVE  pipeQueue'[e] = IF e = p THEN Tail(pipeQueue[p]) ELSE pipeQueue[e]
    BY <1>1, <1>2
  <2>2. DOMAIN pipeQueue' = Pipes /\ pipeQueue' = [e \in Pipes |-> pipeQueue'[e]]
    BY <1>1, <1>2
  <2>3. \A e \in Pipes : pipeQueue'[e] \in Seq(PacketSet)
    BY <1>2, <1>3, <2>1
  <2> QED
    BY <1>3, <2>1, <2>2, <2>3
<1>8. Piped' \subseteq Piped
  BY <1>7 DEF Piped
<1>9. Head(pipeQueue[p]) \in Piped
  BY <1>3 DEF Piped
<1>10. Sent' \subseteq Sent \cup Piped
  <2>1. \A x \in Sent' : \E r \in ToSet(sentLog') : x = r.packet
    BY DEF Sent
  <2>2. \A r \in ToSet(sentLog) : r.packet \in Sent
    BY DEF Sent
  <2> QED
    BY <1>5, <1>6, <1>9, <2>1, <2>2
<1>11. Logged' = Logged
  BY <1>1 DEF Logged
<1>12. Known' \subseteq Known
  BY <1>1, <1>8, <1>10, <1>11 DEF Known
<1>13. ClockInv'
  BY <1>1, <1>2, <1>12, ClockKept
<1>14. Typed'
  BY <1>1, <1>2, <1>6, <1>7 DEF Typed
<1>15. Dated'
  <2>1. ASSUME NEW r \in Records'
        PROVE  r \in Records \/ r = record
    <3>1. r \in ToSet(log) \cup ToSet(sentLog) \cup {record}
      BY <1>1, <1>6 DEF Records, ToSet
    <3> QED
      BY <3>1 DEF Records, ToSet
  <2> QED
    BY <1>1, <1>2, <1>4, <1>5, <2>1 DEF Dated, StartInv
<1>16. Based'
  BY <1>1, <1>2, <1>11 DEF Based, StartInv
<1>17. StartInv'
  BY <1>1, <1>2, <1>4, <1>15, <1>16 DEF StartInv
<1> QED
  BY <1>13, <1>14, <1>17 DEF IInv

LEMMA TickKeeps ==
  ASSUME IInv, Tick
  PROVE  IInv'
<1>1. UNCHANGED <<restarts, saved, queue, startTime, pipeStart, pipeQueue, log, sentLog, base>>
      /\ now' = now + 1 /\ timer' = [d \in Devices |-> timer[d] + 1]
  BY DEF Tick
<1>2. Typed /\ ClockInv /\ StartInv /\ now \in Int /\ timer \in [Devices -> Nat]
  BY DEF IInv, Typed
<1>3. now' \in Int /\ timer' \in [Devices -> Nat]
      /\ \A d \in Devices : timer'[d] - now' = timer[d] - now
  BY <1>1, <1>2
<1>4. Typed'
  BY <1>1, <1>2, <1>3 DEF Typed
<1>5. Known' = Known /\ Logged' = Logged /\ Records' = Records
  BY <1>1 DEF Known, Piped, Logged, Sent, Records
<1>6. \A x \in Known : x.dev # Simulated => x.dev \in Devices
  BY <1>2, KnownTyped
<1>7. ClockInv'
  BY <1>1, <1>2, <1>3, <1>5, <1>6 DEF ClockInv
<1>8. StartInv'
  BY <1>1, <1>2, <1>5 DEF StartInv, Dated, Based
<1> QED
  BY <1>4, <1>7, <1>8 DEF IInv

\* A board that starts anew begins a life no packet is of.
LEMMA RestartKeeps ==
  ASSUME IInv, NEW d \in Devices, Restart(d)
  PROVE  IInv'
<1>1. UNCHANGED <<now, saved, queue, startTime, pipeStart, pipeQueue, log, sentLog, base>>
      /\ restarts' = [restarts EXCEPT ![d] = @ + 1] /\ timer' = [timer EXCEPT ![d] = 0]
  BY DEF Restart
<1>2. Typed /\ ClockInv /\ StartInv /\ restarts \in [Devices -> Nat] /\ timer \in [Devices -> Nat]
  BY DEF IInv, Typed
<1>3. restarts' \in [Devices -> Nat] /\ timer' \in [Devices -> Nat]
      /\ restarts'[d] = restarts[d] + 1
      /\ \A e \in Devices \ {d} : restarts'[e] = restarts[e] /\ timer'[e] = timer[e]
  BY <1>1, <1>2
<1>4. Typed'
  BY <1>1, <1>2, <1>3 DEF Typed
<1>5. Known' = Known /\ Logged' = Logged /\ Records' = Records
  BY <1>1 DEF Known, Piped, Logged, Sent, Records
<1>6. \A x \in Known : x.life \in Nat /\ (x.dev # Simulated => x.dev \in Devices)
  BY <1>2, KnownTyped
<1>7. ASSUME NEW x \in Known', x.dev # Simulated
      PROVE  /\ x.life <= restarts'[x.dev]
             /\ x.life = restarts'[x.dev] => x.stamp - x.at = timer'[x.dev] - now'
  <2>1. x \in Known /\ x.life \in Nat /\ x.dev \in Devices /\ x.life <= restarts[x.dev]
    BY <1>2, <1>5, <1>6, <1>7 DEF ClockInv
  <2>2. CASE x.dev = d
    <3>1. restarts[d] \in Nat /\ restarts'[x.dev] = restarts[d] + 1 /\ x.life <= restarts[d]
      BY <1>2, <1>3, <2>1, <2>2
    <3>2. x.life <= restarts'[x.dev] /\ x.life # restarts'[x.dev]
      BY <2>1, <3>1, SMT
    <3> QED
      BY <3>2
  <2>3. CASE x.dev # d
    <3>1. restarts'[x.dev] = restarts[x.dev] /\ timer'[x.dev] = timer[x.dev]
      BY <1>3, <2>1, <2>3
    <3> QED
      BY <1>1, <1>2, <1>7, <2>1, <3>1 DEF ClockInv
  <2> QED
    BY <2>2, <2>3
<1>8. ClockInv'
  BY <1>2, <1>5, <1>7 DEF ClockInv
<1>9. StartInv'
  BY <1>1, <1>2, <1>5 DEF StartInv, Dated, Based
<1> QED
  BY <1>4, <1>8, <1>9 DEF IInv

LEMMA IInvNext == IInv /\ [Next]_vars => IInv'
<1> SUFFICES ASSUME IInv, [Next]_vars PROVE IInv'
  OBVIOUS
<1>1. CASE Tick
  BY <1>1, TickKeeps
<1>2. CASE Simulate
  BY <1>2, SimulateKeeps
<1>3. CASE Handle
  BY <1>3, HandleKeeps
<1>4. ASSUME NEW d \in Devices, Capture(d) PROVE IInv'
  BY <1>4, CaptureKeeps
<1>5. ASSUME NEW d \in Devices, Restart(d) PROVE IInv'
  BY <1>5, RestartKeeps
<1>6. ASSUME NEW p \in Pipes, Write(p) PROVE IInv'
  BY <1>6, WriteKeeps
<1>7. CASE UNCHANGED vars
  <2>1. UNCHANGED <<now, timer, restarts, saved, queue, startTime, pipeStart, pipeQueue, log,
                    sentLog, base>>
    BY <1>7 DEF vars
  <2>2. Known' = Known /\ Logged' = Logged /\ Records' = Records
    BY <2>1 DEF Known, Piped, Logged, Sent, Records
  <2>3. Typed' /\ ClockInv'
    BY <2>1, <2>2 DEF IInv, Typed, ClockInv
  <2>4. StartInv'
    BY <2>1, <2>2 DEF IInv, StartInv, Dated, Based
  <2> QED
    BY <2>3, <2>4 DEF IInv
<1> QED
  BY <1>1, <1>2, <1>3, <1>4, <1>5, <1>6, <1>7 DEF Next

LEMMA IInvAlways == Spec => []IInv
<1> QED
  BY IInvInit, IInvNext, PTL DEF Spec

\* A record is of a known packet, and dated from the one start.
LEMMA RecordIs ==
  ASSUME IInv, NEW r \in Records
  PROVE  /\ r.packet \in Known /\ r.packet \in PacketSet
         /\ startTime \in Int /\ r.date = Date(startTime, r.packet.stamp)
<1>1. r \in ToSet(log) \cup ToSet(sentLog)
  BY DEF Records, ToSet
<1>2. r.packet \in Known
  BY <1>1 DEF Known, Logged, Sent
<1>3. startTime # None /\ startTime \in Int \cup {None} /\ r.date = Date(startTime, r.packet.stamp)
  BY DEF IInv, Typed, StartInv, Dated
<1>4. Known \subseteq PacketSet
  BY KnownTyped DEF IInv
<1> QED
  BY <1>2, <1>3, <1>4

----------------------------------------------------------------------------
(* The records of the board that gave the session its start are dated less *)
(* than two seconds from their capture, for every reading of its timer,    *)
(* every time zone and every width of the microseconds, however long the   *)
(* first packet waited (output_manager.cpp:250-259, pcap_builder.cpp:34).  *)
THEOREM DatesNearCapture == Spec => []NearCapture
<1>1. ASSUME IInv PROVE NearCapture
  <2> SUFFICES ASSUME NEW r \in OfBase
               PROVE  -2 * Second < Instant(r.date) - (r.packet.at + base.lag + Timezone)
                      /\ Instant(r.date) - (r.packet.at + base.lag + Timezone) < 2 * Second
    BY DEF NearCapture
  <2> DEFINE x == r.packet
  <2>1. r \in Records /\ x.dev = base.dev /\ x.life = base.life /\ base.dev # Simulated
    BY DEF OfBase
  <2>2. x \in Known /\ x \in PacketSet /\ startTime \in Int /\ r.date = Date(startTime, x.stamp)
        /\ startTime # None
    BY <1>1, <2>1, RecordIs, NoneAssumption
  <2>3. PICK b \in Logged : /\ b.dev = base.dev /\ b.life = base.life
                            /\ startTime = ((base.lag + Timezone) + b.at) - b.stamp
    BY <1>1, <2>1, <2>2 DEF IInv, StartInv, Based
  <2>4. b \in Known /\ b \in PacketSet
    BY <1>1, <2>3, KnownTyped DEF IInv, Known
  <2>5. x.stamp - x.at = b.stamp - b.at
    BY <1>1, <2>1, <2>2, <2>3, <2>4 DEF IInv, ClockInv
  <2>6. /\ x.stamp \in Nat /\ x.at \in Int /\ b.stamp \in Nat /\ b.at \in Int
        /\ base.lag \in Int /\ Timezone \in Int /\ Second \in Nat
    BY <1>1, <2>2, <2>4, SessionAssumption, TimeAssumption DEF PacketSet, IInv, Typed
  <2>7. PICK u \in 0 .. Second - 1, v \in 0 .. Second - 1, w \in 0 .. Second - 1 :
          Instant(r.date) = startTime + x.stamp + u - v - w
    <3>1. \E u, v, w \in 0 .. Second - 1 :
            Instant(Date(startTime, x.stamp)) = startTime + x.stamp + u - v - w
      BY <2>2, <2>6, DateError
    <3> QED
      BY <2>2, <3>1
  <2> HIDE DEF x
  <2>8. \A s, i, n, l, z, c, m \in Int :
          n - i = m - c /\ s = ((l + z) + c) - m
            => (s + n + u - v - w) - (i + l + z) = u - v - w
    BY <2>6, SMT
  <2>9. (startTime + x.stamp + u - v - w) - (x.at + base.lag + Timezone) = u - v - w
    <3>1. x.stamp \in Int /\ b.stamp \in Int
      BY <2>6
    <3>2. startTime \in Int /\ x.at \in Int /\ b.at \in Int /\ base.lag \in Int
          /\ Timezone \in Int
      BY <2>2, <2>6
    <3>3. x.stamp - x.at = b.stamp - b.at
          /\ startTime = ((base.lag + Timezone) + b.at) - b.stamp
      BY <2>3, <2>5
    <3> QED
      BY ONLY <2>8, <3>1, <3>2, <3>3
  <2>10. -2 * Second < u - v - w /\ u - v - w < 2 * Second
    BY <2>6, SMT
  <2> QED
    BY <2>7, <2>9, <2>10 DEF x
<1> QED
  BY <1>1, IInvAlways, PTL

(* Packets that a board captured a second or more apart, in one of its     *)
(* lives, are dated in the order of their capture in the files and in the  *)
(* pipes, whichever board the session's start came from                    *)
(* (output_manager.cpp:250-259, pcap_builder.cpp:34).                      *)
THEOREM DatesInOrder == Spec => []OrderAfterASecond
<1>1. ASSUME IInv PROVE OrderAfterASecond
  <2> SUFFICES ASSUME NEW r \in Records, NEW s \in Records,
                      r.packet.dev = s.packet.dev, r.packet.dev # Simulated,
                      r.packet.life = s.packet.life, r.packet.at + Second <= s.packet.at
               PROVE  Instant(r.date) < Instant(s.date)
    BY DEF OrderAfterASecond
  <2>1. /\ r.packet \in Known /\ r.packet \in PacketSet
        /\ startTime \in Int /\ r.date = Date(startTime, r.packet.stamp)
        /\ s.packet \in Known /\ s.packet \in PacketSet
        /\ s.date = Date(startTime, s.packet.stamp)
    BY <1>1, RecordIs
  <2>2. r.packet.stamp - r.packet.at = s.packet.stamp - s.packet.at
    BY <1>1, <2>1 DEF IInv, ClockInv
  <2>3. /\ r.packet.stamp \in Nat /\ r.packet.at \in Int
        /\ s.packet.stamp \in Nat /\ s.packet.at \in Int /\ Second \in Nat
    BY <2>1, TimeAssumption DEF PacketSet
  <2>4. r.packet.stamp + Second <= s.packet.stamp
    BY <2>2, <2>3, SMT
  <2> QED
    BY <2>1, <2>3, <2>4, DateOrder
<1> QED
  BY <1>1, IInvAlways, PTL

----------------------------------------------------------------------------
\* The bytes of a record

\* A sequence, of whatever elements, with a known length.
Row(s, n) == \E S : s \in Seq(S) /\ Len(s) = n

\* What stands where when two sequences are joined.
LEMMA RowsTogether ==
  ASSUME NEW s, NEW t, NEW m \in Nat, NEW n \in Nat, Row(s, m), Row(t, n)
  PROVE  \E U : s \in Seq(U) /\ Len(s) = m /\ t \in Seq(U) /\ Len(t) = n
<1>1. PICK S : s \in Seq(S) /\ Len(s) = m
  BY DEF Row
<1>2. PICK T : t \in Seq(T) /\ Len(t) = n
  BY DEF Row
<1>3. s \in Seq(S \cup T) /\ t \in Seq(S \cup T)
  BY <1>1, <1>2
<1> QED
  BY <1>1, <1>2, <1>3

LEMMA JoinedLength ==
  ASSUME NEW s, NEW t, NEW m \in Nat, NEW n \in Nat, NEW k, k = m + n, Row(s, m), Row(t, n)
  PROVE  Row(s \o t, k)
<1>1. PICK U : s \in Seq(U) /\ Len(s) = m /\ t \in Seq(U) /\ Len(t) = n
  BY RowsTogether
<1>2. s \o t \in Seq(U) /\ Len(s \o t) = m + n
  BY <1>1, ConcatProperties
<1> QED
  BY <1>2 DEF Row

\* t stands in z behind the first m elements, n of its elements at least.
StandsAt(t, z, m, n) == \A i \in 1 .. n : z[m + i] = t[i]

LEMMA JoinedFront ==
  ASSUME NEW s, NEW t, NEW m \in Nat, NEW n \in Nat, Row(s, m), Row(t, n)
  PROVE  StandsAt(s, s \o t, 0, m)
<1>1. PICK U : s \in Seq(U) /\ Len(s) = m /\ t \in Seq(U) /\ Len(t) = n
  BY RowsTogether
<1>2. \A i \in 1 .. m : i \in 1 .. m + n /\ i <= m /\ 0 + i = i
  BY SMT
<1>3. \A i \in 1 .. m + n : (s \o t)[i] = IF i <= m THEN s[i] ELSE t[i - m]
  BY <1>1, ConcatProperties
<1> QED
  BY <1>2, <1>3 DEF StandsAt

LEMMA JoinedBack ==
  ASSUME NEW s, NEW t, NEW m \in Nat, NEW n \in Nat, Row(s, m), Row(t, n)
  PROVE  StandsAt(t, s \o t, m, n)
<1>1. PICK U : s \in Seq(U) /\ Len(s) = m /\ t \in Seq(U) /\ Len(t) = n
  BY RowsTogether
<1>2. \A i \in 1 .. n : m + i \in 1 .. m + n /\ ~(m + i <= m) /\ (m + i) - m = i
  BY SMT
<1>3. \A i \in 1 .. m + n : (s \o t)[i] = IF i <= m THEN s[i] ELSE t[i - m]
  BY <1>1, ConcatProperties
<1> QED
  BY <1>2, <1>3 DEF StandsAt

\* A part keeps its place when more is joined.
LEMMA JoinedMiddle ==
  ASSUME NEW t, NEW z, NEW m \in Nat, NEW n \in Nat, StandsAt(t, z, m, n),
         NEW u, NEW l \in Nat, NEW k \in Nat, Row(z, l), m + n <= l, Row(u, k)
  PROVE  StandsAt(t, z \o u, m, n)
<1>1. StandsAt(z, z \o u, 0, l)
  BY JoinedFront
<1>2. \A i \in 1 .. n : m + i \in 1 .. l /\ 0 + (m + i) = m + i
  BY SMT
<1> QED
  BY <1>1, <1>2 DEF StandsAt

LEMMA LittleEndianRow ==
  ASSUME NEW n, NEW count \in Nat
  PROVE  Row(LittleEndian(n, count), count)
<1>1. PICK f : f = LittleEndian(n, count)
  OBVIOUS
<1>2. f = [i \in 1 .. count |-> f[i]]
  BY <1>1 DEF LittleEndian
<1>3. PICK S : S = { f[i] : i \in 1 .. count }
  OBVIOUS
<1>4. \A i \in 1 .. count : f[i] \in S
  BY <1>3
<1>5. f \in Seq(S) /\ Len(f) = count
  BY <1>2, <1>4
<1> QED
  BY <1>1, <1>5 DEF Row

\* The two bytes of a number that fits them.
LEMMA HighByte ==
  ASSUME NEW q \in Nat, NEW r \in Nat, q * 256 + r < 65536
  PROVE  q % 256 = q
<1>1. q < 256
  OBVIOUS
<1> QED
  BY <1>1

LEMMA BigEndianBytes ==
  ASSUME NEW n \in Nat, n < 65536
  PROVE  256 * BigEndian16(n)[1] + BigEndian16(n)[2] = n
<1>1. PICK q, r : q = n \div 256 /\ r = n % 256
  OBVIOUS
<1>2. q \in Nat /\ r \in Nat /\ n = q * 256 + r
  BY <1>1
<1>3. q % 256 = q
  BY <1>2, HighByte
<1>4. BigEndian16(n)[1] = q /\ BigEndian16(n)[2] = r
  BY <1>1, <1>3 DEF BigEndian16
<1> QED
  BY <1>2, <1>4

\* The headers have their lengths, and the length they are given its place.
LEMMA HeaderRows ==
  ASSUME NEW n
  PROVE  /\ Row(ipv4_header(n), 20) /\ Row(udp_header(n), 8) /\ Row(ti_header, 4)
         /\ ipv4_header(n)[3] = BigEndian16(n)[1] /\ ipv4_header(n)[4] = BigEndian16(n)[2]
         /\ udp_header(n)[5] = BigEndian16(n)[1] /\ udp_header(n)[6] = BigEndian16(n)[2]
<1>1. PICK a, b : BigEndian16(n) = << a, b >>
  BY DEF BigEndian16
<1>2. Row(BigEndian16(n), 2)
  <2>1. PICK S : S = {a, b}
    OBVIOUS
  <2>2. << a, b >> \in Seq(S) /\ Len(<< a, b >>) = 2
    BY <2>1
  <2> QED
    BY <1>1, <2>2 DEF Row
<1>3. Row(ipv4_header(n), 20) /\ ipv4_header(n)[3] = a /\ ipv4_header(n)[4] = b
  <2>1. PICK front, back :
          /\ front = << 69, 0 >>
          /\ back = << 0, 0, 0, 0, 128, 17, 183, 59, 192, 168, 1, 3, 192, 168, 1, 3 >>
    OBVIOUS
  <2>2. ipv4_header(n) = (front \o BigEndian16(n)) \o back
    BY <2>1 DEF ipv4_header
  <2>3. Row(front, 2) /\ Row(back, 16)
    <3>1. front \in Seq(Int) /\ Len(front) = 2
      BY <2>1
    <3>2. back \in Seq(Int) /\ Len(back) = 16
      BY <2>1
    <3> QED
      BY <3>1, <3>2 DEF Row
  <2>4. Row(front \o BigEndian16(n), 4)
    BY ONLY <1>2, <2>3, JoinedLength, SMT
  <2>5. Row((front \o BigEndian16(n)) \o back, 20)
    BY ONLY <2>3, <2>4, JoinedLength, SMT
  <2>6. StandsAt(BigEndian16(n), (front \o BigEndian16(n)) \o back, 2, 2)
    <3>1. PICK k, l, o, q : k = 2 /\ l = 2 /\ o = 16 /\ q = 4
      OBVIOUS
    <3>2. k \in Nat /\ l \in Nat /\ o \in Nat /\ q \in Nat /\ k + l <= q
      BY <3>1
    <3>3. Row(front, k) /\ Row(BigEndian16(n), l) /\ Row(back, o)
          /\ Row(front \o BigEndian16(n), q)
      BY <1>2, <2>3, <2>4, <3>1
    <3>4. StandsAt(BigEndian16(n), front \o BigEndian16(n), k, l)
      BY ONLY <3>2, <3>3, JoinedBack, Zenon
    <3>5. StandsAt(BigEndian16(n), (front \o BigEndian16(n)) \o back, k, l)
      BY ONLY <3>2, <3>3, <3>4, JoinedMiddle, Zenon
    <3> QED
      BY <3>1, <3>5
  <2>7. ipv4_header(n)[3] = BigEndian16(n)[1] /\ ipv4_header(n)[4] = BigEndian16(n)[2]
    <3>1. 2 + 1 = 3 /\ 2 + 2 = 4 /\ 1 \in 1 .. 2 /\ 2 \in 1 .. 2
      OBVIOUS
    <3> QED
      BY <2>2, <2>6, <3>1 DEF StandsAt
  <2>8. BigEndian16(n)[1] = a /\ BigEndian16(n)[2] = b
    BY <1>1
  <2> QED
    BY <2>2, <2>5, <2>7, <2>8
<1>4. Row(udp_header(n), 8) /\ udp_header(n)[5] = a /\ udp_header(n)[6] = b
  <2>1. PICK front, back : front = << 69, 96, 69, 96 >> /\ back = << 29, 130 >>
    OBVIOUS
  <2>2. udp_header(n) = (front \o BigEndian16(n)) \o back
    BY <2>1 DEF udp_header
  <2>3. Row(front, 4) /\ Row(back, 2)
    <3>1. front \in Seq(Int) /\ Len(front) = 4
      BY <2>1
    <3>2. back \in Seq(Int) /\ Len(back) = 2
      BY <2>1
    <3> QED
      BY <3>1, <3>2 DEF Row
  <2>4. Row(front \o BigEndian16(n), 6)
    BY ONLY <1>2, <2>3, JoinedLength, SMT
  <2>5. Row((front \o BigEndian16(n)) \o back, 8)
    BY ONLY <2>3, <2>4, JoinedLength, SMT
  <2>6. StandsAt(BigEndian16(n), (front \o BigEndian16(n)) \o back, 4, 2)
    <3>1. PICK k, l, o, q : k = 4 /\ l = 2 /\ o = 2 /\ q = 6
      OBVIOUS
    <3>2. k \in Nat /\ l \in Nat /\ o \in Nat /\ q \in Nat /\ k + l <= q
      BY <3>1
    <3>3. Row(front, k) /\ Row(BigEndian16(n), l) /\ Row(back, o)
          /\ Row(front \o BigEndian16(n), q)
      BY <1>2, <2>3, <2>4, <3>1
    <3>4. StandsAt(BigEndian16(n), front \o BigEndian16(n), k, l)
      BY ONLY <3>2, <3>3, JoinedBack, Zenon
    <3>5. StandsAt(BigEndian16(n), (front \o BigEndian16(n)) \o back, k, l)
      BY ONLY <3>2, <3>3, <3>4, JoinedMiddle, Zenon
    <3> QED
      BY <3>1, <3>5
  <2>7. udp_header(n)[5] = BigEndian16(n)[1] /\ udp_header(n)[6] = BigEndian16(n)[2]
    <3>1. 4 + 1 = 5 /\ 4 + 2 = 6 /\ 1 \in 1 .. 2 /\ 2 \in 1 .. 2
      OBVIOUS
    <3> QED
      BY <2>2, <2>6, <3>1 DEF StandsAt
  <2>8. BigEndian16(n)[1] = a /\ BigEndian16(n)[2] = b
    BY <1>1
  <2> QED
    BY <2>2, <2>5, <2>7, <2>8
<1>5. Row(ti_header, 4)
  <2>1. ti_header \in Seq(Int) /\ Len(ti_header) = 4
    BY DEF ti_header
  <2> QED
    BY <2>1 DEF Row
<1> QED
  BY <1>1, <1>3, <1>4, <1>5


LEMMA PartIs ==
  ASSUME NEW t, NEW z, NEW m \in Nat, NEW n \in Nat,
         Row(t, n), Row(z, m + n), StandsAt(t, z, m, n)
  PROVE  SubSeq(z, m + 1, m + n) = t
<1>1. PICK T : t \in Seq(T) /\ Len(t) = n
  BY DEF Row
<1>2. PICK S : z \in Seq(S) /\ Len(z) = m + n
  BY DEF Row
<1>3. PICK U : U = S \cup T
  OBVIOUS
<1>4. t \in Seq(U) /\ z \in Seq(U)
  BY <1>1, <1>2, <1>3
<1>5. PICK part : part = SubSeq(z, m + 1, m + n)
  OBVIOUS
<1>6. /\ m + 1 \in Int /\ m + n \in Int /\ ((m + n) - (m + 1)) + 1 = n
      /\ m + 1 <= m + n \/ n = 0
      /\ \A i \in m + 1 .. m + n : i \in 1 .. m + n
      /\ \A i \in 1 .. n : ((m + 1) + i) - 1 = m + i
  BY SMT
<1>7. \A i \in m + 1 .. m + n : z[i] \in U
  BY <1>2, <1>4, <1>6, ElementOfSeq
<1>8. /\ part \in Seq(U)
      /\ Len(part) = IF m + 1 <= m + n THEN ((m + n) - (m + 1)) + 1 ELSE 0
      /\ \A i \in 1 .. ((m + n) - (m + 1)) + 1 : part[i] = z[((m + 1) + i) - 1]
  BY <1>5, <1>6, <1>7, SubSeqProperties
<1>9. Len(part) = n /\ \A i \in 1 .. n : part[i] = t[i]
  BY <1>6, <1>8 DEF StandsAt
<1>10. part = t
  BY <1>1, <1>4, <1>8, <1>9, SeqEqual
<1> QED
  BY <1>5, <1>10

\* A part of a record that begins with its first two headers.
Headed(z, ip, udp, l) ==
  /\ l \in Nat /\ Row(z, l) /\ 28 <= l
  /\ StandsAt(ip, z, 0, 20) /\ StandsAt(udp, z, 20, 8)

LEMMA HeadedStarts ==
  ASSUME NEW ip, NEW udp, Row(ip, 20), Row(udp, 8)
  PROVE  Headed(ip \o udp, ip, udp, 28)
<1>1. PICK m, n : m = 20 /\ n = 8
  OBVIOUS
<1>2. m \in Nat /\ n \in Nat /\ Row(ip, m) /\ Row(udp, n)
  BY <1>1
<1>3. StandsAt(ip, ip \o udp, 0, m) /\ StandsAt(udp, ip \o udp, m, n)
  BY ONLY <1>2, JoinedFront, JoinedBack, Zenon
<1>4. Row(ip \o udp, 28)
  BY JoinedLength
<1> QED
  BY <1>1, <1>3, <1>4 DEF Headed

LEMMA HeadedGrows ==
  ASSUME NEW z, NEW ip, NEW udp, NEW l, Headed(z, ip, udp, l),
         NEW u, NEW k \in Nat, Row(u, k), NEW q, q = l + k
  PROVE  Headed(z \o u, ip, udp, q)
<1>1. PICK i, m, n : i = 0 /\ m = 20 /\ n = 8
  OBVIOUS
<1>2. l \in Nat /\ Row(z, l) /\ StandsAt(ip, z, i, m) /\ StandsAt(udp, z, m, n)
  BY <1>1 DEF Headed
<1>3. i \in Nat /\ m \in Nat /\ n \in Nat /\ i + m <= l /\ m + n <= l
  BY <1>1 DEF Headed
<1>4. StandsAt(ip, z \o u, i, m)
  BY <1>2, <1>3, JoinedMiddle, Zenon
<1>5. StandsAt(udp, z \o u, m, n)
  BY <1>2, <1>3, JoinedMiddle, Zenon
<1>6. Row(z \o u, q)
  BY <1>2, JoinedLength
<1>7. q \in Nat /\ 28 <= q
  BY DEF Headed
<1> QED
  BY <1>1, <1>4, <1>5, <1>6, <1>7 DEF Headed

\* The layout of a record: 44 bytes and the payload.
LEMMA RecordLayout ==
  ASSUME NEW ip, NEW udp, NEW ti, NEW name, NEW phy, NEW freq, NEW chan, NEW end,
         NEW payload, NEW n \in Nat,
         Row(ip, 20), Row(udp, 8), Row(ti, 4), Row(name, 2), Row(phy, 2), Row(freq, 4),
         Row(chan, 2), Row(end, 2), Row(payload, n),
         NEW bytes,
         bytes = ip \o udp \o ti \o name \o phy \o freq \o chan \o end \o payload
  PROVE  Headed(bytes, ip, udp, 44 + n) /\ StandsAt(payload, bytes, 44, n)
<1>1. Headed(ip \o udp, ip, udp, 28)
  BY HeadedStarts
<1>2. Headed(ip \o udp \o ti, ip, udp, 32)
  BY ONLY <1>1, Row(ti, 4), HeadedGrows, SMT
<1>3. Headed(ip \o udp \o ti \o name, ip, udp, 34)
  BY ONLY <1>2, Row(name, 2), HeadedGrows, SMT
<1>4. Headed(ip \o udp \o ti \o name \o phy, ip, udp, 36)
  BY ONLY <1>3, Row(phy, 2), HeadedGrows, SMT
<1>5. Headed(ip \o udp \o ti \o name \o phy \o freq, ip, udp, 40)
  BY ONLY <1>4, Row(freq, 4), HeadedGrows, SMT
<1>6. Headed(ip \o udp \o ti \o name \o phy \o freq \o chan, ip, udp, 42)
  BY ONLY <1>5, Row(chan, 2), HeadedGrows, SMT
<1>7. PICK front : front = ip \o udp \o ti \o name \o phy \o freq \o chan \o end
  OBVIOUS
<1>8. Headed(front, ip, udp, 44)
  BY ONLY <1>6, <1>7, Row(end, 2), HeadedGrows, SMT
<1>9. PICK m, q : m = 44 /\ q = m + n
  OBVIOUS
<1>10. m \in Nat /\ q \in Nat /\ Headed(front, ip, udp, m) /\ Row(front, m)
  BY <1>8, <1>9 DEF Headed
<1>11. Headed(front \o payload, ip, udp, q)
  BY <1>9, <1>10, HeadedGrows, Zenon
<1>12. StandsAt(payload, front \o payload, m, n)
  BY <1>10, JoinedBack, Zenon
<1> QED
  BY <1>7, <1>9, <1>11, <1>12

\* What is taken from a frame whose length counts all but seven of its bytes.
LEMMA PacketOf ==
  ASSUME NEW frame \in Seq(0 .. 255), Len(frame) >= 16,
         256 * frame[5] + frame[4] = Len(frame) - 7
  PROVE  /\ convert_to_network_packet(frame).length = Len(frame) - 16
         /\ convert_to_network_packet(frame).payload = get_payload(frame)
         /\ Row(get_payload(frame), Len(frame) - 16)
<1>1. PICK n : n = Len(frame)
  OBVIOUS
<1>2. n \in Nat /\ n >= 16 /\ \A i \in 1 .. n : frame[i] \in 0 .. 255
  BY <1>1, LenProperties, ElementOfSeq
<1>3. PICK data : data = SubSeq(frame, 4, n - 2)
  OBVIOUS
<1>4. data \in Seq(0 .. 255) /\ Len(data) = n - 5 /\ \A i \in 1 .. n - 5 : data[i] = frame[i + 3]
  <2>1. /\ 4 \in Int /\ n - 2 \in Int /\ 4 <= n - 2 /\ ((n - 2) - 4) + 1 = n - 5
        /\ \A i \in 4 .. n - 2 : i \in 1 .. n
        /\ \A i \in 1 .. n - 5 : (4 + i) - 1 = i + 3
    BY <1>2, SMT
  <2>2. \A i \in 4 .. n - 2 : frame[i] \in 0 .. 255
    BY <1>2, <2>1
  <2> QED
    BY <1>3, <2>1, <2>2, SubSeqProperties
<1>5. data[1] = frame[4] /\ data[2] = frame[5]
  <2>1. 1 \in 1 .. n - 5 /\ 2 \in 1 .. n - 5 /\ 1 + 3 = 4 /\ 2 + 3 = 5
    BY <1>2
  <2> QED
    BY <1>4, <2>1
<1>6. PICK payload : payload = SubSeq(data, 10, Len(data) - 2)
  OBVIOUS
<1>7. /\ payload \in Seq(0 .. 255) /\ Len(payload) = n - 16
      /\ \A i \in 1 .. n - 16 : payload[i] = frame[12 + i]
  <2>1. /\ 10 \in Int /\ (n - 5) - 2 \in Int /\ (((n - 5) - 2) - 10) + 1 = n - 16
        /\ 10 <= (n - 5) - 2 \/ n - 16 = 0
        /\ \A i \in 10 .. (n - 5) - 2 : i \in 1 .. n - 5
        /\ \A i \in 1 .. n - 16 : (10 + i) - 1 \in 1 .. n - 5 /\ ((10 + i) - 1) + 3 = 12 + i
    BY <1>2, SMT
  <2>2. \A i \in 1 .. n - 5 : data[i] \in 0 .. 255
    BY <1>4, ElementOfSeq
  <2>3. \A i \in 10 .. (n - 5) - 2 : data[i] \in 0 .. 255
    BY <2>1, <2>2
  <2>4. /\ payload \in Seq(0 .. 255)
        /\ Len(payload) = IF 10 <= (n - 5) - 2 THEN (((n - 5) - 2) - 10) + 1 ELSE 0
        /\ \A i \in 1 .. (((n - 5) - 2) - 10) + 1 : payload[i] = data[(10 + i) - 1]
    BY <1>4, <1>6, <2>1, <2>3, SubSeqProperties
  <2> QED
    BY <1>4, <2>1, <2>4
<1>8. /\ get_payload(frame) \in Seq(0 .. 255) /\ Len(get_payload(frame)) = n - 16
      /\ \A i \in 1 .. n - 16 : get_payload(frame)[i] = frame[12 + i]
  <2>1. /\ 13 \in Int /\ n - 4 \in Int /\ ((n - 4) - 13) + 1 = n - 16
        /\ 13 <= n - 4 \/ n - 16 = 0
        /\ \A i \in 13 .. n - 4 : i \in 1 .. n
        /\ \A i \in 1 .. n - 16 : (13 + i) - 1 = 12 + i
    BY <1>2, SMT
  <2>2. \A i \in 13 .. n - 4 : frame[i] \in 0 .. 255
    BY <1>2, <2>1
  <2>3. get_payload(frame) = SubSeq(frame, 13, n - 4)
    BY <1>1 DEF get_payload
  <2>4. /\ get_payload(frame) \in Seq(0 .. 255)
        /\ Len(get_payload(frame)) = IF 13 <= n - 4 THEN ((n - 4) - 13) + 1 ELSE 0
        /\ \A i \in 1 .. ((n - 4) - 13) + 1 : get_payload(frame)[i] = frame[(13 + i) - 1]
    BY <2>1, <2>2, <2>3, SubSeqProperties
  <2> QED
    BY <2>1, <2>4
<1>9. payload = get_payload(frame)
  <2>1. PICK other : other = get_payload(frame)
    OBVIOUS
  <2>2. Len(payload) = Len(other) /\ \A i \in 1 .. Len(payload) : payload[i] = other[i]
    BY <1>7, <1>8, <2>1
  <2>3. payload \in Seq(0 .. 255) /\ other \in Seq(0 .. 255)
    BY <1>7, <1>8, <2>1
  <2>4. payload = other
    BY ONLY <2>2, <2>3, SeqEqual
  <2> QED
    BY <2>1, <2>4
<1>10. /\ convert_to_network_packet(frame).length = (256 * data[2] + data[1]) - 9
       /\ convert_to_network_packet(frame).payload = payload
  BY <1>1, <1>3, <1>6 DEF convert_to_network_packet, Inside
<1>11. (256 * data[2] + data[1]) - 9 = n - 16
  <2>1. PICK sum : sum = 256 * frame[5] + frame[4]
    OBVIOUS
  <2>2. sum = n - 7 /\ sum = 256 * data[2] + data[1]
    BY <1>1, <1>5, <2>1
  <2>3. sum - 9 = n - 16
    BY ONLY <1>2, <2>2, SMT
  <2> QED
    BY <2>2, <2>3
<1> QED
  BY <1>1, <1>8, <1>9, <1>10, <1>11 DEF Row

\* The bytes of a record in their places.
LEMMA RecordIsLaidOut ==
  ASSUME NEW frame, NEW interface, NEW mode, NEW channel, NEW packet, NEW n \in Nat,
         packet = convert_to_network_packet(frame), Row(packet.payload, n)
  PROVE  LET bytes == get_packet_data(frame, interface, mode, channel)
         IN  /\ Headed(bytes, ipv4_header(TotalLength(packet)),
                       udp_header(TotalLength(packet) - 20), 44 + n)
             /\ StandsAt(packet.payload, bytes, 44, n)
<1>1. PICK ip, udp, ti, name, phy, freq, chan, end :
        /\ ip = ipv4_header(TotalLength(packet)) /\ udp = udp_header(TotalLength(packet) - 20)
        /\ ti = ti_header /\ name = LittleEndian(interface, 2)
        /\ phy = << get_protocol_value(mode), get_ti_phy_value(mode) >>
        /\ freq = convertFreqToByte(calculateFinalFreq(mode, channel))
        /\ chan = LittleEndian(channel, 2) /\ end = << packet.rssi, packet.fcs >>
  OBVIOUS
<1>2. get_packet_data(frame, interface, mode, channel)
        = ip \o udp \o ti \o name \o phy \o freq \o chan \o end \o packet.payload
  BY <1>1 DEF get_packet_data
<1>3. Row(ip, 20) /\ Row(udp, 8) /\ Row(ti, 4)
  BY <1>1, HeaderRows
<1>4. Row(name, 2) /\ Row(chan, 2)
  BY <1>1, LittleEndianRow
<1>5. ASSUME NEW a, NEW b
      PROVE  Row(<< a, b >>, 2)
  <2>1. << a, b >> \in Seq({a, b}) /\ Len(<< a, b >>) = 2
    OBVIOUS
  <2> QED
    BY <2>1 DEF Row
<1>6. Row(phy, 2) /\ Row(end, 2)
  BY <1>1, <1>5
<1>7. Row(freq, 4)
  <2>1. PICK khz : khz = calculateFinalFreq(mode, channel)
    OBVIOUS
  <2>2. Row(LittleEndian(khz \div 1000, 2), 2) /\ Row(LittleEndian(Fraction(khz), 2), 2)
    BY LittleEndianRow
  <2>3. Row(convertFreqToByte(khz), 4)
    BY <2>2, JoinedLength DEF convertFreqToByte
  <2> QED
    BY <1>1, <2>1, <2>3
<1> QED
  <2>1. PICK bytes, payload :
          /\ bytes = ip \o udp \o ti \o name \o phy \o freq \o chan \o end \o payload
          /\ payload = packet.payload
    OBVIOUS
  <2>2. Row(payload, n)
    BY <2>1
  <2>3. Headed(bytes, ip, udp, 44 + n) /\ StandsAt(payload, bytes, 44, n)
    BY ONLY n \in Nat, <1>3, <1>4, <1>6, <1>7, <2>1, <2>2, RecordLayout
  <2> QED
    BY <1>1, <1>2, <2>1, <2>3

\* The bytes of a stream frame state a length of seven less than they are
\* (framer.cpp:50): the record of such a frame, if its length fits the 16 bits
\* of its headers, has in all three places the length of its bytes, and holds
\* the payload that keys are extracted from, whatever the frame, the port, the
\* mode and the channel (pcap_builder.cpp:43, pcap_builder.cpp:88).
THEOREM RecordLengthsFit ==
  ASSUME NEW frame \in Seq(0 .. 255), Len(frame) >= 16, Len(frame) + 28 < 65536,
         256 * frame[5] + frame[4] = Len(frame) - 7,
         NEW interface, NEW mode, NEW channel
  PROVE  LengthsFit(frame, interface, mode, channel)
<1>1. PICK packet : packet = convert_to_network_packet(frame)
  OBVIOUS
<1>2. PICK m : m = Len(frame)
  OBVIOUS
<1>3. m \in Nat /\ m >= 16 /\ m + 28 < 65536
  BY <1>2, LenProperties
<1>4. PICK n \in Nat : n = m - 16 /\ n + 44 < 65536
  BY ONLY <1>3, SMT
<1>5. packet.length = n /\ packet.payload = get_payload(frame) /\ Row(get_payload(frame), n)
  BY <1>1, <1>2, <1>4, PacketOf
<1>6. PICK total \in Nat : total = 44 + n /\ total = TotalLength(packet)
  BY <1>5 DEF TotalLength, Ipv4Size, UdpSize, TiSize, ProtocolSize, RadioSize
<1>7. PICK bytes, ip, udp, payload :
        /\ bytes = get_packet_data(frame, interface, mode, channel)
        /\ ip = ipv4_header(total) /\ udp = udp_header(total - 20)
        /\ payload = get_payload(frame)
  OBVIOUS
<1>8. Headed(bytes, ip, udp, 44 + n) /\ StandsAt(payload, bytes, 44, n)
  BY <1>1, <1>5, <1>6, <1>7, RecordIsLaidOut
<1>9. PICK S : bytes \in Seq(S) /\ Len(bytes) = total
  BY <1>6, <1>8 DEF Headed, Row
<1>10. 256 * bytes[3] + bytes[4] = total
  <2>1. bytes[3] = ip[3] /\ bytes[4] = ip[4]
    <3>1. 3 \in 1 .. 20 /\ 4 \in 1 .. 20 /\ 0 + 3 = 3 /\ 0 + 4 = 4
      BY SMT
    <3> QED
      BY <1>8, <3>1 DEF Headed, StandsAt
  <2>2. ip[3] = BigEndian16(total)[1] /\ ip[4] = BigEndian16(total)[2]
    BY <1>7, HeaderRows
  <2>3. total < 65536
    BY <1>4, <1>6
  <2> QED
    BY <2>1, <2>2, <2>3, BigEndianBytes
<1>11. 256 * bytes[25] + bytes[26] = total - 20
  <2>1. bytes[25] = udp[5] /\ bytes[26] = udp[6]
    <3>1. 5 \in 1 .. 8 /\ 6 \in 1 .. 8 /\ 20 + 5 = 25 /\ 20 + 6 = 26
      BY SMT
    <3> QED
      BY <1>8, <3>1 DEF Headed, StandsAt
  <2>2. udp[5] = BigEndian16(total - 20)[1] /\ udp[6] = BigEndian16(total - 20)[2]
    BY <1>7, HeaderRows
  <2>3. total - 20 \in Nat /\ total - 20 < 65536
    BY <1>4, <1>6
  <2> QED
    BY <2>1, <2>2, <2>3, BigEndianBytes
<1>12. SubSeq(bytes, 45, total) = payload
  <2>1. Row(bytes, 44 + n) /\ Row(payload, n) /\ 44 + 1 = 45 /\ 44 \in Nat
    BY <1>5, <1>7, <1>8 DEF Headed
  <2>2. SubSeq(bytes, 44 + 1, 44 + n) = payload
    BY ONLY n \in Nat, <1>8, <2>1, PartIs
  <2> QED
    BY <1>6, <2>1, <2>2
<1>13. get_packet_header(frame, 0).incl_len = total
  BY <1>1, <1>6 DEF get_packet_header
<1> QED
  BY <1>7, <1>9, <1>10, <1>11, <1>12, <1>13 DEF LengthsFit, Ipv4Size
==============================================================================
