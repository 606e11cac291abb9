----------------------------- MODULE KeyProofs -----------------------------
(***************************************************************************)
(* For all keys, frames and settings: the keys and the level KeyExtraction *)
(* learns are those of senders it could already read, and the first keys   *)
(* of its lists always work.                                               *)
(***************************************************************************)
EXTENDS KeyExtraction, SelectionProofs

\* What the history keeps.
Origins == [nwkKey : Keys \cup {NoKey}, apsKey : Keys \cup {NoKey}, level : Levels,
            command : {"network", "link", "other", "none"}, carried : Keys]

Typed ==
  /\ level \in {Unknown} \cup 4..7
  /\ linkKeys \in Seq(Keys) /\ nwkKeys \in Seq(Keys)
  /\ learntFrom \in Seq(Origins)

\* The chain is inductive as it stands: since the level is that of every frame
\* that gave a key, it is known as soon as there is one, and then stays.
IInv == Typed /\ LearntInChain

----------------------------------------------------------------------------
\* Attempts

LEMMA MicLengths == MicLength(5) = 4 /\ MicLength(6) = 8 /\ MicLength(7) = 16
  BY DEF MicLength

\* The length of the tag tells the level.
LEMMA LevelOfTag ==
  ASSUME NEW l \in Levels, NEW k \in Levels, MicLength(l) = MicLength(k)
  PROVE  l = k
<1>1. (l = 5 \/ l = 6 \/ l = 7) /\ (k = 5 \/ k = 6 \/ k = 7)
  BY SMT DEF Levels
<1> QED
  BY <1>1, MicLengths, SMT

\* There are three attempts for each key.
LEMMA PlaceOfAttempt ==
  ASSUME NEW N \in Nat, NEW n \in 1 .. 3 * N, NEW q \in Nat, NEW r \in 0 .. 3 - 1,
         n - 1 = q * 3 + r
  PROVE  q + 1 \in 1 .. N /\ 5 + r \in Levels
  BY SMT DEF Levels

\* An attempt is made with a key of the list, and a tag as long as its level
\* says, which is the level it would learn.
LEMMA AttemptIs ==
  ASSUME NEW keys \in Seq(Keys), NEW known \in {Unknown} \cup 5..7,
         NEW n \in DOMAIN Attempts(keys, known), NEW l \in Levels,
         Attempts(keys, known)[n].mic = MicLength(l)
  PROVE  /\ Attempts(keys, known)[n].key \in Elements(keys)
         /\ Attempts(keys, known)[n].learnt = l
         /\ known # Unknown => known = l
<1>1. Len(keys) \in Nat /\ DOMAIN keys = 1 .. Len(keys)
  BY LenProperties
<1>2. CASE known = Unknown
  <2>1. Attempts(keys, known) = AttemptsAtAll(keys)
    BY <1>2 DEF Attempts
  <2>2. n \in 1 .. 3 * Len(keys)
    BY <2>1 DEF AttemptsAtAll
  <2> DEFINE i == ((n - 1) \div 3) + 1
             k == 5 + ((n - 1) % 3)
  <2>3. n - 1 \in Nat /\ 3 \in Nat \ {0}
    BY <1>1, <2>2, SMT
  <2>4. /\ (n - 1) \div 3 \in Nat /\ (n - 1) % 3 \in 0 .. 3 - 1
        /\ n - 1 = ((n - 1) \div 3) * 3 + ((n - 1) % 3)
    BY <2>3, Divided
  <2>5. i \in 1 .. Len(keys) /\ k \in Levels
    BY <1>1, <2>2, <2>4, PlaceOfAttempt
  <2>6. /\ Attempts(keys, known)[n].key = keys[i] /\ Attempts(keys, known)[n].learnt = k
        /\ Attempts(keys, known)[n].mic = MicLength(k)
    BY <2>1, <2>2 DEF AttemptsAtAll
  <2> HIDE DEF i, k
  <2>7. k = l
    BY <2>5, <2>6, LevelOfTag
  <2> QED
    BY <1>1, <1>2, <2>5, <2>6, <2>7 DEF Elements
<1>3. CASE known # Unknown
  <2>1. Attempts(keys, known) = AttemptsAt(keys, known)
    BY <1>3 DEF Attempts
  <2>2. n \in 1 .. Len(keys)
    BY <2>1 DEF AttemptsAt
  <2>3. /\ Attempts(keys, known)[n].key = keys[n] /\ Attempts(keys, known)[n].learnt = known
        /\ Attempts(keys, known)[n].mic = (known - 4) * 4
    BY <2>1, <2>2 DEF AttemptsAt
  <2>4. known \in 5..7
    BY <1>3
  <2>5. \/ MicLength(l) = 4 /\ l = 5
        \/ MicLength(l) = 8 /\ l = 6
        \/ MicLength(l) = 16 /\ l = 7
    <3>1. l = 5 \/ l = 6 \/ l = 7
      BY SMT DEF Levels
    <3> QED
      BY <3>1, MicLengths
  <2>6. known = l
    BY <2>3, <2>4, <2>5, SMT
  <2> QED
    BY <1>1, <2>2, <2>3, <2>6 DEF Elements
<1> QED
  BY <1>2, <1>3

LEMMA DomainOfAttempts ==
  ASSUME NEW keys \in Seq(Keys), NEW known
  PROVE  \A n \in DOMAIN Attempts(keys, known) : n \in Nat /\ n >= 1
<1>1. Len(keys) \in Nat
  BY LenProperties
<1>2. DOMAIN Attempts(keys, known) = 1 .. (3 * Len(keys))
      \/ DOMAIN Attempts(keys, known) = 1 .. Len(keys)
  BY DEF Attempts, AttemptsAtAll, AttemptsAt
<1> QED
  BY <1>1, <1>2, SMT

\* The deciding attempt is one that decides, and none before it does.
LEMMA DecidingIs ==
  ASSUME NEW keys \in Seq(Keys), NEW known, NEW key, NEW l, NEW length
  PROVE  LET a == Attempts(keys, known)
             n == Deciding(a, key, l, length)
             decides(m) == Succeeds(a[m], key, l) \/ TooShort(a[m], length)
         IN  /\ n # 0 => n \in DOMAIN a /\ decides(n)
             /\ \A m \in DOMAIN a : decides(m) => n \in 1 .. m
<1> DEFINE a == Attempts(keys, known)
           decides(m) == Succeeds(a[m], key, l) \/ TooShort(a[m], length)
           T == {m \in DOMAIN a : Succeeds(a[m], key, l) \/ TooShort(a[m], length)}
           n == Deciding(a, key, l, length)
<1> SUFFICES /\ n # 0 => n \in DOMAIN a /\ decides(n)
             /\ \A m \in DOMAIN a : decides(m) => n \in 1 .. m
  OBVIOUS
<1>1. \A m \in DOMAIN a : m \in Nat /\ m >= 1
  BY DomainOfAttempts
<1>2. n = IF T = {} THEN 0 ELSE CHOOSE m \in T : \A k \in T : m <= k
  BY DEF Deciding
<1>3. \A m \in DOMAIN a : decides(m) <=> m \in T
  OBVIOUS
<1>4. T \in SUBSET Nat
  BY <1>1
<1>5. T \subseteq DOMAIN a
  OBVIOUS
<1> HIDE DEF T, n, decides, a
<1>6. CASE T = {}
  BY <1>2, <1>3, <1>6
<1>7. CASE T # {}
  <2>1. \E m \in T : \A k \in T : m <= k
    BY <1>4, <1>7, Smallest
  <2>2. n = CHOOSE m \in T : \A k \in T : m <= k
    BY <1>2, <1>7
  <2>3. n \in T /\ \A k \in T : n <= k
    BY <2>1, <2>2
  <2>4. n \in DOMAIN a /\ decides(n)
    BY <1>3, <1>5, <2>3
  <2>5. ASSUME NEW m \in DOMAIN a, decides(m)
        PROVE  n \in 1 .. m
    <3>1. n <= m /\ m \in Nat /\ n \in Nat /\ n >= 1
      BY <1>1, <1>3, <2>3, <2>4, <2>5
    <3> QED
      BY <3>1, SMT
  <2> QED
    BY <2>4, <2>5
<1> QED
  BY <1>6, <1>7

\* A layer is decrypted with a key of the list only, and only at the sender's
\* level, which is then the level that is known (crypto_handler.cpp:345-388).
LEMMA DecryptionSucceeds ==
  ASSUME NEW keys \in Seq(Keys), NEW known \in {Unknown} \cup 5..7, NEW f, f.level \in Levels,
         NEW key, NEW length
  PROVE  LET h == HandleDecryption(keys, key, known, f, length)
         IN  /\ h.result = "true" => /\ key \in Elements(keys) /\ h.level = f.level
                                     /\ known # Unknown => known = f.level
             /\ h.result # "true" => h.level = known
<1> DEFINE h == HandleDecryption(keys, key, known, f, length)
           a == Attempts(keys, known)
           n == Deciding(a, key, f.level, length)
<1> SUFFICES /\ h.result = "true" => /\ key \in Elements(keys) /\ h.level = f.level
                                     /\ known # Unknown => known = f.level
             /\ h.result # "true" => h.level = known
  OBVIOUS
<1>1. h = IF n = 0 THEN [result |-> "false", level |-> known]
          ELSE IF TooShort(a[n], length) THEN [result |-> "throws", level |-> known]
          ELSE [result |-> "true", level |-> a[n].learnt]
  BY DEF HandleDecryption
<1>2. n # 0 => n \in DOMAIN a /\ (Succeeds(a[n], key, f.level) \/ TooShort(a[n], length))
  BY DecidingIs
<1>3. \A m \in DOMAIN a : a[m].mic = MicLength(f.level) =>
        /\ a[m].key \in Elements(keys) /\ a[m].learnt = f.level
        /\ known # Unknown => known = f.level
  BY AttemptIs
<1> HIDE DEF h, a, n
<1>4. CASE n = 0 \/ TooShort(a[n], length)
  <2>1. h.result # "true" /\ h.level = known
    BY <1>1, <1>4
  <2> QED
    BY <2>1
<1>5. CASE n # 0 /\ ~TooShort(a[n], length)
  <2>1. n \in DOMAIN a /\ a[n].key = key /\ a[n].mic = MicLength(f.level)
    BY <1>2, <1>5 DEF Succeeds
  <2>2. h.result = "true" /\ h.level = a[n].learnt
    BY <1>1, <1>5
  <2> QED
    BY <1>3, <2>1, <2>2
<1> QED
  BY <1>4, <1>5

\* The first attempt is at level l, if known is what is known of it.
AtFirst(l, known) == (l = 5 /\ known \in {5, Unknown}) \/ (l = 6 /\ known = 6)

\* handle_decryption reads a layer secured with the first key of the list.
FirstReads(keys, known, f, length) ==
  /\ HandleDecryption(keys, keys[1], known, f, length).result = "true"
  /\ HandleDecryption(keys, keys[1], known, f, length).level = f.level

\* A layer that is secured with the first key of the list is decrypted, if the
\* first attempt is at its level.
LEMMA FirstAttempt ==
  ASSUME NEW keys \in Seq(Keys), keys # << >>, NEW known, NEW f, NEW length \in Nat,
         length > MicLength(f.level), AtFirst(f.level, known)
  PROVE  FirstReads(keys, known, f, length)
<1> USE DEF AtFirst
<1> DEFINE a == Attempts(keys, known)
           n == Deciding(a, keys[1], f.level, length)
<1>1. Len(keys) \in Nat /\ Len(keys) # 0
  BY EmptySeq, LenProperties
<1>2. 1 \in 1 .. Len(keys) /\ 1 \in 1 .. 3 * Len(keys)
  BY <1>1, SMT
<1>3. /\ 1 \in DOMAIN a /\ a[1].key = keys[1] /\ a[1].added = f.level
      /\ a[1].mic = MicLength(f.level) /\ a[1].learnt = f.level
  <2>1. CASE known = Unknown
    <3>1. f.level = 5 /\ a = AttemptsAtAll(keys)
      BY <2>1, SMT DEF Attempts, Unknown
    <3>2. 1 \in DOMAIN a
      BY <1>2, <3>1 DEF AttemptsAtAll
    <3>3. a[1] = [key |-> keys[((1 - 1) \div 3) + 1], added |-> AddedSoFar(1),
                  mic |-> MicLength(5 + ((1 - 1) % 3)), learnt |-> 5 + ((1 - 1) % 3)]
      BY <1>2, <3>1 DEF AttemptsAtAll
    <3>4. ((1 - 1) \div 3) + 1 = 1 /\ 5 + ((1 - 1) % 3) = 5
      BY SMT
    <3>5. AddedSoFar(1) = 5
      BY SMT DEF AddedSoFar
    <3> QED
      BY <3>1, <3>2, <3>3, <3>4, <3>5
  <2>2. CASE known # Unknown
    <3>1. known = f.level /\ (known = 5 \/ known = 6) /\ a = AttemptsAt(keys, known)
      BY <2>2 DEF Attempts
    <3>2. 1 \in DOMAIN a
      BY <1>2, <3>1 DEF AttemptsAt
    <3>3. a[1] = [key |-> keys[1], added |-> 1 * known, mic |-> (known - 4) * 4,
                  learnt |-> known]
      BY <1>2, <3>1 DEF AttemptsAt
    <3>4. 1 * known = known /\ (known - 4) * 4 = MicLength(known)
      BY <3>1, MicLengths, SMT
    <3> QED
      BY <3>1, <3>2, <3>3, <3>4
  <2> QED
    BY <2>1, <2>2
<1>4. Succeeds(a[1], keys[1], f.level)
  <2>1. f.level % 256 = f.level
    BY SMT
  <2> QED
    BY <1>3, <2>1 DEF Succeeds
<1>5. ~TooShort(a[1], length)
  <2>1. MicLength(f.level) \in Nat
    BY MicLengths
  <2> QED
    BY <1>3, <2>1, SMT DEF TooShort
<1>6. n \in 1 .. 1
  BY <1>3, <1>4, DecidingIs
<1>7. n = 1
  BY <1>6, SMT
<1>8. HandleDecryption(keys, keys[1], known, f, length)
        = IF n = 0 THEN [result |-> "false", level |-> known]
          ELSE IF TooShort(a[n], length) THEN [result |-> "throws", level |-> known]
          ELSE [result |-> "true", level |-> a[n].learnt]
  BY DEF HandleDecryption
<1> HIDE DEF a, n
<1> QED
  BY <1>3, <1>5, <1>7, <1>8 DEF FirstReads

----------------------------------------------------------------------------
\* The layers of a frame

LEMMA FrameFields ==
  ASSUME NEW f \in Frames
  PROVE  /\ f.level \in Levels /\ f.length \in Nat /\ f.length > MicLength(f.level)
         /\ f.nwkKey \in Keys \cup {NoKey} /\ f.apsKey \in Keys \cup {NoKey}
         /\ f.carried \in Keys /\ f.command \in {"network", "link", "other", "none"}
  BY FramesAssumption DEF Frame

\* What extract_key has read of a frame when both layers were read, and the
\* level it goes on with when one was not (crypto_handler.cpp:401-430).
LEMMA LayersRead ==
  ASSUME Typed, level = Unknown \/ level >= 5, NEW f \in Frames
  PROVE  /\ Nwk(f).level \in {Unknown} \cup 5..7 /\ Aps(f).level \in {Unknown} \cup 5..7
         /\ level # Unknown => /\ Nwk(f).level = level
                               /\ Nwk(f).result = "true" => Aps(f).level = level
         /\ Decrypted(f) => /\ f.nwkKey \in {NoKey} \cup Elements(nwkKeys)
                            /\ f.apsKey \in Elements(linkKeys)
                            /\ Aps(f).level = f.level
<1>1. f.level \in Levels /\ Levels = 5..7
  BY FrameFields DEF Levels
<1>2. level \in {Unknown} \cup 5..7 /\ nwkKeys \in Seq(Keys) /\ linkKeys \in Seq(Keys)
  BY SMT DEF Typed, Unknown
<1>3. /\ Nwk(f).level \in {Unknown} \cup 5..7
      /\ level # Unknown => Nwk(f).level = level
      /\ Nwk(f).result = "true" => f.nwkKey \in {NoKey} \cup Elements(nwkKeys)
  <2>1. CASE f.nwkKey = NoKey
    <3>1. Nwk(f) = [result |-> "true", level |-> level]
      BY <2>1 DEF Nwk
    <3> QED
      BY <1>2, <2>1, <3>1
  <2>2. CASE f.nwkKey # NoKey
    <3> DEFINE h == HandleDecryption(nwkKeys, f.nwkKey, level, f, NwkLength(f))
    <3>1. Nwk(f) = h
      BY <2>2 DEF Nwk
    <3>2. /\ h.result = "true" => /\ f.nwkKey \in Elements(nwkKeys) /\ h.level = f.level
                                  /\ level # Unknown => level = f.level
          /\ h.result # "true" => h.level = level
      BY <1>1, <1>2, DecryptionSucceeds
    <3> HIDE DEF h
    <3> QED
      BY <1>1, <1>2, <3>1, <3>2
  <2> QED
    BY <2>1, <2>2
<1>4. CASE ApsIsSecuredCommand(f)
  <2> DEFINE h == HandleDecryption(linkKeys, f.apsKey, Nwk(f).level, f, f.length)
  <2>1. Aps(f) = h
    BY <1>4 DEF Aps
  <2>2. /\ h.result = "true" => /\ f.apsKey \in Elements(linkKeys) /\ h.level = f.level
                                /\ Nwk(f).level # Unknown => Nwk(f).level = f.level
        /\ h.result # "true" => h.level = Nwk(f).level
    BY <1>1, <1>2, <1>3, DecryptionSucceeds
  <2> HIDE DEF h
  <2>3. Aps(f).level \in {Unknown} \cup 5..7
    BY <1>1, <1>3, <2>1, <2>2
  <2>4. level # Unknown => Aps(f).level = level
    BY <1>3, <2>1, <2>2
  <2>5. Decrypted(f) => Nwk(f).result = "true" /\ h.result = "true"
    BY <2>1 DEF Decrypted
  <2> QED
    BY <1>3, <2>1, <2>2, <2>3, <2>4, <2>5
<1>5. CASE ~ApsIsSecuredCommand(f)
  <2>1. Aps(f) = [result |-> "false", level |-> Nwk(f).level]
    BY <1>5 DEF Aps
  <2>2. Aps(f).result # "true" /\ Aps(f).level = Nwk(f).level
    BY <2>1
  <2>3. ~Decrypted(f)
    BY <2>2 DEF Decrypted
  <2> QED
    BY <1>3, <2>2, <2>3
<1> QED
  BY <1>4, <1>5

----------------------------------------------------------------------------
\* The lists and the history

LEMMA ElementsAdded ==
  ASSUME NEW S, NEW s \in Seq(S), NEW e \in S
  PROVE  AddTo(s, e) \in Seq(S) /\ Elements(AddTo(s, e)) = Elements(s) \cup {e}
<1>1. CASE e \in Elements(s)
  BY <1>1 DEF AddTo
<1>2. CASE e \notin Elements(s)
  <2>1. AddTo(s, e) = Append(s, e)
    BY <1>2 DEF AddTo
  <2>2. /\ Append(s, e) \in Seq(S) /\ Len(Append(s, e)) = Len(s) + 1
        /\ \A i \in 1 .. Len(s) : Append(s, e)[i] = s[i]
        /\ Append(s, e)[Len(s) + 1] = e
    BY AppendProperties
  <2>3. Len(s) \in Nat /\ DOMAIN s = 1 .. Len(s)
    BY LenProperties
  <2>4. DOMAIN Append(s, e) = DOMAIN s \cup {Len(s) + 1}
    <3>1. DOMAIN Append(s, e) = 1 .. Len(s) + 1
      BY <2>2, LenProperties
    <3> QED
      BY <2>3, <3>1, SMT
  <2>5. Elements(Append(s, e)) = Elements(s) \cup {e}
    BY <2>2, <2>3, <2>4 DEF Elements
  <2> QED
    BY <2>1, <2>2, <2>5
<1> QED
  BY <1>1, <1>2

\* Before, of any history.
Given(s, n, command) == {s[m].carried : m \in {m \in 1 .. (n - 1) : s[m].command = command}}

LEMMA GivenAppended ==
  ASSUME NEW s \in Seq(Origins), NEW e \in Origins, NEW command
  PROVE  /\ \A n \in 1 .. Len(s) + 1 : Given(Append(s, e), n, command) = Given(s, n, command)
         /\ Given(Append(s, e), Len(s) + 2, command)
              = Given(s, Len(s) + 1, command) \cup (IF e.command = command THEN {e.carried} ELSE {})
<1>1. /\ \A i \in 1 .. Len(s) : Append(s, e)[i] = s[i]
      /\ Append(s, e)[Len(s) + 1] = e /\ Len(s) \in Nat
  BY AppendProperties, LenProperties
<1>2. ASSUME NEW n \in 1 .. Len(s) + 1
      PROVE  Given(Append(s, e), n, command) = Given(s, n, command)
  <2>1. \A m \in 1 .. (n - 1) : m \in 1 .. Len(s)
    BY <1>1, SMT
  <2> QED
    BY <1>1, <2>1 DEF Given
<1>3. 1 .. (Len(s) + 2 - 1) = (1 .. Len(s)) \cup {Len(s) + 1} /\ 1 .. (Len(s) + 1 - 1) = 1 .. Len(s)
  BY <1>1, SMT
<1>4. Given(Append(s, e), Len(s) + 2, command)
        = Given(s, Len(s) + 1, command) \cup (IF e.command = command THEN {e.carried} ELSE {})
  <2>1. \A x : x \in Given(Append(s, e), Len(s) + 2, command) <=>
          \E m \in (1 .. Len(s)) \cup {Len(s) + 1} :
            Append(s, e)[m].command = command /\ x = Append(s, e)[m].carried
    BY <1>3 DEF Given
  <2>2. \A x : x \in Given(s, Len(s) + 1, command) <=>
          \E m \in 1 .. Len(s) : s[m].command = command /\ x = s[m].carried
    BY <1>3 DEF Given
  <2>3. \A x : x \in Given(Append(s, e), Len(s) + 2, command) <=>
          x \in Given(s, Len(s) + 1, command) \/ (e.command = command /\ x = e.carried)
    BY <1>1, <2>1, <2>2
  <2> QED
    BY <2>3
<1> QED
  BY <1>2, <1>4

\* A frame of the history, after those that gave keys before it.
LinkOf(s, n, l) ==
  /\ s[n].apsKey \in {StandardKey} \cup Given(s, n, "link")
  /\ s[n].nwkKey \in {NoKey} \cup Given(s, n, "network")
  /\ s[n].command = "link" => s[n].carried \notin {StandardKey} \cup Given(s, n, "link")
  /\ s[n].command = "network" => s[n].carried \notin Given(s, n, "network")
  /\ s[n].level = l
ChainOf(s, l, links, nwks) ==
  /\ \A n \in DOMAIN s : LinkOf(s, n, l)
  /\ Elements(links) = {StandardKey} \cup Given(s, Len(s) + 1, "link")
  /\ Elements(nwks) = Given(s, Len(s) + 1, "network")

LEMMA ChainIs == LearntInChain <=> ChainOf(learntFrom, level, linkKeys, nwkKeys)
  BY DEF LearntInChain, ChainOf, LinkOf, Before, Given

\* A chain grows by a frame whose keys are in the lists and whose key is not.
LEMMA ChainGrows ==
  ASSUME NEW s \in Seq(Origins), NEW l, NEW links \in Seq(Keys), NEW nwks \in Seq(Keys),
         ChainOf(s, l, links, nwks), NEW e \in Origins, e.level = l,
         e.apsKey \in Elements(links), e.nwkKey \in {NoKey} \cup Elements(nwks),
         e.command \in {"network", "link"},
         e.command = "network" => e.carried \notin Elements(nwks),
         e.command = "link" => e.carried \notin Elements(links)
  PROVE  ChainOf(Append(s, e), l, IF e.command = "link" THEN AddTo(links, e.carried) ELSE links,
                 IF e.command = "network" THEN AddTo(nwks, e.carried) ELSE nwks)
<1> DEFINE t == Append(s, e)
<1>1. /\ \A i \in 1 .. Len(s) : t[i] = s[i]
      /\ t[Len(s) + 1] = e /\ Len(s) \in Nat /\ Len(t) = Len(s) + 1 /\ t \in Seq(Origins)
  BY AppendProperties, LenProperties
<1>2. DOMAIN s = 1 .. Len(s) /\ DOMAIN t = 1 .. Len(s) + 1
  BY <1>1, LenProperties
<1>3. \A command :
        /\ \A n \in 1 .. Len(s) + 1 : Given(t, n, command) = Given(s, n, command)
        /\ Given(t, Len(s) + 2, command)
             = Given(s, Len(s) + 1, command) \cup (IF e.command = command THEN {e.carried} ELSE {})
  BY GivenAppended
<1>4. Elements(links) = {StandardKey} \cup Given(s, Len(s) + 1, "link")
      /\ Elements(nwks) = Given(s, Len(s) + 1, "network")
  BY DEF ChainOf
<1>5. Len(t) + 1 = Len(s) + 2 /\ Len(s) + 1 \in 1 .. Len(s) + 1
  BY <1>1, SMT
<1> HIDE DEF t
<1>6. ASSUME NEW n \in DOMAIN t
      PROVE  LinkOf(t, n, l)
  <2>1. CASE n \in 1 .. Len(s)
    <3>1. n \in 1 .. Len(s) + 1 /\ n \in DOMAIN s
      BY <1>1, <1>2, <2>1, SMT
    <3>2. LinkOf(s, n, l) /\ t[n] = s[n]
      BY <1>1, <2>1, <3>1 DEF ChainOf
    <3>3. \A command : Given(t, n, command) = Given(s, n, command)
      BY <1>3, <3>1
    <3> QED
      BY <3>2, <3>3 DEF LinkOf
  <2>2. CASE n = Len(s) + 1
    <3>1. t[n] = e
      BY <1>1, <2>2
    <3>2. {StandardKey} \cup Given(t, n, "link") = Elements(links)
          /\ Given(t, n, "network") = Elements(nwks)
      BY <1>3, <1>4, <1>5, <2>2
    <3> QED
      BY <3>1, <3>2 DEF LinkOf
  <2> QED
    BY <1>1, <1>2, <2>1, <2>2, SMT
<1>7. e.carried \in Keys
  BY DEF Origins
<1>8. CASE e.command = "link"
  <2>1. Elements(AddTo(links, e.carried)) = Elements(links) \cup {e.carried}
    BY <1>7, ElementsAdded
  <2>2. Given(t, Len(t) + 1, "link") = Given(s, Len(s) + 1, "link") \cup {e.carried}
        /\ Given(t, Len(t) + 1, "network") = Given(s, Len(s) + 1, "network")
    BY <1>3, <1>5, <1>8
  <2>3. ChainOf(t, l, AddTo(links, e.carried), nwks)
    BY <1>4, <1>6, <2>1, <2>2 DEF ChainOf
  <2> QED
    BY <1>8, <2>3 DEF t
<1>9. CASE e.command = "network"
  <2>1. Elements(AddTo(nwks, e.carried)) = Elements(nwks) \cup {e.carried}
    BY <1>7, ElementsAdded
  <2>2. Given(t, Len(t) + 1, "network") = Given(s, Len(s) + 1, "network") \cup {e.carried}
        /\ Given(t, Len(t) + 1, "link") = Given(s, Len(s) + 1, "link")
    BY <1>3, <1>5, <1>9
  <2>3. ChainOf(t, l, links, AddTo(nwks, e.carried))
    BY <1>4, <1>6, <2>1, <2>2 DEF ChainOf
  <2> QED
    BY <1>9, <2>3 DEF t
<1> QED
  BY <1>8, <1>9

\* A step that learns no key may learn the level, but only while the history
\* is empty.
LEMMA ChainStays ==
  ASSUME NEW s \in Seq(Origins), NEW l, NEW k, NEW links, NEW nwks,
         ChainOf(s, l, links, nwks), l # Unknown => k = l
  PROVE  ChainOf(s, k, links, nwks)
<1>1. ASSUME NEW n \in DOMAIN s
      PROVE  LinkOf(s, n, k)
  <2>1. LinkOf(s, n, l) /\ s[n] \in Origins
    BY ElementOfSeq, LenProperties DEF ChainOf
  <2>2. s[n].level = l /\ s[n].level \in Levels
    BY <2>1 DEF LinkOf, Origins
  <2>3. l # Unknown
    BY <2>2, SMT DEF Levels, Unknown
  <2> QED
    BY <2>1, <2>3
<1> QED
  BY <1>1 DEF ChainOf

----------------------------------------------------------------------------
\* Theorems

LEMMA IInvInit == Init => IInv
<1> SUFFICES ASSUME Init PROVE IInv
  OBVIOUS
<1>1. level \in {Unknown} \cup 4..7 /\ linkKeys = <<StandardKey>> /\ nwkKeys = << >>
      /\ learntFrom = << >>
  BY ConfiguredAssumption DEF Init
<1>2. Typed
  <2>1. <<StandardKey>> \in Seq(Keys)
    BY KeysAssumption
  <2> QED
    BY <1>1, <2>1, EmptySeq DEF Typed
<1>3. DOMAIN << >> = {} /\ Len(<< >>) = 0 /\ 1 .. (0 + 1 - 1) = {}
  BY EmptySeq, SMT
<1>4. \A command : Given(<< >>, Len(<< >>) + 1, command) = {}
  BY <1>3 DEF Given
<1>5. Elements(<< >>) = {} /\ Elements(<<StandardKey>>) = {StandardKey}
  <2>1. DOMAIN <<StandardKey>> = {1} /\ <<StandardKey>>[1] = StandardKey
    OBVIOUS
  <2> QED
    BY <1>3, <2>1 DEF Elements
<1>6. ChainOf(learntFrom, level, linkKeys, nwkKeys)
  BY <1>1, <1>3, <1>4, <1>5 DEF ChainOf
<1> QED
  BY <1>2, <1>6, ChainIs DEF IInv

LEMMA ExtractKeyStep ==
  ASSUME IInv, NEW f \in Frames, ExtractKey(f)
  PROVE  IInv'
<1>1. Typed /\ ChainOf(learntFrom, level, linkKeys, nwkKeys)
  BY ChainIs DEF IInv
<1>2. linkKeys \in Seq(Keys) /\ nwkKeys \in Seq(Keys) /\ learntFrom \in Seq(Origins)
  BY <1>1 DEF Typed
<1>3. level = Unknown \/ level >= 5
  BY DEF ExtractKey
<1>4. /\ Nwk(f).level \in {Unknown} \cup 5..7 /\ Aps(f).level \in {Unknown} \cup 5..7
      /\ level # Unknown => /\ Nwk(f).level = level
                            /\ Nwk(f).result = "true" => Aps(f).level = level
      /\ Decrypted(f) => /\ f.nwkKey \in {NoKey} \cup Elements(nwkKeys)
                         /\ f.apsKey \in Elements(linkKeys)
                         /\ Aps(f).level = f.level
  BY <1>1, <1>3, LayersRead
<1>5. level' = IF Nwk(f).result = "true" THEN Aps(f).level ELSE level
  BY DEF ExtractKey
<1>6. level # Unknown => level' = level
  BY <1>4, <1>5
<1>7. level' \in {Unknown} \cup 4..7
  <2>1. level \in {Unknown} \cup 4..7
    BY <1>1 DEF Typed
  <2>2. Aps(f).level \in {Unknown} \cup 4..7
    BY <1>4, SMT DEF Unknown
  <2> QED
    BY <1>5, <2>1, <2>2
<1>8. ChainOf(learntFrom, level', linkKeys, nwkKeys)
  BY <1>1, <1>2, <1>6, ChainStays
<1>9. CASE Decrypted(f) /\ GivesKey(f)
  <2> DEFINE e == Origin(f)
  <2>1. f.command \in {"network", "link"} /\ f.carried \notin Elements(KnownOfKind(f.command))
    BY <1>9 DEF GivesKey
  <2>2. e \in Origins
    BY FrameFields DEF Origin, Origins
  <2>3. /\ e.level = f.level /\ e.apsKey = f.apsKey /\ e.nwkKey = f.nwkKey
        /\ e.command = f.command /\ e.carried = f.carried
    BY DEF Origin
  <2>4. /\ f.command = "network" => f.carried \notin Elements(nwkKeys)
        /\ f.command = "link" => f.carried \notin Elements(linkKeys)
    BY <2>1 DEF KnownOfKind
  <2>5. f.level = level'
    BY <1>4, <1>5, <1>9 DEF Decrypted
  <2>6. /\ learntFrom' = Append(learntFrom, e)
        /\ linkKeys' = IF e.command = "link" THEN AddTo(linkKeys, e.carried) ELSE linkKeys
        /\ nwkKeys' = IF e.command = "network" THEN AddTo(nwkKeys, e.carried) ELSE nwkKeys
    BY <1>9, <2>3 DEF ExtractKey
  <2> HIDE DEF e
  <2>7. ChainOf(learntFrom', level', linkKeys', nwkKeys')
    <3>1. /\ e.level = level' /\ e.apsKey \in Elements(linkKeys)
          /\ e.nwkKey \in {NoKey} \cup Elements(nwkKeys) /\ e.command \in {"network", "link"}
          /\ e.command = "network" => e.carried \notin Elements(nwkKeys)
          /\ e.command = "link" => e.carried \notin Elements(linkKeys)
      BY <1>4, <1>9, <2>1, <2>3, <2>4, <2>5
    <3> QED
      BY <1>2, <1>8, <2>2, <2>6, <3>1, ChainGrows
  <2>8. e.carried \in Keys
    BY <2>2 DEF Origins
  <2>9. learntFrom' \in Seq(Origins) /\ linkKeys' \in Seq(Keys) /\ nwkKeys' \in Seq(Keys)
    BY <1>2, <2>2, <2>6, <2>8, ElementsAdded, AppendProperties
  <2> QED
    BY <1>7, <2>7, <2>9, ChainIs DEF IInv, Typed, ChainOf, LearntInChain, LinkOf, Before, Given
<1>10. CASE ~(Decrypted(f) /\ GivesKey(f))
  <2>1. learntFrom' = learntFrom
    BY <1>10 DEF ExtractKey
  <2>2. linkKeys' = linkKeys
    <3>1. Decrypted(f) /\ f.command = "link" => f.carried \in Elements(linkKeys)
      BY <1>10 DEF GivesKey, KnownOfKind
    <3> QED
      BY <3>1 DEF ExtractKey, AddTo
  <2>3. nwkKeys' = nwkKeys
    <3>1. Decrypted(f) /\ f.command = "network" => f.carried \in Elements(nwkKeys)
      BY <1>10 DEF GivesKey, KnownOfKind
    <3> QED
      BY <3>1 DEF ExtractKey, AddTo
  <2>4. ChainOf(learntFrom', level', linkKeys', nwkKeys')
    BY <1>8, <2>1, <2>2, <2>3
  <2> QED
    BY <1>2, <1>7, <2>1, <2>2, <2>3, <2>4
       DEF IInv, Typed, ChainOf, LearntInChain, LinkOf, Before, Given
<1> QED
  BY <1>9, <1>10

LEMMA IInvStep == IInv /\ [Next]_vars => IInv'
<1> SUFFICES ASSUME IInv, [Next]_vars PROVE IInv'
  OBVIOUS
<1>1. CASE UNCHANGED vars
  BY <1>1 DEF IInv, Typed, LearntInChain, Before, vars
<1>2. ASSUME NEW f \in Frames, ExtractKey(f)
      PROVE  IInv'
  BY <1>2, ExtractKeyStep
<1>3. ASSUME NEW f \in Frames, Refuse(f)
      PROVE  IInv'
  BY <1>1, <1>3 DEF Refuse
<1> QED
  BY <1>1, <1>2, <1>3 DEF Next

LEMMA IInvHolds == Spec => []IInv
  BY IInvInit, IInvStep, PTL DEF Spec

\* Every key in the lists but the standard one was carried by a frame that was
\* secured with keys known before it, at the level the handler knows: whatever
\* is heard, no key is made up, trusted unread or taken twice
\* (crypto_handler.cpp:325-463).
THEOREM KeysLearntInChain == Spec => []LearntInChain
<1>1. IInv => LearntInChain
  BY DEF IInv
<1> QED
  BY <1>1, IInvHolds, PTL

\* A key that is carried under the first keys of the lists is read, although
\* the attempts for later keys add to the security control of earlier ones.
THEOREM FirstKeysAlwaysWork == Spec => []FirstKeysWork
<1>1. Typed => FirstKeysWork
  <2> SUFFICES ASSUME Typed, NEW f \in Frames,
                      Carries(f, Firsts(nwkKeys), Firsts(linkKeys)),
                      \/ f.level = 5 /\ level \in {5, Unknown}
                      \/ f.level = 6 /\ level = 6
               PROVE  Decrypted(f)
    BY DEF FirstKeysWork
  <2>1. /\ f.command \in {"network", "link"} /\ f.apsKey \in Firsts(linkKeys)
        /\ f.nwkKey \in {NoKey} \cup Firsts(nwkKeys)
    BY DEF Carries
  <2>2. nwkKeys \in Seq(Keys) /\ linkKeys \in Seq(Keys)
    BY DEF Typed
  <2>3. ASSUME NEW s \in Seq(Keys), NEW k \in Firsts(s)
        PROVE  s # << >> /\ k = s[1] /\ k # NoKey
    <3>1. 1 \in DOMAIN s /\ k = s[1]
      BY <2>3 DEF Firsts
    <3>2. s # << >> /\ s[1] \in Keys
      BY <3>1, ElementOfSeq, LenProperties
    <3> QED
      BY <3>1, <3>2, KeysAssumption
  <2>4. /\ f.length \in Nat /\ f.length > MicLength(f.level) /\ MicLength(f.level) \in Nat
    BY FrameFields, MicLengths
  <2>5. NwkLength(f) \in Nat /\ NwkLength(f) > MicLength(f.level)
    BY <2>4, SMT DEF NwkLength
  <2>6. /\ Nwk(f).result = "true"
        /\ \/ f.level = 5 /\ Nwk(f).level \in {5, Unknown}
           \/ f.level = 6 /\ Nwk(f).level = 6
    <3>1. CASE f.nwkKey = NoKey
      BY <3>1 DEF Nwk
    <3>2. CASE f.nwkKey # NoKey
      <4>1. f.nwkKey = nwkKeys[1] /\ nwkKeys # << >>
        BY <2>1, <2>2, <2>3, <3>2
      <4>2. Nwk(f) = HandleDecryption(nwkKeys, nwkKeys[1], level, f, NwkLength(f))
        BY <3>2, <4>1 DEF Nwk
      <4>3. AtFirst(f.level, level)
        BY DEF AtFirst
      <4>4. FirstReads(nwkKeys, level, f, NwkLength(f))
        BY <2>2, <2>5, <4>1, <4>3, FirstAttempt
      <4> QED
        BY <4>2, <4>3, <4>4 DEF AtFirst, FirstReads
    <3> QED
      BY <3>1, <3>2
  <2>7. f.apsKey = linkKeys[1] /\ linkKeys # << >> /\ f.apsKey # NoKey
    BY <2>1, <2>2, <2>3
  <2>8. Aps(f) = HandleDecryption(linkKeys, linkKeys[1], Nwk(f).level, f, f.length)
    BY <2>1, <2>7 DEF Aps, ApsIsSecuredCommand
  <2>9. AtFirst(f.level, Nwk(f).level)
    BY <2>6 DEF AtFirst
  <2>10. FirstReads(linkKeys, Nwk(f).level, f, f.length)
    BY <2>2, <2>4, <2>7, <2>9, FirstAttempt
  <2> QED
    BY <2>6, <2>8, <2>10 DEF Decrypted, FirstReads
<1>2. IInv => Typed
  BY DEF IInv
<1> QED
  BY <1>1, <1>2, IInvHolds, PTL
=============================================================================
