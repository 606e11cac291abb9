--------------------------- MODULE KeyExtraction ---------------------------
(***************************************************************************)
(* CryptoHandler::extract_key over a session: the frames with transport    *)
(* keys that are heard, the keys and the security level that are learnt    *)
(* from them.  Cryptography is symbolic: an attempt to decrypt a layer     *)
(* succeeds with the key, the security level and the length of tag the     *)
(* sender used, and with nothing else.  ZigbeeCrypto and PayloadHandler    *)
(* have the bytes.                                                         *)
(***************************************************************************)
EXTENDS Integers, Sequences

CONSTANTS
  Keys,          \* network and link keys, and the keys carried
  StandardKey,   \* the link key every handler knows
  NoKey,         \* a layer that is not secured
  Frames,        \* the frames that may be heard
  Configured     \* the settings of security_level

ASSUME KeysAssumption == StandardKey \in Keys /\ NoKey \notin Keys

\* security_level when it is not configured.
Unknown == -1

Levels == 5..7

ASSUME ConfiguredAssumption == Configured \subseteq {Unknown} \cup 4..7

\* The length of the tag of a level: 32, 64 and 128 bits.
MicLength(l) == CASE l = 5 -> 4 [] l = 6 -> 8 [] OTHER -> 16

\* A frame as sent: the keys of its layers, the level of its network, what
\* the application layer is, the key it carries, and the number of bytes
\* behind its last security header.
Frame == [nwkKey : Keys \cup {NoKey}, apsKey : Keys \cup {NoKey},
          level : Levels, command : {"network", "link", "other", "none"},
          carried : Keys, length : Nat]

ASSUME FramesAssumption ==
  /\ Frames \subseteq Frame
  /\ \A f \in Frames : f.length > MicLength(f.level)

VARIABLES
  level,         \* security_level
  linkKeys,      \* link_keys
  nwkKeys,       \* nwk_keys
  running,       \* FALSE when the process has ended
  learntFrom     \* history: the frames that gave a key, oldest first

vars == <<level, linkKeys, nwkKeys, running, learntFrom>>

Elements(s) == {s[i] : i \in DOMAIN s}

---------------------------------------------------------------------------
(* handle_decryption *)

\* What the loops have added to the security control when they make attempt
\* n without a level: 5, 6 and 7 for each key, and nothing is taken back.
AddedSoFar(n) ==
  18 * ((n - 1) \div 3) + (CASE n % 3 = 1 -> 5 [] n % 3 = 2 -> 11 [] OTHER -> 18)

\* The attempts for a list of keys, in order: three lengths of tag per key
\* when the level is unknown, one otherwise.
AttemptsAtAll(keys) ==
  [n \in 1..(3 * Len(keys)) |->
     [key |-> keys[((n - 1) \div 3) + 1], added |-> AddedSoFar(n),
      mic |-> MicLength(5 + ((n - 1) % 3)), learnt |-> 5 + ((n - 1) % 3)]]

\* A variant: the tag of a level that is known has the length of the next.
AttemptsAtNext(keys, l) ==
  [n \in 1..Len(keys) |->
     [key |-> keys[n], added |-> n * l, mic |-> (l - 3) * 4, learnt |-> l]]

AttemptsAt(keys, l) ==
  [n \in 1..Len(keys) |->
     [key |-> keys[n], added |-> n * l, mic |-> (l - 4) * 4, learnt |-> l]]

Attempts(keys, l) ==
  IF l = Unknown THEN AttemptsAtAll(keys) ELSE AttemptsAt(keys, l)

\* A variant: any key will do, as if decrypt had not looked at the tag.
SucceedsUnchecked(attempt, key, l) == attempt.added % 256 = l

\* decrypt of a layer that was secured with key at level l.  The control is
\* a byte, whose level is overwritten with 0 on the air.
Succeeds(attempt, key, l) ==
  /\ attempt.key = key
  /\ attempt.added % 256 = l
  /\ attempt.mic = MicLength(l)

\* A payload shorter than the tag: the iterators cross, and the constructor
\* of the vector throws an exception that nobody catches.
TooShort(attempt, length) == attempt.mic > length

\* The first attempt that decrypts or throws, 0 if there is none.
Deciding(attempts, key, l, length) ==
  LET decides == {n \in DOMAIN attempts :
                    \/ Succeeds(attempts[n], key, l)
                    \/ TooShort(attempts[n], length)}
  IN  IF decides = {} THEN 0
      ELSE CHOOSE n \in decides : \A m \in decides : n <= m

\* handle_decryption of a layer: how it ends, and the level afterwards.
HandleDecryption(keys, key, known, frame, length) ==
  LET attempts == Attempts(keys, known)
      n == Deciding(attempts, key, frame.level, length)
  IN  IF n = 0 THEN [result |-> "false", level |-> known]
      ELSE IF TooShort(attempts[n], length)
           THEN [result |-> "throws", level |-> known]
           ELSE [result |-> "true", level |-> attempts[n].learnt]

---------------------------------------------------------------------------
(* extract_key *)

\* The network layer carries the header and the security header of the
\* layer above, and the tag of that layer is within length.
NwkLength(f) ==
  IF f.apsKey = NoKey THEN f.length ELSE f.length + 15 + MicLength(f.level)

Nwk(f) ==
  IF f.nwkKey = NoKey THEN [result |-> "true", level |-> level]
  ELSE HandleDecryption(nwkKeys, f.nwkKey, level, f, NwkLength(f))

\* extractApsPayload accepts commands; a command in the clear is not read.
ApsIsSecuredCommand(f) == f.command # "none" /\ f.apsKey # NoKey

Aps(f) ==
  IF ApsIsSecuredCommand(f)
  THEN HandleDecryption(linkKeys, f.apsKey, Nwk(f).level, f, f.length)
  ELSE [result |-> "false", level |-> Nwk(f).level]

Decrypted(f) == Nwk(f).result = "true" /\ Aps(f).result = "true"

Throws(f) ==
  \/ Nwk(f).result = "throws"
  \/ Nwk(f).result = "true" /\ Aps(f).result = "throws"

\* A key that is known already is not added.
AddTo(keys, key) == IF key \in Elements(keys) THEN keys ELSE Append(keys, key)

\* The list for keys of a kind.
KnownOfKind(command) == IF command = "network" THEN nwkKeys ELSE linkKeys

GivesKey(f) ==
  f.command \in {"network", "link"} /\ f.carried \notin Elements(KnownOfKind(f.command))

\* What the history keeps of a frame.
Origin(f) == [nwkKey |-> f.nwkKey, apsKey |-> f.apsKey, level |-> f.level,
              command |-> f.command, carried |-> f.carried]

\* extract_key of frame f.  The level is learnt with the network layer,
\* whatever becomes of the application layer.
ExtractKey(f) ==
  /\ running
  /\ level = Unknown \/ level >= 5
  /\ running' = ~Throws(f)
  /\ level' = IF Nwk(f).result = "true" THEN Aps(f).level ELSE level
  /\ nwkKeys' = IF Decrypted(f) /\ f.command = "network"
                THEN AddTo(nwkKeys, f.carried) ELSE nwkKeys
  /\ linkKeys' = IF Decrypted(f) /\ f.command = "link"
                 THEN AddTo(linkKeys, f.carried) ELSE linkKeys
  /\ learntFrom' = IF Decrypted(f) /\ GivesKey(f)
                   THEN Append(learntFrom, Origin(f)) ELSE learntFrom

\* Level 4 has no authentication: nothing is read.
Refuse(f) ==
  /\ running
  /\ level # Unknown /\ level < 5
  /\ UNCHANGED vars

\* What extract_key answers: OutputManager keeps the packet if it is true.
Answer(f) ==
  /\ level = Unknown \/ level >= 5
  /\ Decrypted(f)
  /\ f.command \in {"network", "link"} => GivesKey(f)

Init ==
  /\ level \in Configured
  /\ linkKeys = <<StandardKey>>
  /\ nwkKeys = <<>>
  /\ running = TRUE
  /\ learntFrom = <<>>

Next == \E f \in Frames : ExtractKey(f) \/ Refuse(f)

Spec == Init /\ [][Next]_vars

---------------------------------------------------------------------------
(* Properties *)

\* The frames before frame n that gave keys of a kind.
Before(n, command) ==
  {learntFrom[m].carried : m \in {m \in 1..(n - 1) : learntFrom[m].command = command}}

\* Every key in the lists but the standard one was carried by a frame, once,
\* and that frame was secured with keys that were known before it: the
\* handler never makes up a key, trusts a frame it cannot read, or takes a
\* level that is not the sender's.
LearntInChain ==
  /\ \A n \in DOMAIN learntFrom :
       LET f == learntFrom[n]
       IN  /\ f.apsKey \in {StandardKey} \cup Before(n, "link")
           /\ f.nwkKey \in {NoKey} \cup Before(n, "network")
           /\ f.command = "link" => f.carried \notin {StandardKey} \cup Before(n, "link")
           /\ f.command = "network" => f.carried \notin Before(n, "network")
           /\ f.level = level
  /\ Elements(linkKeys) = {StandardKey} \cup Before(Len(learntFrom) + 1, "link")
  /\ Elements(nwkKeys) = Before(Len(learntFrom) + 1, "network")

\* A frame that carries a key and is secured with the given keys.
Carries(f, nwk, link) ==
  /\ f.command \in {"network", "link"}
  /\ f.apsKey \in link
  /\ f.nwkKey \in {NoKey} \cup nwk

\* The first keys of the lists.
Firsts(keys) == {keys[i] : i \in DOMAIN keys \cap {1}}

\* A key that is carried under the first keys known can be read, if the level
\* is 5, or 6 and configured.
FirstKeysWork ==
  running =>
    \A f \in Frames :
      /\ Carries(f, Firsts(nwkKeys), Firsts(linkKeys))
      /\ \/ f.level = 5 /\ level \in {5, Unknown}
         \/ f.level = 6 /\ level = 6
      => Decrypted(f)

\* A key that is carried under known keys can be read if the level of the
\* network is the known one, or none is known.  crypto_handler.hpp:148 says
\* of security_level: "Can be 5~7 (0-4 not supported). If value is -1 levels
\* 5~7 will be tried."
KnownKeysWork ==
  running =>
    \A f \in Frames :
      /\ Carries(f, Elements(nwkKeys), Elements(linkKeys))
      /\ level \in {f.level, Unknown}
      => Decrypted(f)
===========================================================================
