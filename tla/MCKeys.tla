------------------------------- MODULE MCKeys -------------------------------
(***************************************************************************)
(* Keys for TLC.  The session of KeyExtraction runs beside a list of       *)
(* inputs for the operators of PayloadHandler and ZigbeeCrypto: each input *)
(* is an initial state, where job is the input and the session is at its   *)
(* start; the session itself runs when there is no job.                    *)
(***************************************************************************)
EXTENDS KeyExtraction, ZigbeeCrypto

CONSTANTS ka, kb, std, none

VARIABLE job

MCKeySet == {ka, kb, std}

\* Transport commands under any keys, short and long, and frames that carry
\* nothing.
MCFrames ==
  {f \in [nwkKey : {ka, kb, none}, apsKey : {ka, kb, std, none},
          level : 5..7, command : {"network", "link", "other", "none"},
          carried : {ka, kb}, length : {6, 10, 40}] :
     /\ f.length > MicLength(f.level)
     /\ f.command \in {"other", "none"} => f.carried = ka /\ f.length = 6}

MCConfigured == {Unknown, 4, 5, 6, 7}

\* A function of all bytes of key and block, in place of AES.  The empty
\* sequences make TLC evaluate a block once.
MCCipher(key, block) ==
  LET k == key \o <<>>
      b == block \o <<>>
  IN  [i \in 1..16 |-> (k[i] + 3 * b[i] + 5 * b[(i % 16) + 1]
                          + 7 * k[((i + 4) % 16) + 1] * (b[((i + 6) % 16) + 1] + i)) % 256]
        \o <<>>

---------------------------------------------------------------------------
(* Frames, composed field by field *)

\* Bytes that tell their field and their place in it.
Field(seed, n) == [i \in 1..n |-> (17 * seed + 5 * i) % 256]

Flag(b, value) == IF b THEN value ELSE 0
Optional(b, field) == IF b THEN field ELSE <<>>

Address(mode, seed) ==
  CASE mode = "short" -> Field(seed, 2) [] mode = "long" -> Field(seed, 8)
    [] OTHER -> <<>>
ModeBits(mode) == CASE mode = "short" -> 2 [] mode = "long" -> 3 [] OTHER -> 0

MacHeader(d) ==
  <<1 + Flag(d.compressed, 64), 4 * ModeBits(d.dest) + 64 * ModeBits(d.src), 9>>
    \o Optional(d.dest # "none", Field(1, 2)) \o Address(d.dest, 2)
    \o Optional(~d.compressed /\ d.src # "none", Field(3, 2)) \o Address(d.src, 4)

NwkHeader(d) ==
  <<8, Flag(d.nwkSecured, 2) + Flag(d.relays >= 0, 4) + Flag(d.destIeee, 8)
         + Flag(d.srcIeee, 16)>>
    \o Field(5, 6) \o Optional(d.destIeee, Field(6, 8)) \o Optional(d.srcIeee, Field(7, 8))
    \o Optional(d.relays >= 0, <<d.relays, 0>> \o Field(8, 2 * d.relays))

ApsHeader(d) == <<1 + Flag(d.apsSecured, 32), 77>>

\* The command transport-key: identifier, kind, key, addresses.
TransportKey == <<5, 1>> \o Field(9, 16) \o Field(10, 17)

\* A sender secures with the level in the control and puts 0 on the air.
SecuredLayer(key, header, control, isNwkLayer, plaintext, l) ==
  LET sequence == Optional(isNwkLayer, <<3>>)
      rest == Field(11, 12) \o sequence
      nonce == Field(11, 12)
      sent == Encrypt(key, plaintext, header \o <<control + l>> \o rest,
                      SubSeq(nonce, 5, 12) \o SubSeq(nonce, 1, 4) \o <<control + l>>,
                      MicLength(l))
  IN  <<control>> \o rest \o sent.ciphertext \o sent.authTag

NwkKey == Field(12, 16)
LinkKey == Field(13, 16)

ApsFrame(d) ==
  ApsHeader(d) \o
    IF d.apsSecured
    THEN SecuredLayer(Hmac(LinkKey, IF d.load THEN <<2>> ELSE <<0>>), ApsHeader(d),
                      IF d.load THEN 56 ELSE 48, FALSE, TransportKey, d.level)
    ELSE TransportKey

Composed(d) ==
  MacHeader(d) \o NwkHeader(d)
    \o (IF d.nwkSecured
        THEN SecuredLayer(NwkKey, NwkHeader(d), 40, TRUE, ApsFrame(d), d.level)
        ELSE ApsFrame(d))
    \o Field(14, 2)

\* The layers of a frame, with the keys and the level of the sender.
OpenedAps(aps, l) ==
  IF aps.security
  THEN Attempt(aps.header, aps.payload, FALSE, LinkKey, l, MicLength(l))
  ELSE [ok |-> TRUE, plaintext |-> aps.payload]

OpenedNwk(nwk, l) ==
  IF nwk.security
  THEN Attempt(nwk.header, nwk.payload, TRUE, NwkKey, l, MicLength(l))
  ELSE [ok |-> TRUE, plaintext |-> nwk.payload]

Opened(frame, l) ==
  LET layer == NwkLayer(frame)
      nwk == NwkPayload(layer.nwk)
      aps == ApsPayload(OpenedNwk(nwk, l).plaintext)
  IN  IF layer.ok /\ nwk.ok /\ OpenedNwk(nwk, l).ok /\ aps.ok
      THEN OpenedAps(aps, l)
      ELSE NoLayer

---------------------------------------------------------------------------
(* Inputs *)

NoJob == [kind |-> "none"]

Modes == {"none", "short", "long"}

FrameJobs ==
  [kind : {"frame"}, dest : Modes, src : Modes, compressed : BOOLEAN,
   destIeee : BOOLEAN, srcIeee : BOOLEAN, relays : {-1, 0, 2},
   nwkSecured : BOOLEAN, apsSecured : {TRUE}, load : {FALSE}, level : {5}]
  \cup
  [kind : {"frame"}, dest : {"short"}, src : {"short"}, compressed : {TRUE},
   destIeee : {FALSE}, srcIeee : BOOLEAN, relays : {-1},
   nwkSecured : BOOLEAN, apsSecured : BOOLEAN, load : BOOLEAN, level : 5..7]

\* Byte strings that only their length tells apart, and others.
Plain == {Bytes(0, n) : n \in {0, 1, 15, 16, 17}} \cup {<<1>>, <<0, 1>>}

AuthJobs == [kind : {"auth"}, plaintext : Plain, header : Plain, M : {4, 8, 16}]

HashJobs ==
  [kind : {"hash"}, length : (0..40) \cup {8190, 8191, 8192, 8193}, last : {0, 128}]

LengthJobs ==
  [kind : {"length"}, length : (0..20) \cup (250..260) \cup (65270..65290)
                               \cup {65535, 65536, 16777216, 16777217}]

Jobs == FrameJobs \cup AuthJobs \cup HashJobs \cup LengthJobs

MCInit == Init /\ (job = NoJob \/ (level = Unknown /\ job \in Jobs))
MCNext == job = NoJob /\ Next /\ UNCHANGED job
MCSpec == MCInit /\ [][MCNext]_<<vars, job>>

---------------------------------------------------------------------------
(* Properties of the operators *)

\* A frame that was composed of its fields, whatever addresses and routes it
\* has and whichever layers are secured, is taken apart at the right places:
\* the command comes out as it went in, and the tags are accepted.
FrameRecovered ==
  job.kind = "frame" =>
    Opened(Composed(job), job.level) = [ok |-> TRUE, plaintext |-> TransportKey]

AuthInput(j) == Authenticated(j.plaintext, j.header, Bytes(7, 13), j.M)
AuthInputs == [j \in AuthJobs |-> AuthInput(j)]

HashMessageOf(j) == IF j.length = 0 THEN <<>> ELSE Bytes(0, j.length - 1) \o <<j.last>>
HashInputs == [j \in HashJobs |-> PadMessageHash(HashMessageOf(j))]

\* What the cipher is fed with tells what it is the tag or the hash of: two
\* inputs never give the same blocks, nor blocks of which one continues the
\* other, and all blocks are whole.  Otherwise a tag would be accepted for
\* another header or another plaintext.
EncodingsUnambiguous ==
  /\ job.kind = "auth" =>
       \A j \in AuthJobs \ {job} : ~IsPrefix(AuthInputs[job], AuthInputs[j])
  /\ job.kind = "hash" =>
       /\ Len(HashInputs[job]) % BlockSize = 0
       /\ \A j \in HashJobs :
            HashMessageOf(j) # HashMessageOf(job) => HashInputs[j] # HashInputs[job]
  /\ job.kind = "length" =>
       \A j \in LengthJobs \ {job} :
         job.length # 0 => ~IsPrefix(FormLengthString(job.length), FormLengthString(j.length))
=============================================================================
