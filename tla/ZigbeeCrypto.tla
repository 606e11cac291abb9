--------------------------- MODULE ZigbeeCrypto ---------------------------
(***************************************************************************)
(* The cryptography of crypto_handler.cpp over bytes: the keyed hash that  *)
(* derives the keys of the application layer and the authenticated         *)
(* encryption of a layer, up to one attempt of handle_decryption.  AES     *)
(* itself is external; the constant operator BlockCipher stands for it     *)
(* (encryptBlock): a block for a key and a block.  Byte strings are        *)
(* sequences of 0..255.                                                    *)
(***************************************************************************)
EXTENDS PayloadHandler, SequencesExt, Bitwise

CONSTANT BlockCipher(_, _)

BlockSize == 16

Bytes(byte, n) == [i \in 1..n |-> byte]
XorBytes(a, b) == [i \in DOMAIN a |-> a[i] ^^ b[i]]

\* The n bytes of a number, the most significant first.
BigEndian(number, n) == [i \in 1..n |-> (number \div 256^(n - i)) % 256]

\* A byte string cut into blocks.
Blocks(bytes) ==
  [j \in 1..(Len(bytes) \div BlockSize) |->
     SubSeq(bytes, (j - 1) * BlockSize + 1, j * BlockSize)]

---------------------------------------------------------------------------
(* Hash *)

IsLongMessage(message) == 8 * Len(message) >= 65536

\* padMessageHash: the bit 1, zeros, and the length in bits.  The zeros are
\* counted in bits: the length modulo a block, of which all but 16 (or 48)
\* bits are before the length.
PadMessageHash(message) ==
  LET bits == 8 * Len(message)
      long == IsLongMessage(message)
      padding == ((IF long THEN 5 ELSE 7) * BlockSize - (bits + 1))
                   % (8 * BlockSize)
  IN  message \o <<128>> \o Bytes(0, (padding - 7) \div 8)
        \o BigEndian(bits, IF long THEN (2 * BlockSize) \div 8
                                   ELSE BlockSize \div 8)
        \o (IF long THEN Bytes(0, BlockSize \div 8) ELSE <<>>)

\* matyasMeyerOseas: the hash of the blocks so far is the key for the next.
MatyasMeyerOseas(message) ==
  FoldLeft(LAMBDA hash, block : XorBytes(BlockCipher(hash, block), block),
           Bytes(0, BlockSize), Blocks(PadMessageHash(message)))

\* hmac: a key that is longer than a block is hashed, a shorter one padded.
Hmac(key, message) ==
  LET short == IF Len(key) > BlockSize THEN MatyasMeyerOseas(key) ELSE key
      adjusted == short \o Bytes(0, BlockSize - Len(short))
      inner == XorBytes(Bytes(54, BlockSize), adjusted)
      outer == XorBytes(Bytes(92, BlockSize), adjusted)
  IN  MatyasMeyerOseas(outer \o MatyasMeyerOseas(inner \o message))

---------------------------------------------------------------------------
(* Authentication *)

\* formLengthString, for lengths below 2^32 (the code throws beyond).
FormLengthString(length) ==
  IF length = 0 THEN <<>>
  ELSE IF length < 65280 THEN BigEndian(length, 2)
  ELSE <<255, 254>> \o BigEndian(length, 4)

\* padToBlockSize: zeros up to the next multiple of a block.
PadToBlockSize(bytes) == bytes \o Bytes(0, (-Len(bytes)) % BlockSize)

\* The first block: which fields there are and how long, and the nonce.
FirstBlock(plaintext, header, nonce, M) ==
  <<(IF header = <<>> THEN 0 ELSE 64) + 8 * ((M - 2) \div 2)
      + (14 - Len(nonce))>>
    \o nonce \o BigEndian(Len(plaintext) % 65536, 2)

\* A variant: the header without its length.
AuthenticatedUnmarked(plaintext, header, nonce, M) ==
  <<FirstBlock(plaintext, header, nonce, M)>>
    \o Blocks(PadToBlockSize(header) \o PadToBlockSize(plaintext))

\* The blocks that authentication feeds to the cipher.
Authenticated(plaintext, header, nonce, M) ==
  <<FirstBlock(plaintext, header, nonce, M)>>
    \o Blocks(PadToBlockSize(FormLengthString(Len(header)) \o header)
                \o PadToBlockSize(plaintext))

\* authentication: the first M bytes of the chained cipher.
Authentication(key, plaintext, header, nonce, M) ==
  SubSeq(FoldLeft(LAMBDA mac, block : BlockCipher(key, XorBytes(mac, block)),
                  Bytes(0, BlockSize),
                  Authenticated(plaintext, header, nonce, M)), 1, M)

---------------------------------------------------------------------------
(* Encryption *)

\* Block i of the key stream; block 0 hides the authentication tag.
KeyStream(key, nonce, i) ==
  BlockCipher(key, <<14 - Len(nonce)>> \o nonce \o BigEndian(i % 65536, 2))

\* Bytes hidden, or found again, under the stream from block 1 on.
Streamed(key, nonce, bytes) ==
  XorBytes(bytes, FlattenSeq([i \in 1..(Len(bytes) \div BlockSize + 1) |->
                                KeyStream(key, nonce, i)]))

\* The tag under the first M bytes of block 0.
Tagged(key, nonce, tag) ==
  XorBytes(tag, SubSeq(KeyStream(key, nonce, 0), 1, Len(tag)))

\* encrypt
Encrypt(key, plaintext, header, nonce, M) ==
  [ciphertext |-> Streamed(key, nonce, plaintext),
   authTag |-> Tagged(key, nonce,
                      Authentication(key, plaintext, header, nonce, M))]

\* decrypt: the plaintext, and whether the tag is that of the plaintext.
Decrypt(key, ciphertext, header, nonce, authTag, M) ==
  LET plaintext == Streamed(key, nonce, ciphertext)
  IN  [plaintext |-> plaintext,
       ok |-> Authentication(key, plaintext, header, nonce, M)
                = Tagged(key, nonce, authTag)]
---------------------------------------------------------------------------
(* One attempt to read a layer *)

\* The key of a layer: network keys as they are, link keys hashed.
LayerKey(key, aux, isNwkLayer) == IF isNwkLayer THEN key ELSE Hmac(key, aux.hashMsg)

\* A variant: the level is restored in the header alone.
WithLevelInHeader(aux, controlIndex, added) ==
  [header |-> [aux.header EXCEPT ![controlIndex] = (@ + added) % 256],
   nonce |-> aux.nonce]

\* The security control of the header and of the nonce after additions.
WithLevel(aux, controlIndex, added) ==
  [header |-> [aux.header EXCEPT ![controlIndex] = (@ + added) % 256],
   nonce |-> [aux.nonce EXCEPT ![13] = (@ + added) % 256]]

\* An attempt of handle_decryption on a layer with a given header: added is
\* what has been added to the control so far, M the length of the tag.
Attempt(header, payload, isNwkLayer, key, added, M) ==
  LET aux == AuxPayload(payload, header, isNwkLayer)
      control == WithLevel(aux, Len(header) + 1, added)
      split == Len(aux.payload) - M
  IN  IF ~aux.ok THEN [ok |-> FALSE, plaintext |-> <<>>]
      ELSE Decrypt(LayerKey(key, aux, isNwkLayer),
                   FirstBytes(aux.payload, split), control.header,
                   control.nonce, BytesBehind(aux.payload, split), M)
===========================================================================
