-------------------------------- MODULE Sha1 --------------------------------
(***************************************************************************)
(* kernel/crypto/SHA1/sha1.c: hashing a message that arrives in pieces,    *)
(* padding it, and the HMAC built on that.  The compression function is    *)
(* free: a hash value is the sequence of blocks that went into it, so that *)
(* two digests are equal exactly when the same blocks were hashed.  Bytes  *)
(* are tagged names.  One step is one iteration of SHA1_Update's loop.     *)
(***************************************************************************)
EXTENDS Integers, Sequences

CONSTANTS
  BLOCK_BYTES,  \* 64
  LenBytes,     \* 8: the bytes of the message length at the end
  SHA1_LEN,     \* 20: the bytes of a digest
  MaxMsg,       \* the longest message hashed in pieces (bound)
  MaxKey        \* the longest key (bound)

Sha1Assumption ==
  /\ BLOCK_BYTES \in Nat /\ LenBytes \in Nat /\ 0 < LenBytes /\ LenBytes < BLOCK_BYTES
  /\ SHA1_LEN \in Nat /\ SHA1_LEN <= BLOCK_BYTES
  /\ MaxMsg \in Nat /\ MaxKey \in Nat

Zero == <<"zero">>
One == <<"one">>                            \* 1 << 7
LengthByte(l, j) == <<"length", l, j>>      \* byte j of l, the most significant first
Message(n) == [i \in 1..n |-> <<"message", i>>]
Key(n) == [i \in 1..n |-> <<"key", i>>]
Digest(h) == [i \in 1..SHA1_LEN |-> <<"digest", h, i>>]

VARIABLES
  h, block, active_len, len,   \* SHA1_CTX
  data,      \* what SHA1_Update still has to take
  todo,      \* HMAC's further updates of this context
  digest,    \* the message_digest of the last SHA1_Final
  stage,     \* "hash" and "done" after it; HMAC's "key", "inner", "outer", "mac"
  given, key, message,   \* SHA1_HMAC's key as it was given and as it is used
  hashed     \* all that was passed to updates of this context

ctx == <<h, block, active_len, len>>
vars == <<ctx, data, todo, digest, stage, given, key, message, hashed>>

-----------------------------------------------------------------------------
(* Padding.                                                                *)

BlockBits == 8 * BLOCK_BYTES            \* 512
PadTo == BlockBits - 8 * LenBytes       \* 448
Rest(active_l) == (active_l + 1) % BlockBits

\* k zero bits follow the one bit.
PadBits(active_l) ==
  IF Rest(active_l) < PadTo THEN PadTo - Rest(active_l)
  ELSE BlockBits - Rest(active_l) + PadTo

\* Where the length goes: block + active_l / 8 + k / 8 + 1.
LengthAt(active_l) == active_l \div 8 + PadBits(active_l) \div 8 + 1

\* Two blocks of bytes, of which the second may stay unused.
pad_sha1_message(M, l, active_l) ==
  [i \in 1..2 * BLOCK_BYTES |->
     IF i - 1 \in LengthAt(active_l)..LengthAt(active_l) + LenBytes - 1
       THEN LengthByte(l, i - 1 - LengthAt(active_l))
     ELSE IF i <= active_l \div 8 THEN M[i]
     ELSE IF i - 1 = active_l \div 8 THEN One ELSE Zero]

add_block(hash, b) == Append(hash, b)

\* Mutated: the second block is hashed one byte too late.
SecondBlockLate(active_l) == Rest(active_l) >= PadTo + 8

SecondBlock(active_l) == Rest(active_l) >= PadTo

\* The hash value that SHA1_Final gives.
Finished ==
  LET padded == pad_sha1_message(block, 8 * len, 8 * active_len)
      first == add_block(h, SubSeq(padded, 1, BLOCK_BYTES))
  IN IF SecondBlock(8 * active_len)
     THEN add_block(first, SubSeq(padded, BLOCK_BYTES + 1, 2 * BLOCK_BYTES))
     ELSE first

-----------------------------------------------------------------------------
(* Hashing.                                                                *)

ZeroBlock == [i \in 1..BLOCK_BYTES |-> Zero]

Init ==
  /\ h = <<>> /\ block = ZeroBlock /\ active_len = 0 /\ len = 0
  /\ data = <<>> /\ todo = <<>> /\ digest = <<>> /\ stage = "hash"
  /\ given = <<>> /\ key = <<>> /\ message = <<>> /\ hashed = <<>>

SHA1_Init ==
  /\ h' = <<>> /\ block' = ZeroBlock /\ active_len' = 0 /\ len' = 0
  /\ hashed' = <<>>

Between == data = <<>> /\ todo = <<>>

\* A new message, in a context used before.
Restart ==
  /\ Between /\ stage \in {"done", "mac"}
  /\ SHA1_Init
  /\ stage' = "hash"
  /\ UNCHANGED <<data, todo, digest, given, key, message>>

SHA1_Update(n) ==
  /\ Between /\ stage = "hash" /\ Len(hashed) + n <= MaxMsg
  /\ data' = [i \in 1..n |-> <<"message", Len(hashed) + i>>]
  /\ hashed' = hashed \o data'
  /\ UNCHANGED <<ctx, todo, digest, stage, given, key, message>>

\* Does the block stay open after write_len bytes more?
StaysOpen(write_len) == active_len + write_len # BLOCK_BYTES

UpdateStep ==
  LET write_len == IF active_len + Len(data) > BLOCK_BYTES
                   THEN BLOCK_BYTES - active_len ELSE Len(data)
      filled == [i \in 1..BLOCK_BYTES |->
                   IF i \in active_len + 1..active_len + write_len
                   THEN data[i - active_len] ELSE block[i]]
  IN /\ data # <<>>
     /\ len' = len + write_len
     /\ \/ /\ StaysOpen(write_len)
           /\ block' = filled
           /\ active_len' = active_len + write_len
           /\ data' = <<>>
           /\ UNCHANGED h
        \/ /\ ~StaysOpen(write_len)
           /\ h' = add_block(h, filled)
           /\ block' = ZeroBlock /\ active_len' = 0
           /\ data' = SubSeq(data, write_len + 1, Len(data))
     /\ UNCHANGED <<todo, digest, stage, given, key, message, hashed>>

SHA1_Final ==
  /\ Between /\ stage = "hash"
  /\ digest' = Digest(Finished)
  /\ stage' = "done"
  /\ UNCHANGED <<ctx, data, todo, given, key, message, hashed>>

-----------------------------------------------------------------------------
(* HMAC: contexts on the stack, each initialised, updated and finished.    *)

\* The key, zeroes appended, XORed with a pad byte.
Xor(pad, k) ==
  [i \in 1..BLOCK_BYTES |-> <<pad, IF i <= Len(k) THEN k[i] ELSE Zero>>]

\* A context that is to take these updates.
Fresh(updates, s) ==
  /\ SHA1_Init
  /\ data' = <<>> /\ todo' = updates
  /\ stage' = s

\* Mutated: only keys longer than a digest are hashed.
LongKeyDigest(n) == n > SHA1_LEN

LongKey(n) == n > BLOCK_BYTES

SHA1_HMAC(k, m) ==
  /\ Between /\ stage \in {"done", "mac"}
  /\ given' = Key(k) /\ key' = Key(k) /\ message' = Message(m)
  /\ \/ LongKey(k) /\ Fresh(<<key'>>, "key")
     \/ ~LongKey(k) /\ Fresh(<<Xor("ipad", key'), message'>>, "inner")
  /\ UNCHANGED digest

HmacUpdate ==
  /\ data = <<>> /\ todo # <<>>
  /\ data' = Head(todo) /\ todo' = Tail(todo)
  /\ hashed' = hashed \o Head(todo)
  /\ UNCHANGED <<ctx, digest, stage, given, key, message>>

\* The end of the key's hash, of the inner and of the outer one.
HmacFinal ==
  /\ Between /\ stage \in {"key", "inner", "outer"}
  /\ digest' = Digest(Finished)
  /\ \/ /\ stage = "key"
        /\ key' = digest'
        /\ Fresh(<<Xor("ipad", key'), message>>, "inner")
     \/ /\ stage = "inner"
        /\ Fresh(<<Xor("opad", key), digest'>>, "outer")
        /\ UNCHANGED key
     \/ /\ stage = "outer"
        /\ stage' = "mac"
        /\ UNCHANGED <<ctx, data, todo, key, hashed>>
  /\ UNCHANGED <<given, message>>

Next ==
  \/ Restart \/ UpdateStep \/ SHA1_Final \/ HmacUpdate \/ HmacFinal
  \/ \E n \in 0..MaxMsg : SHA1_Update(n)
  \/ \E k \in 0..MaxKey, m \in 0..MaxMsg : SHA1_HMAC(k, m)

Spec == Init /\ [][Next]_vars

-----------------------------------------------------------------------------
(* The standard: FIPS 180-4 section 5 and RFC 2104.                        *)

\* The fewest zero bytes that fill up the last block.
Fill(n) ==
  CHOOSE k \in 0..BLOCK_BYTES - 1 : (n + 1 + k + LenBytes) % BLOCK_BYTES = 0

Padded(m) ==
  m \o <<One>> \o [i \in 1..Fill(Len(m)) |-> Zero]
    \o [j \in 1..LenBytes |-> LengthByte(8 * Len(m), j - 1)]

Hash(m) ==
  [i \in 1..Len(Padded(m)) \div BLOCK_BYTES |->
     SubSeq(Padded(m), (i - 1) * BLOCK_BYTES + 1, i * BLOCK_BYTES)]

Hmac(k, m) ==
  LET K == IF Len(k) > BLOCK_BYTES THEN Digest(Hash(k)) ELSE k
      inner == Digest(Hash(Xor("ipad", K) \o m))
  IN Digest(Hash(Xor("opad", K) \o inner))

-----------------------------------------------------------------------------
(* Properties.                                                             *)

\* The type of every variable.
TypeOK ==
  /\ active_len \in 0..BLOCK_BYTES - 1 /\ len \in Nat
  /\ DOMAIN block = 1..BLOCK_BYTES
  /\ \A i \in DOMAIN h : DOMAIN h[i] = 1..BLOCK_BYTES
  /\ stage \in {"hash", "key", "inner", "outer", "done", "mac"}

\* However a message was cut into updates, SHA1_Final gives the hash of the
\* padded message, in one or two last blocks as the standard has it.
DigestIsHash ==
  (Between /\ stage \notin {"done", "mac"}) => Finished = Hash(hashed)

\* SHA1_HMAC gives the keyed hash of RFC 2104 for keys shorter than, as long
\* as and longer than a block.
HmacIsRight == stage = "mac" => digest = Hmac(given, message)
=============================================================================
