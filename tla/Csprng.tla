------------------------------- MODULE Csprng -------------------------------
(***************************************************************************)
(* kernel/csprng.c: random bytes are the blocks of a ChaCha20 stream, one  *)
(* per value of a 32-bit block counter; before the counter runs out, and   *)
(* whenever enough entropy was collected, the stream rekeys itself with a  *)
(* block of its own.  Keys and nonces are names: chacha_block and SHA1 are *)
(* taken to give values that were never seen before, so that what remains  *)
(* is the question the code has to answer, which inputs it uses them on.   *)
(* Calls run one at a time; one step of the model is one iteration of      *)
(* csprng_get_random or one whole rekeying.                                *)
(***************************************************************************)
EXTENDS Integers, FiniteSets

CONSTANTS
  CountMax,   \* 2^32 - 1: the last value of the block counter
  PoolMod,    \* 2^32: the arithmetic of hash_pool_size
  Threshold,  \* HASH_LEN * 2: the pool size from which entropy is used
  MaxAdd,     \* the most entropy one call adds
  MaxBlocks,  \* the most blocks one call asks for (bound)
  MaxKeys     \* names for keys (bound)

ASSUME CsprngAssumption ==
  /\ CountMax \in Nat /\ CountMax >= 2
  /\ Threshold \in Nat \ {0} /\ PoolMod \in Nat /\ MaxAdd \in Nat
  /\ Threshold + MaxAdd <= PoolMod
  /\ MaxBlocks \in Nat /\ MaxKeys \in Nat

VARIABLES
  block,           \* internal_chacha_block: its key, nonce and counter
  fresh,           \* the next name for a key or nonce
  used,            \* the blocks that chacha_block was called on
  given,           \* those whose output went to a caller
  secret,          \* those whose output became a key
  repeated,        \* chacha_block was called on a block twice
  hash_pool_size,
  unmixed,         \* bytes of entropy in the pool that reached no key yet
  left             \* blocks csprng_get_random still has to make

vars == <<block, fresh, used, given, secret, repeated, hash_pool_size, unmixed, left>>

Block(key, nonce, count) == [key |-> key, nonce |-> nonce, count |-> count]

\* The part of the state that the stream is.
Stream == [b |-> block, n |-> fresh, used |-> used, given |-> given,
           secret |-> secret, repeated |-> repeated]

SetStream(s) ==
  /\ block' = s.b /\ fresh' = s.n
  /\ used' = s.used /\ given' = s.given /\ secret' = s.secret
  /\ repeated' = s.repeated

Init ==
  /\ block = Block(0, 0, 0) /\ fresh = 1
  /\ used = {} /\ given = {} /\ secret = {} /\ repeated = FALSE
  /\ hash_pool_size = 0 /\ unmixed = 0 /\ left = 0

-----------------------------------------------------------------------------
(* The stream.                                                             *)

Increment(s) == [s EXCEPT !.b.count = (@ + 1) % (CountMax + 1)]

\* Mutated: the counter stays.
chacha_block_stay(s, keep) ==
  [s EXCEPT
    !.repeated = @ \/ s.b \in s.used,
    !.used = @ \cup {s.b},
    !.given = IF keep THEN @ ELSE @ \cup {s.b},
    !.secret = IF keep THEN @ \cup {s.b} ELSE @]

\* chacha_block on the current block, whose output is kept or given away.
chacha_block(s, keep) ==
  Increment([s EXCEPT
    !.repeated = @ \/ s.b \in s.used,
    !.used = @ \cup {s.b},
    !.given = IF keep THEN @ ELSE @ \cup {s.b},
    !.secret = IF keep THEN @ \cup {s.b} ELSE @])

\* Key and nonce come from a block of the stream and the counter restarts.
Rekey(s) == [s EXCEPT !.b = Block(s.n, s.n, 0), !.n = @ + 1]

\* Mutated: the stream is rekeyed one count later.
BeforeOverflowLate(s) ==
  IF s.b.count = CountMax THEN Rekey(chacha_block(Increment(s), TRUE)) ELSE s

\* Near its end the counter steps over the test, so that the mix_chacha it
\* calls, which calls csprng_get_random again, does not come here once more.
BeforeOverflow(s) ==
  IF s.b.count = CountMax - 1 THEN Rekey(chacha_block(Increment(s), TRUE)) ELSE s

\* One iteration of csprng_get_random.
NextBlock(s, keep) == chacha_block(BeforeOverflow(s), keep)

mix_chacha(s) == Rekey(NextBlock(s, TRUE))

\* A random key and the pool's hash make the new key; nonce and counter stay.
\* One more block goes into the pool.  Then the stream is mixed.
add_hash_pool(s) ==
  LET r == NextBlock(NextBlock(s, TRUE), TRUE)
  IN mix_chacha([r EXCEPT !.b.key = r.n, !.n = @ + 1])

-----------------------------------------------------------------------------
(* The calls.                                                              *)

csprng_get_random(n) ==
  /\ left = 0
  /\ left' = n
  /\ UNCHANGED <<block, fresh, used, given, secret, repeated, hash_pool_size, unmixed>>

MakeBlock ==
  /\ left > 0 /\ fresh <= MaxKeys
  /\ SetStream(NextBlock(Stream, FALSE))
  /\ left' = left - 1
  /\ UNCHANGED <<hash_pool_size, unmixed>>

\* Mutated: each call starts the count of the pool's bytes again.
PoolAddForget(size) == size

PoolAdd(size) == (hash_pool_size + size) % PoolMod

csprng_add_entropy(size) ==
  /\ left = 0 /\ fresh <= MaxKeys
  /\ hash_pool_size' = PoolAdd(size)
  /\ \/ /\ hash_pool_size' >= Threshold
        /\ SetStream(add_hash_pool(Stream))
        /\ unmixed' = 0
     \/ /\ hash_pool_size' < Threshold
        /\ unmixed' = unmixed + size
        /\ UNCHANGED <<block, fresh, used, given, secret, repeated>>
  /\ UNCHANGED left

Next ==
  \/ \E n \in 1..MaxBlocks : csprng_get_random(n)
  \/ MakeBlock
  \/ \E size \in 0..MaxAdd : csprng_add_entropy(size)

Spec == Init /\ [][Next]_vars

-----------------------------------------------------------------------------
(* Properties.                                                             *)

Blocks == [key : Nat, nonce : Nat, count : 0..CountMax]

\* The type of every variable.
TypeOK ==
  /\ block \in Blocks /\ fresh \in Nat
  /\ used \subseteq Blocks /\ given \subseteq Blocks /\ secret \subseteq Blocks
  /\ repeated \in BOOLEAN
  /\ hash_pool_size \in 0..PoolMod - 1 /\ unmixed \in Nat
  /\ left \in 0..MaxBlocks

\* csprng_get_random never runs ChaCha20 on the same key, nonce and counter
\* twice, so that random values do not repeat when the counter runs out.
NoRepeat == ~repeated

\* No block that became a key was also handed to a caller.
KeysKept == given \cap secret = {}

\* Entropy waits in the pool only up to the threshold; when hash_pool_size,
\* which is never reset, wraps around, by at most one call's bytes more.
EntropyUsed == unmixed < Threshold + MaxAdd
=============================================================================
