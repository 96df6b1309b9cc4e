--------------------------- MODULE LibraryProofs ----------------------------
(***************************************************************************)
(* The stream of csprng.c never repeats and never gives a key away, for    *)
(* every length of the counter and every sequence of calls; and after that *)
(* what the SHA1 and the HMAC of its pool are, and of vkcprintf what it    *)
(* returns and leaves in ksnprintf's buffer, whose options a directive is  *)
(* written with, and that the fields of numbers read as the numbers.       *)
(***************************************************************************)
EXTENDS Library, SequenceTheorems, WellFoundedInduction, TLAPS

Streams ==
  [b : Blocks, n : Nat, used : SUBSET Blocks, given : SUBSET Blocks,
   secret : SUBSET Blocks, repeated : BOOLEAN]

\* Names below n have been used; the current block is ahead of all used ones
\* with its key and nonce.
Sound(s) ==
  /\ s \in Streams
  /\ s.b.key < s.n /\ s.b.nonce < s.n
  /\ s.given \subseteq s.used /\ s.secret \subseteq s.used
  /\ s.given \cap s.secret = {}
  /\ s.repeated = FALSE
  /\ \A u \in s.used : u.key < s.n /\ u.nonce < s.n

Ahead(s) ==
  \A u \in s.used :
    u.key = s.b.key /\ u.nonce = s.b.nonce => u.count < s.b.count

\* The stream between two steps: the counter is below its last value.
Good(s) == Sound(s) /\ Ahead(s) /\ s.b.count < CountMax

\* The counter's arithmetic below its last value is exact.
LEMMA CountExact ==
  ASSUME NEW n \in Nat, NEW x \in Nat, x < n
  PROVE  (x + 1) % (n + 1) = x + 1
  BY SMT

\* The counter always stays in its 32 bits.
LEMMA CountRange ==
  ASSUME NEW n \in Nat, NEW x \in Nat
  PROVE  (x + 1) % (n + 1) \in 0..n
  BY SMT

With(r, d, m) == [[r EXCEPT !.b = d] EXCEPT !.n = m]

\* Replacing block and next name leaves the rest of the stream alone.
LEMMA WithBlock ==
  ASSUME NEW r \in Streams, NEW d \in Blocks, NEW m \in Nat,
         NEW k, k = With(r, d, m)
  PROVE  /\ k.b = d /\ k.n = m /\ k.used = r.used /\ k.given = r.given
         /\ k.secret = r.secret /\ k.repeated = r.repeated /\ k \in Streams
  <1> DEFINE q == [r EXCEPT !.b = d]
  <1>1. /\ q.b = d /\ q.n = r.n /\ q.used = r.used /\ q.given = r.given
        /\ q.secret = r.secret /\ q.repeated = r.repeated /\ q \in Streams
    BY DEF Streams
  <1>2. k = [q EXCEPT !.n = m]
    BY DEF With
  <1> HIDE DEF q
  <1>3. /\ k.b = q.b /\ k.n = m /\ k.used = q.used /\ k.given = q.given
        /\ k.secret = q.secret /\ k.repeated = q.repeated /\ k \in Streams
    BY <1>1, <1>2 DEF Streams
  <1> QED BY <1>1, <1>3

\* Stepping the counter below its last value leaves used blocks behind.
LEMMA IncrementAhead ==
  ASSUME NEW s, Sound(s), Ahead(s), s.b.count < CountMax
  PROVE  Sound(Increment(s)) /\ Ahead(Increment(s))
         /\ Increment(s).b.count = s.b.count + 1
  <1> USE CsprngAssumption
  <1>1. s.b.count \in Nat /\ (s.b.count + 1) % (CountMax + 1) = s.b.count + 1
    BY CountExact DEF Sound, Streams, Blocks
  <1>2. Increment(s) = [s EXCEPT !.b.count = s.b.count + 1]
    BY <1>1 DEF Increment
  <1> QED BY <1>1, <1>2 DEF Sound, Streams, Ahead, Blocks

Spent(s, keep) ==
  [s EXCEPT
    !.repeated = @ \/ s.b \in s.used,
    !.used = @ \cup {s.b},
    !.given = IF keep THEN @ ELSE @ \cup {s.b},
    !.secret = IF keep THEN @ \cup {s.b} ELSE @]

\* ChaCha20 runs on a block it has not seen.
LEMMA SpentSound ==
  ASSUME NEW s, NEW keep \in BOOLEAN, Sound(s), Ahead(s)
  PROVE  /\ Sound(Spent(s, keep))
         /\ Spent(s, keep).b = s.b /\ Spent(s, keep).n = s.n
         /\ Spent(s, keep).used = s.used \cup {s.b}
  <1>1. s.b \notin s.used
    BY DEF Sound, Streams, Ahead, Blocks
  <1> DEFINE t == Spent(s, keep)
  <1>2. /\ t.b = s.b /\ t.n = s.n /\ t.used = s.used \cup {s.b}
        /\ t.given = (IF keep THEN s.given ELSE s.given \cup {s.b})
        /\ t.secret = (IF keep THEN s.secret \cup {s.b} ELSE s.secret)
        /\ t.repeated = FALSE
        /\ t \in Streams
    BY <1>1 DEF Sound, Streams, Spent, Blocks
  <1> QED BY <1>1, <1>2 DEF Sound, Streams, Blocks

\* One block below the counter's last value.
LEMMA ChachaGood ==
  ASSUME NEW s, NEW keep \in BOOLEAN, Sound(s), Ahead(s), s.b.count + 1 < CountMax
  PROVE  Good(chacha_block(s, keep))
  <1> DEFINE t == Spent(s, keep)
             r == Increment(t)
  <1>1. Sound(t) /\ t.b = s.b /\ t.n = s.n /\ t.used = s.used \cup {s.b}
    BY SpentSound
  <1>2. chacha_block(s, keep) = r
    BY DEF chacha_block, Spent
  <1>3. s.b.count \in Nat /\ (s.b.count + 1) % (CountMax + 1) = s.b.count + 1
    BY CountExact, CsprngAssumption DEF Sound, Streams, Blocks
  <1>4. r = [t EXCEPT !.b.count = s.b.count + 1]
    BY <1>1, <1>3 DEF Increment
  <1> HIDE DEF t, r
  <1>5. /\ r.b = [s.b EXCEPT !.count = s.b.count + 1]
        /\ r.n = t.n /\ r.used = t.used /\ r.given = t.given
        /\ r.secret = t.secret /\ r.repeated = t.repeated
        /\ r \in Streams
    BY <1>1, <1>3, <1>4, CsprngAssumption DEF Sound, Streams, Blocks
  <1>6. Sound(r)
    BY <1>1, <1>3, <1>5, CsprngAssumption DEF Sound, Streams, Blocks
  <1>7. Ahead(r)
    BY <1>1, <1>3, <1>5 DEF Sound, Streams, Ahead, Blocks
  <1> QED BY <1>2, <1>3, <1>5, <1>6, <1>7 DEF Good, Sound, Streams, Blocks

\* The block that becomes the key may be the counter's last one.
LEMMA RekeyGood ==
  ASSUME NEW s, Sound(s), Ahead(s)
  PROVE  Good(Rekey(chacha_block(s, TRUE))) /\ Rekey(chacha_block(s, TRUE)).b.count = 0
  <1> DEFINE t == Spent(s, TRUE)
             r == Increment(t)
             k == Rekey(r)
  <1>1. Sound(t) /\ t.n = s.n
    BY SpentSound
  <1>2. chacha_block(s, TRUE) = r
    BY DEF chacha_block, Spent
  <1> HIDE DEF t
  <1>3. /\ r.n = t.n /\ r.used = t.used /\ r.given = t.given
        /\ r.secret = t.secret /\ r.repeated = t.repeated
        /\ r \in Streams
    <2>1. t \in Streams /\ t.b.count \in Nat
      BY <1>1 DEF Sound, Streams, Blocks
    <2>2. (t.b.count + 1) % (CountMax + 1) \in 0..CountMax
      BY <2>1, CountRange, CsprngAssumption
    <2> DEFINE m == (t.b.count + 1) % (CountMax + 1)
    <2> HIDE DEF m
    <2>3. r = [t EXCEPT !.b.count = m]
      BY DEF Increment, m
    <2>4. m \in 0..CountMax
      BY <2>2 DEF m
    <2> QED BY <2>1, <2>3, <2>4 DEF Streams, Blocks
  <1> HIDE DEF r
  <1>4. /\ k.b = [key |-> t.n, nonce |-> t.n, count |-> 0] /\ k.n = t.n + 1
        /\ k.used = t.used /\ k.given = t.given
        /\ k.secret = t.secret /\ k.repeated = t.repeated
        /\ k \in Streams
    <2>1. t.n \in Nat /\ 0 \in 0..CountMax
      BY <1>1, CsprngAssumption DEF Sound, Streams
    <2>2. k = [[r EXCEPT !.b = [key |-> r.n, nonce |-> r.n, count |-> 0]] EXCEPT !.n = r.n + 1]
      BY <1>3 DEF Rekey, Block, Streams
    <2> DEFINE d == [key |-> r.n, nonce |-> r.n, count |-> 0]
    <2>3. d \in Blocks
      BY <1>3, <2>1 DEF Blocks
    <2> HIDE DEF k, d
    <2>4. k = With(r, d, r.n + 1)
      BY <2>2 DEF d, With
    <2>5. /\ k.b = d /\ k.n = t.n + 1 /\ k.used = t.used /\ k.given = t.given
          /\ k.secret = t.secret /\ k.repeated = t.repeated /\ k \in Streams
      <3>1. r \in Streams /\ r.n + 1 \in Nat
        BY <1>3, <2>1
      <3>2. /\ k.b = d /\ k.n = r.n + 1 /\ k.used = r.used /\ k.given = r.given
            /\ k.secret = r.secret /\ k.repeated = r.repeated /\ k \in Streams
        BY <2>3, <2>4, <3>1, WithBlock
      <3> QED BY <1>3, <3>2
    <2> QED BY <1>3, <2>5 DEF d
  <1> HIDE DEF k
  <1>5. Sound(k)
    BY <1>1, <1>4, CsprngAssumption DEF Sound, Streams, Blocks
  <1>6. Ahead(k) /\ k.b.count = 0
    BY <1>1, <1>4 DEF Sound, Streams, Ahead, Blocks
  <1>7. Good(k)
    BY <1>5, <1>6, CsprngAssumption DEF Good
  <1>8. Rekey(chacha_block(s, TRUE)) = k
    BY <1>2 DEF k
  <1> QED BY <1>6, <1>7, <1>8

\* After the test of the counter there is room for one more block.
LEMMA BeforeOverflowGood ==
  ASSUME NEW s, Good(s)
  PROVE  Good(BeforeOverflow(s)) /\ BeforeOverflow(s).b.count + 1 < CountMax
  <1>1. CASE s.b.count = CountMax - 1
    <2>1. Sound(Increment(s)) /\ Ahead(Increment(s))
      BY IncrementAhead DEF Good
    <2>2. BeforeOverflow(s) = Rekey(chacha_block(Increment(s), TRUE))
      BY <1>1 DEF BeforeOverflow
    <2>3. Good(BeforeOverflow(s)) /\ BeforeOverflow(s).b.count = 0
      BY <2>1, <2>2, RekeyGood
    <2> QED BY <2>3, CsprngAssumption
  <1>2. CASE s.b.count # CountMax - 1
    BY <1>2, CsprngAssumption DEF BeforeOverflow, Good, Sound, Streams, Blocks
  <1> QED BY <1>1, <1>2

\* One iteration of csprng_get_random.
LEMMA NextBlockGood ==
  ASSUME NEW s, NEW keep \in BOOLEAN, Good(s)
  PROVE  Good(NextBlock(s, keep))
  BY BeforeOverflowGood, ChachaGood DEF NextBlock, Good

\* mix_chacha, from any state between two steps.
LEMMA MixGood ==
  ASSUME NEW s, Good(s)
  PROVE  Good(mix_chacha(s))
  BY BeforeOverflowGood, RekeyGood DEF mix_chacha, NextBlock, Good

\* add_hash_pool: the new key has no used block, whatever nonce and counter.
LEMMA AddHashPoolGood ==
  ASSUME NEW s, Good(s)
  PROVE  Good(add_hash_pool(s))
  <1> DEFINE r == NextBlock(NextBlock(s, TRUE), TRUE)
             k == [r EXCEPT !.b.key = r.n, !.n = @ + 1]
  <1>1. Good(r)
    BY NextBlockGood
  <1> HIDE DEF r
  <1>2. /\ k.b = [r.b EXCEPT !.key = r.n] /\ k.n = r.n + 1
        /\ k.used = r.used /\ k.given = r.given
        /\ k.secret = r.secret /\ k.repeated = r.repeated
        /\ k \in Streams
    <2>1. r \in Streams
      BY <1>1 DEF Good, Sound
    <2>2. k = [[r EXCEPT !.b = [r.b EXCEPT !.key = r.n]] EXCEPT !.n = r.n + 1]
      BY <2>1 DEF Streams
    <2> DEFINE d == [r.b EXCEPT !.key = r.n]
    <2>3. d \in Blocks
      BY <2>1 DEF Streams, Blocks
    <2> HIDE DEF k, d
    <2>4. k = With(r, d, r.n + 1)
      BY <2>2 DEF d, With
    <2>5. /\ k.b = d /\ k.n = r.n + 1 /\ k.used = r.used /\ k.given = r.given
          /\ k.secret = r.secret /\ k.repeated = r.repeated /\ k \in Streams
      <3>1. r.n + 1 \in Nat
        BY <2>1 DEF Streams
      <3> QED BY <2>1, <2>3, <2>4, <3>1, WithBlock
    <2> QED BY <2>5 DEF d
  <1> HIDE DEF k
  <1>3. Sound(k)
    BY <1>1, <1>2 DEF Good, Sound, Streams, Blocks
  <1>4. Ahead(k) /\ k.b.count < CountMax
    BY <1>1, <1>2 DEF Good, Sound, Streams, Ahead, Blocks
  <1>5. Good(mix_chacha(k))
    BY <1>3, <1>4, MixGood DEF Good
  <1> QED BY <1>5 DEF add_hash_pool, r, k

StreamInv == Good(Stream)

\* The stream starts with nothing used.
LEMMA InitStream == Init => StreamInv
  <1> SUFFICES ASSUME Init PROVE StreamInv
    OBVIOUS
  <1> DEFINE s == Stream
  <1>1. /\ s.b = [key |-> 0, nonce |-> 0, count |-> 0] /\ s.n = 1
        /\ s.used = {} /\ s.given = {} /\ s.secret = {} /\ s.repeated = FALSE
        /\ s \in Streams
    <2>1. block = [key |-> 0, nonce |-> 0, count |-> 0]
      BY DEF Init, Block
    <2>2. block \in Blocks
      BY <2>1, CsprngAssumption DEF Blocks
    <2> QED BY <2>1, <2>2 DEF Init, Stream, Streams
  <1> HIDE DEF s
  <1>2. Good(s)
    BY <1>1, CsprngAssumption DEF Good, Sound, Ahead
  <1> QED BY <1>2 DEF StreamInv, s

\* A step that sets the stream to a good one preserves the invariant.
LEMMA SetStreamGood ==
  ASSUME NEW s, Good(s), SetStream(s)
  PROVE  StreamInv'
  <1>1. s \in Streams
    BY DEF Good, Sound
  <1>2. Stream' = s
    BY <1>1 DEF Stream, SetStream, Streams
  <1> QED BY <1>2 DEF StreamInv, Good, Sound, Streams, Ahead

\* Every call and every block of csprng.c preserves the invariant.
LEMMA StepStream == StreamInv /\ [Next]_vars => StreamInv'
  <1> SUFFICES ASSUME StreamInv, [Next]_vars PROVE StreamInv'
    OBVIOUS
  <1>1. ASSUME UNCHANGED <<block, fresh, used, given, secret, repeated>>
        PROVE  StreamInv'
    <2>1. Stream' = Stream
      BY <1>1 DEF Stream
    <2> QED BY <2>1 DEF StreamInv, Good, Sound, Streams, Ahead
  <1>2. CASE \E n \in 1..MaxBlocks : csprng_get_random(n)
    BY <1>1, <1>2 DEF csprng_get_random
  <1>3. CASE MakeBlock
    <2>1. Good(NextBlock(Stream, FALSE))
      BY NextBlockGood DEF StreamInv
    <2> QED BY <1>3, <2>1, SetStreamGood DEF MakeBlock
  <1>4. CASE \E bytes \in 0..MaxAdd : csprng_add_entropy(bytes)
    <2>1. Good(add_hash_pool(Stream))
      BY AddHashPoolGood DEF StreamInv
    <2>2. SetStream(add_hash_pool(Stream))
          \/ UNCHANGED <<block, fresh, used, given, secret, repeated>>
      BY <1>4 DEF csprng_add_entropy
    <2> QED BY <1>1, <2>1, <2>2, SetStreamGood
  <1>5. CASE UNCHANGED vars
    BY <1>1, <1>5 DEF vars
  <1> QED BY <1>2, <1>3, <1>4, <1>5 DEF Next

\* The stream's invariant holds in every reachable state of csprng.c.
THEOREM StreamInvariance == Spec => []StreamInv
  BY InitStream, StepStream, PTL DEF Spec

PoolInv ==
  /\ hash_pool_size \in 0..PoolMod - 1 /\ unmixed \in Nat
  /\ hash_pool_size >= Threshold => unmixed = 0
  /\ unmixed <= hash_pool_size + MaxAdd

\* A pool size below 2^32 is exact.
LEMMA PoolExact ==
  ASSUME NEW m \in Nat \ {0}, NEW x \in 0..m - 1
  PROVE  x % m = x
  BY SMT

\* The u32 sum of the pool size wraps at most once.
LEMMA PoolWraps ==
  ASSUME NEW m \in Nat \ {0}, NEW x \in m..2 * m - 1
  PROVE  x % m = x - m
  BY SMT

\* Every call of csprng.c keeps the pool's size and what waits in it together.
LEMMA StepPool == PoolInv /\ [Next]_vars => PoolInv'
  <1> SUFFICES ASSUME PoolInv, [Next]_vars PROVE PoolInv'
    OBVIOUS
  <1>1. ASSUME UNCHANGED <<hash_pool_size, unmixed>> PROVE PoolInv'
    BY <1>1 DEF PoolInv
  <1>2. ASSUME NEW bytes \in 0..MaxAdd, csprng_add_entropy(bytes) PROVE PoolInv'
    <2> DEFINE sum == hash_pool_size + bytes
    <2>1. /\ PoolMod \in Nat \ {0} /\ bytes \in 0..PoolMod - 1
          /\ hash_pool_size \in 0..PoolMod - 1
      BY CsprngAssumption DEF PoolInv
    <2>2. hash_pool_size' = IF sum < PoolMod THEN sum ELSE sum - PoolMod
      <3>1. sum % PoolMod = IF sum < PoolMod THEN sum ELSE sum - PoolMod
        <4>1. CASE sum < PoolMod
          <5>1. sum \in 0..PoolMod - 1
            BY <2>1, <4>1
          <5> HIDE DEF sum
          <5> QED BY <2>1, <4>1, <5>1, PoolExact
        <4>2. CASE ~(sum < PoolMod)
          <5>1. sum \in PoolMod..2 * PoolMod - 1
            BY <2>1, <4>2
          <5> HIDE DEF sum
          <5> QED BY <2>1, <4>2, <5>1, PoolWraps
        <4> QED BY <4>1, <4>2
      <3>2. hash_pool_size' = sum % PoolMod
        BY <1>2 DEF csprng_add_entropy, PoolAdd
      <3> QED BY <3>1, <3>2
    <2>3. \/ hash_pool_size' >= Threshold /\ unmixed' = 0
          \/ hash_pool_size' < Threshold /\ unmixed' = unmixed + bytes
      BY <1>2 DEF csprng_add_entropy
    <2>4. sum >= PoolMod => unmixed = 0
      BY <2>1, CsprngAssumption DEF PoolInv
    <2> QED BY <2>1, <2>2, <2>3, <2>4, CsprngAssumption DEF PoolInv
  <1>3. CASE \E n \in 1..MaxBlocks : csprng_get_random(n)
    BY <1>1, <1>3 DEF csprng_get_random
  <1>4. CASE MakeBlock
    BY <1>1, <1>4 DEF MakeBlock
  <1>5. CASE UNCHANGED vars
    BY <1>1, <1>5 DEF vars
  <1> QED BY <1>2, <1>3, <1>4, <1>5 DEF Next

\* Entropy waits at most for the threshold and one call more, although
\* hash_pool_size is never reset and wraps.
THEOREM EntropyUsedAlways == Spec => []EntropyUsed
  <1>1. Init => PoolInv
    BY CsprngAssumption DEF Init, PoolInv
  <1>2. PoolInv => EntropyUsed
    BY CsprngAssumption DEF PoolInv, EntropyUsed
  <1> QED BY <1>1, <1>2, StepPool, PTL DEF Spec

\* csprng.c never runs ChaCha20 twice on the same key, nonce and counter.
THEOREM NoRepeatAlways == Spec => []NoRepeat
  <1>1. StreamInv => NoRepeat
    BY DEF StreamInv, Good, Sound, Streams, Stream, NoRepeat
  <1> QED BY <1>1, StreamInvariance, PTL

\* csprng.c never hands out a block that it also uses as a key.
THEOREM KeysKeptAlways == Spec => []KeysKept
  <1>1. StreamInv => KeysKept
    BY DEF StreamInv, Good, Sound, Streams, Stream, KeysKept
  <1> QED BY <1>1, StreamInvariance, PTL

-----------------------------------------------------------------------------
(* SHA1: the arithmetic of the padding.                                    *)

B == BLOCK_BYTES
L == LenBytes

\* What the assumptions say of the sizes of blocks, lengths and digests.
LEMMA BlockSizes ==
  ASSUME H!Sha1Assumption
  PROVE  B \in Nat /\ L \in Nat /\ 0 < L /\ L < B /\ SHA1_LEN \in Nat
  BY DEF H!Sha1Assumption, B, L

\* A number below the divisor is what is left of any multiple and it.
LEMMA ModOfSum ==
  ASSUME NEW d \in Nat, NEW n \in Nat, NEW r \in Nat, r < d
  PROVE  (d * n + r) % d = r
  BY SMT

\* Division undoes multiplication.
LEMMA DivOfProduct ==
  ASSUME NEW d \in Nat, d > 0, NEW n \in Nat
  PROVE  (n * d) \div d = n
  BY SMT

\* Where the blocks of a sequence begin.
LEMMA Product ==
  ASSUME NEW x \in Nat, NEW y \in Nat, NEW d \in Nat
  PROVE  x * d \in Nat /\ (x + 1) * d = x * d + d /\ (x <= y => x * d <= y * d)
  BY SMT

\* Where pad_sha1_message puts the length, in bytes, and when it needs the
\* second block.
LEMMA LengthPlace ==
  ASSUME H!Sha1Assumption, NEW r \in 0..(B - 1)
  PROVE  /\ H!SecondBlock(8 * r) <=> r >= B - L
         /\ H!LengthAt(8 * r) = IF r < B - L THEN B - L ELSE 2 * B - L
  <1>0. B \in Nat /\ L \in Nat /\ 0 < L /\ L < B /\ SHA1_LEN \in Nat
    BY BlockSizes
  <1> USE <1>0
  <1>1. H!Rest(8 * r) = 8 * r + 1
    <2>1. 8 * r + 1 \in Nat /\ 8 * r + 1 < 8 * B
      OBVIOUS
    <2>2. (8 * r + 1) % (8 * B) = 8 * r + 1
      <3> DEFINE d == 8 * B
                 x == 8 * r + 1
      <3>1. d \in Nat /\ x \in Nat /\ x < d
        BY <2>1
      <3> HIDE DEF d, x
      <3>2. x % d = x
        BY <3>1
      <3> QED BY <3>2 DEF d, x
    <2> QED BY <2>2 DEF H!Rest, H!BlockBits, B
  <1>2. H!BlockBits = 8 * B /\ H!PadTo = 8 * B - 8 * L
    BY DEF H!BlockBits, H!PadTo, B, L
  <1>3. (8 * r) \div 8 = r
    OBVIOUS
  <1>4. H!SecondBlock(8 * r) <=> r >= B - L
    BY <1>1, <1>2 DEF H!SecondBlock
  <1>5. H!PadBits(8 * r) = IF r < B - L THEN 8 * (B - L - r) - 1 ELSE 8 * (2 * B - L - r) - 1
    BY <1>1, <1>2 DEF H!PadBits
  <1>6. H!PadBits(8 * r) \div 8 = IF r < B - L THEN B - L - r - 1 ELSE 2 * B - L - r - 1
    BY <1>5
  <1> QED BY <1>3, <1>4, <1>6 DEF H!LengthAt

\* The standard's padding of a message of n blocks and r bytes more: the one
\* number of zero bytes that fills up the last block.
LEMMA FillIs ==
  ASSUME H!Sha1Assumption, NEW r \in 0..(B - 1), NEW n \in Nat
  PROVE  H!Fill(n * B + r) = IF r < B - L THEN B - L - r - 1 ELSE 2 * B - L - r - 1
  <1>0. B \in Nat /\ L \in Nat /\ 0 < L /\ L < B /\ SHA1_LEN \in Nat
    BY BlockSizes
  <1> USE <1>0
  <1> DEFINE F == IF r < B - L THEN B - L - r - 1 ELSE 2 * B - L - r - 1
             t == IF r < B - L THEN 1 ELSE 2
             Ok(k) == (n * B + r + 1 + k + L) % B = 0
  <1>1. F \in 0..(B - 1)
    OBVIOUS
  <1>2. n * B \in Nat
    OBVIOUS
  <1>3. Ok(F)
    <2>1. r + 1 + F + L = t * B
      OBVIOUS
    <2>2. n * B + t * B = B * (n + t) /\ n + t \in Nat
      OBVIOUS
    <2>3. n * B + r + 1 + F + L = B * (n + t) + 0
      BY <1>1, <1>2, <2>1, <2>2
    <2>4. (B * (n + t) + 0) % B = 0
      <3>1. n + t \in Nat /\ 0 \in Nat /\ 0 < B
        BY <2>2
      <3> HIDE DEF t
      <3> QED BY <3>1, ModOfSum
    <2> QED BY <2>3, <2>4
  <1>4. ASSUME NEW k \in 0..(B - 1), Ok(k) PROVE k = F
    <2> DEFINE x == n * B + r + 1 + k + L
               y == n * B + r + 1 + F + L
    <2>1. /\ x \in Nat /\ y \in Nat /\ x % B = 0 /\ y % B = 0 /\ x - y < B /\ y - x < B
          /\ x - y = k - F
      BY <1>1, <1>2, <1>3, <1>4
    <2> HIDE DEF x, y, F
    <2>2. x = B * (x \div B) /\ y = B * (y \div B) /\ x \div B \in Nat /\ y \div B \in Nat
      BY <2>1
    <2> DEFINE u == x \div B
               v == y \div B
    <2>3. /\ u \in Nat /\ v \in Nat /\ B * u - B * v < B /\ B * v - B * u < B /\ x = B * u
          /\ y = B * v
      BY <2>1, <2>2
    <2> HIDE DEF u, v
    <2>4. u >= v + 1 => B * u >= B * v + B
      BY <2>3
    <2>5. v >= u + 1 => B * v >= B * u + B
      BY <2>3
    <2>6. u = v
      BY <2>3, <2>4, <2>5
    <2>7. x = y
      BY <2>3, <2>6
    <2> QED BY <2>1, <2>7, <1>1
  <1> HIDE DEF F
  <1>5. H!Fill(n * B + r) = F
    <2>1. H!Fill(n * B + r) = CHOOSE k \in 0..(B - 1) : Ok(k)
      BY DEF H!Fill, B, L
    <2> HIDE DEF Ok
    <2> QED BY <1>1, <1>3, <1>4, <2>1
  <1> QED BY <1>5 DEF F

-----------------------------------------------------------------------------
(* Sequences of bytes and of blocks.                                       *)

\* Two sequences with the same elements are the same.
LEMMA SameSequence ==
  ASSUME NEW T, NEW s \in Seq(T), NEW t \in Seq(T), Len(s) = Len(t),
         \A i \in 1..Len(s) : s[i] = t[i]
  PROVE  s = t
  OBVIOUS

\* A sequence of some bytes is one of more.
LEMMA MoreBytes ==
  ASSUME NEW T, NEW U, T \subseteq U, NEW s \in Seq(T)
  PROVE  s \in Seq(U)
  OBVIOUS

\* What a sequence is followed by.
LEMMA FollowedBy ==
  ASSUME NEW T, NEW s \in Seq(T), NEW e \in Seq(T)
  PROVE  /\ s \o e \in Seq(T) /\ Len(s \o e) = Len(s) + Len(e)
         /\ \A i \in 1..Len(s) : (s \o e)[i] = s[i]
         /\ \A i \in 1..Len(e) : (s \o e)[Len(s) + i] = e[i]
  OBVIOUS

\* A part of a sequence, after its first n.
LEMMA PartOf ==
  ASSUME NEW T, NEW s \in Seq(T), NEW n \in Nat, NEW m \in n..Len(s)
  PROVE  /\ SubSeq(s, n + 1, m) \in Seq(T) /\ Len(SubSeq(s, n + 1, m)) = m - n
         /\ \A i \in 1..(m - n) : SubSeq(s, n + 1, m)[i] = s[i + n]
  OBVIOUS

\* What Append adds.
LEMMA AppendIs ==
  ASSUME NEW T, NEW s \in Seq(T), NEW e \in T
  PROVE  /\ Append(s, e) \in Seq(T) /\ Len(Append(s, e)) = Len(s) + 1
         /\ \A i \in 1..Len(s) : Append(s, e)[i] = s[i]
         /\ Append(s, e)[Len(s) + 1] = e
  OBVIOUS

\* The padded message of the standard, byte by byte.
LEMMA PaddedIs ==
  ASSUME H!Sha1Assumption, NEW T, NEW m \in Seq(T), NEW F \in Nat, F = H!Fill(Len(m))
  PROVE  LET n == Len(m)
             p == H!Padded(m)
             U == T \cup {H!Zero, H!One} \cup {H!LengthByte(8 * n, j) : j \in 0..(L - 1)}
         IN /\ p \in Seq(U) /\ Len(p) = n + 1 + F + L
            /\ \A i \in 1..n : p[i] = m[i]
            /\ p[n + 1] = H!One
            /\ \A i \in 1..F : p[n + 1 + i] = H!Zero
            /\ \A i \in 1..L : p[n + 1 + F + i] = H!LengthByte(8 * n, i - 1)
  <1>0. B \in Nat /\ L \in Nat /\ 0 < L /\ L < B /\ SHA1_LEN \in Nat
    BY BlockSizes
  <1> USE <1>0
  <1> DEFINE n == Len(m)
             U == T \cup {H!Zero, H!One} \cup {H!LengthByte(8 * n, j) : j \in 0..(L - 1)}
             z == [i \in 1..F |-> H!Zero]
             e == [j \in 1..L |-> H!LengthByte(8 * n, j - 1)]
             a == m \o <<H!One>>
             b == a \o z
             p == b \o e
  <1>1. n \in Nat /\ m \in Seq(U)
    BY MoreBytes
  <1>2. <<H!One>> \in Seq(U) /\ Len(<<H!One>>) = 1 /\ <<H!One>>[1] = H!One
    OBVIOUS
  <1>3. z \in Seq(U) /\ Len(z) = F /\ \A i \in 1..F : z[i] = H!Zero
    <2>1. H!Zero \in U
      OBVIOUS
    <2> HIDE DEF U
    <2> QED BY <2>1
  <1>4. e \in Seq(U) /\ Len(e) = L /\ \A i \in 1..L : e[i] = H!LengthByte(8 * n, i - 1)
    <2>1. \A j \in 1..L : H!LengthByte(8 * n, j - 1) \in U
      OBVIOUS
    <2> HIDE DEF U, n
    <2> QED BY <2>1
  <1> HIDE DEF U, z, e
  <1>5. /\ a \in Seq(U) /\ Len(a) = n + 1 /\ \A i \in 1..n : a[i] = m[i]
        /\ a[n + 1] = H!One
    BY <1>1, <1>2, FollowedBy
  <1> HIDE DEF a
  <1>6. /\ b \in Seq(U) /\ Len(b) = n + 1 + F /\ \A i \in 1..(n + 1) : b[i] = a[i]
        /\ \A i \in 1..F : b[n + 1 + i] = H!Zero
    <2>1. /\ b \in Seq(U) /\ Len(b) = Len(a) + Len(z)
          /\ \A i \in 1..Len(a) : b[i] = a[i]
          /\ \A i \in 1..Len(z) : b[Len(a) + i] = z[i]
      <3>1. a \in Seq(U) /\ z \in Seq(U)
        BY <1>3, <1>5
      <3> QED BY <3>1, FollowedBy
    <2> HIDE DEF b, n
    <2> QED BY <1>1, <1>3, <1>5, <2>1
  <1> HIDE DEF b
  <1>7. /\ p \in Seq(U) /\ Len(p) = n + 1 + F + L /\ \A i \in 1..(n + 1 + F) : p[i] = b[i]
        /\ \A i \in 1..L : p[n + 1 + F + i] = H!LengthByte(8 * n, i - 1)
    <2>1. /\ p \in Seq(U) /\ Len(p) = Len(b) + Len(e)
          /\ \A i \in 1..Len(b) : p[i] = b[i]
          /\ \A i \in 1..Len(e) : p[Len(b) + i] = e[i]
      <3>1. b \in Seq(U) /\ e \in Seq(U)
        BY <1>4, <1>6
      <3> QED BY <3>1, FollowedBy
    <2> HIDE DEF p, n
    <2> QED BY <1>1, <1>4, <1>6, <2>1
  <1>8. p = H!Padded(m)
    BY DEF H!Padded, p, b, a, z, e, n, L
  <1> HIDE DEF p, n
  <1>9. ASSUME NEW i \in 1..n PROVE p[i] = m[i]
    <2>1. i \in 1..(n + 1) /\ i \in 1..(n + 1 + F)
      BY <1>1
    <2> QED BY <2>1, <1>5, <1>6, <1>7
  <1>10. p[n + 1] = H!One
    BY <1>1, <1>5, <1>6, <1>7
  <1>11. ASSUME NEW i \in 1..F PROVE p[n + 1 + i] = H!Zero
    <2>1. n + 1 + i \in 1..(n + 1 + F)
      BY <1>1
    <2> QED BY <2>1, <1>6, <1>7
  <1> QED BY <1>7, <1>8, <1>9, <1>10, <1>11 DEF U, n

\* The standard's blocks are the padded message in pieces.
LEMMA HashIs ==
  ASSUME H!Sha1Assumption, NEW m, NEW U, H!Padded(m) \in Seq(U), NEW n \in Nat,
         Len(H!Padded(m)) = n * B
  PROVE  /\ H!Hash(m) \in Seq(Seq(U)) /\ Len(H!Hash(m)) = n
         /\ \A j \in 1..n : /\ Len(H!Hash(m)[j]) = B
                            /\ \A i \in 1..B : H!Hash(m)[j][i] = H!Padded(m)[(j - 1) * B + i]
  <1>0. B \in Nat /\ L \in Nat /\ 0 < L /\ L < B /\ SHA1_LEN \in Nat
    BY BlockSizes
  <1> USE <1>0
  <1> DEFINE p == H!Padded(m)
             part(j) == SubSeq(p, (j - 1) * B + 1, j * B)
  <1>1. Len(p) \div B = n
    BY DivOfProduct
  <1>2. H!Hash(m) = [j \in 1..n |-> part(j)]
    BY <1>1 DEF H!Hash, B
  <1>3. ASSUME NEW j \in 1..n
        PROVE  /\ part(j) \in Seq(U) /\ Len(part(j)) = B
               /\ \A i \in 1..B : part(j)[i] = p[(j - 1) * B + i]
    <2> DEFINE a == (j - 1) * B
    <2>1. /\ a \in Nat /\ j * B = a + B /\ n * B >= j * B
      <3>1. j - 1 \in Nat /\ j \in Nat /\ (j - 1) + 1 = j /\ j <= n
        OBVIOUS
      <3>2. a \in Nat /\ ((j - 1) + 1) * B = a + B
        BY <3>1, Product
      <3>3. j * B <= n * B
        BY <3>1, Product
      <3> QED BY <3>1, <3>2, <3>3
    <2>2. a + B \in a..Len(p) /\ (a + B) - a = B
      <3> DEFINE e == n * B
                 f == j * B
      <3>1. f = a + B /\ e >= f /\ Len(p) = e /\ a \in Nat /\ Len(p) \in Nat
        BY <2>1
      <3> HIDE DEF a, e, f, p
      <3> QED BY <3>1
    <2>3. /\ SubSeq(p, a + 1, a + B) \in Seq(U) /\ Len(SubSeq(p, a + 1, a + B)) = (a + B) - a
          /\ \A i \in 1..((a + B) - a) : SubSeq(p, a + 1, a + B)[i] = p[i + a]
      <3> HIDE DEF p, a
      <3> QED BY <2>1, <2>2, PartOf DEF p
    <2>4. part(j) = SubSeq(p, a + 1, a + B)
      BY <2>1
    <2> HIDE DEF a, p, part
    <2>5. /\ part(j) \in Seq(U) /\ Len(part(j)) = B /\ \A i \in 1..B : part(j)[i] = p[a + i]
      <3>1. \A i \in 1..B : a + i = i + a
        BY <2>1
      <3> QED BY <2>2, <2>3, <2>4, <3>1
    <2> QED BY <2>5 DEF a
  <1> HIDE DEF part
  <1>4. /\ H!Hash(m) \in Seq(Seq(U)) /\ Len(H!Hash(m)) = n
        /\ \A j \in 1..n : H!Hash(m)[j] = part(j)
    <2>1. \A j \in 1..n : part(j) \in Seq(U)
      BY <1>3
    <2> DEFINE V == Seq(U)
    <2> HIDE DEF V
    <2>2. \A j \in 1..n : part(j) \in V
      BY <2>1 DEF V
    <2>3. [j \in 1..n |-> part(j)] \in Seq(V) /\ Len([j \in 1..n |-> part(j)]) = n
      BY <2>2
    <2> DEFINE f == [j \in 1..n |-> part(j)]
    <2>4. \A j \in 1..n : f[j] = part(j)
      OBVIOUS
    <2>5. H!Hash(m) = f
      BY <1>2
    <2> HIDE DEF f
    <2>6. f \in Seq(Seq(U)) /\ Len(f) = n
      BY <2>3 DEF V, f
    <2> QED BY <2>4, <2>5, <2>6
  <1>5. ASSUME NEW j \in 1..n
        PROVE  /\ Len(H!Hash(m)[j]) = B
               /\ \A i \in 1..B : H!Hash(m)[j][i] = p[(j - 1) * B + i]
    <2>1. H!Hash(m)[j] = part(j)
      BY <1>4
    <2>2. Len(part(j)) = B /\ \A i \in 1..B : part(j)[i] = p[(j - 1) * B + i]
      BY <1>3
    <2> HIDE DEF p
    <2> QED BY <2>1, <2>2
  <1> QED BY <1>4, <1>5

-----------------------------------------------------------------------------
(* Hashing in pieces: the blocks hashed, the open block and what is still  *)
(* to be taken are, one after the other, all that was passed to updates.   *)

Hashing(T) ==
  /\ H!Zero \in T /\ hashed \in Seq(T) /\ data \in Seq(T) /\ sha1_block \in Seq(T)
  /\ h \in Seq(Seq(T))
  /\ active_len \in 0..(B - 1) /\ len = Len(h) * B + active_len
  /\ Len(sha1_block) = B /\ \A j \in 1..Len(h) : Len(h[j]) = B
  /\ Len(hashed) = len + Len(data)
  /\ \A j \in 1..Len(h) : \A i \in 1..B : h[j][i] = hashed[(j - 1) * B + i]
  /\ \A i \in 1..active_len : sha1_block[i] = hashed[Len(h) * B + i]
  /\ \A i \in 1..Len(data) : data[i] = hashed[len + i]

\* The blocks that pad_sha1_message makes of the open one are those with which
\* the standard's padded message ends.
LEMMA PadIsPadded ==
  ASSUME H!Sha1Assumption, NEW T, Hashing(T), data = <<>>
  PROVE  \E U, t :
           /\ T \subseteq U
           /\ t = IF active_len < B - L THEN 1 ELSE 2
           /\ H!Padded(hashed) \in Seq(U)
           /\ Len(H!Padded(hashed)) = (Len(h) + t) * B
           /\ \A i \in 1..Len(hashed) : H!Padded(hashed)[i] = hashed[i]
           /\ H!pad_sha1_message(sha1_block, 8 * len, 8 * active_len) \in Seq(U)
           /\ Len(H!pad_sha1_message(sha1_block, 8 * len, 8 * active_len)) = 2 * B
           /\ \A i \in 1..(t * B) :
                H!pad_sha1_message(sha1_block, 8 * len, 8 * active_len)[i]
                  = H!Padded(hashed)[Len(h) * B + i]
  <1>0. B \in Nat /\ L \in Nat /\ 0 < L /\ L < B
    BY BlockSizes
  <1> DEFINE n == Len(h)
             r == active_len
             s == n * B
             t == IF r < B - L THEN 1 ELSE 2
             F == IF r < B - L THEN B - L - r - 1 ELSE 2 * B - L - r - 1
             m == Len(hashed)
             p == H!Padded(hashed)
             x == H!pad_sha1_message(sha1_block, 8 * len, 8 * r)
             U == T \cup {H!Zero, H!One} \cup {H!LengthByte(8 * m, j) : j \in 0..(L - 1)}
  <1>1. n \in Nat /\ r \in 0..(B - 1) /\ r \in Nat /\ len = s + r /\ m = len /\ m \in Nat
    BY DEF Hashing
  <1>2. s \in Nat /\ t \in {1, 2} /\ (n + 1) * B = s + B /\ (n + 2) * B = s + 2 * B
    <2>1. n * B \in Nat /\ (n + 1) * B = n * B + B
      BY <1>0, <1>1, Product
    <2>2. ((n + 1) + 1) * B = (n + 1) * B + B /\ (n + 1) + 1 = n + 2
      <3>1. n + 1 \in Nat
        BY <1>1
      <3>2. ((n + 1) + 1) * B = (n + 1) * B + B
        BY <1>0, <3>1, Product
      <3> QED BY <1>1, <3>2
    <2> QED BY <1>0, <2>1, <2>2
  <1>3. F \in Nat /\ r + 1 + F + L = t * B /\ F = H!Fill(m)
    <2>1. F \in Nat /\ r + 1 + F + L = t * B
      BY <1>0, <1>1
    <2>2. H!Fill(n * B + r) = F
      BY <1>1, FillIs
    <2> QED BY <1>1, <2>1, <2>2
  <1>4. hashed \in Seq(T)
    BY DEF Hashing
  <1>5. /\ p \in Seq(U) /\ Len(p) = m + 1 + F + L
        /\ \A i \in 1..m : p[i] = hashed[i]
        /\ p[m + 1] = H!One
        /\ \A i \in 1..F : p[m + 1 + i] = H!Zero
        /\ \A i \in 1..L : p[m + 1 + F + i] = H!LengthByte(8 * m, i - 1)
    BY <1>3, <1>4, PaddedIs
  <1>6. Len(p) = (n + t) * B
    <2> HIDE DEF n, r, s, t, F, m, p
    <2>1. CASE t = 1
      <3>1. r + 1 + F + L = B /\ (n + t) * B = s + B
        BY <1>0, <1>2, <1>3, <2>1
      <3>2. Len(p) = s + r + 1 + F + L /\ F \in Nat /\ r \in Nat /\ s \in Nat
        BY <1>1, <1>2, <1>3, <1>5
      <3> QED BY <1>0, <3>1, <3>2
    <2>2. CASE t = 2
      <3>1. r + 1 + F + L = 2 * B /\ (n + t) * B = s + 2 * B
        BY <1>0, <1>2, <1>3, <2>2
      <3>2. Len(p) = s + r + 1 + F + L /\ F \in Nat /\ r \in Nat /\ s \in Nat
        BY <1>1, <1>2, <1>3, <1>5
      <3> QED BY <1>0, <3>1, <3>2
    <2> QED BY <1>2, <2>1, <2>2
  <1>7. H!LengthAt(8 * r) = r + 1 + F /\ (8 * r) \div 8 = r
    BY <1>0, <1>1, LengthPlace
  <1>8. x = [i \in 1..(2 * B) |->
               IF i - 1 \in (r + 1 + F)..(r + F + L) THEN H!LengthByte(8 * len, i - 1 - (r + 1 + F))
               ELSE IF i <= r THEN sha1_block[i]
               ELSE IF i - 1 = r THEN H!One ELSE H!Zero]
    <2>1. H!LengthAt(8 * r) + LenBytes - 1 = r + F + L
      BY <1>0, <1>1, <1>3, <1>7 DEF L
    <2> QED BY <1>7, <2>1 DEF H!pad_sha1_message, B
  <1>9. \A i \in 1..B : sha1_block[i] \in T
    BY DEF Hashing
  <1>10. x \in Seq(U) /\ Len(x) = 2 * B
    <2>1. ASSUME NEW i \in 1..(2 * B), i - 1 \in (r + 1 + F)..(r + F + L)
          PROVE  i - 1 - (r + 1 + F) \in 0..(L - 1)
      <3>1. r \in Nat /\ F \in Nat /\ L \in Nat /\ i \in Int
        BY <1>0, <1>1, <1>3
      <3> HIDE DEF F, r
      <3> QED BY <2>1, <3>1
    <2>2. \A i \in 1..(2 * B) : i <= r => i \in 1..B
      BY <1>0, <1>1
    <2>3. \A i \in 1..(2 * B) : x[i] \in U
      <3> HIDE DEF F, m, r
      <3> QED BY <1>1, <1>8, <1>9, <2>1, <2>2
    <2>4. x = [i \in 1..(2 * B) |-> x[i]]
      BY <1>8
    <2> HIDE DEF x, U
    <2> QED BY <1>0, <2>3, <2>4
  <1>11. ASSUME NEW i \in 1..(t * B) PROVE x[i] = p[s + i]
    <2> HIDE DEF p, s, x, r, F, m, n
    <2>1. i \in 1..(2 * B) /\ i \in Nat
      BY <1>0, <1>1, <1>2
    <2>0. /\ i <= r + 1 + F + L /\ i \in Nat /\ F \in Nat /\ r \in Nat /\ L \in Nat
          /\ m = s + r /\ s \in Nat
      <3>1. r + 1 + F + L = t * B /\ F \in Nat /\ i \in 1..(t * B)
        BY <1>3, <1>11
      <3> DEFINE Z == t * B
      <3>2. Z \in Nat
        BY <1>0, <1>2
      <3> HIDE DEF Z
      <3>3. i <= Z /\ i \in Nat /\ r + 1 + F + L = Z
        BY <3>1, <3>2 DEF Z
      <3> QED BY <1>0, <1>1, <1>2, <3>1, <3>3
    <2> HIDE DEF t
    <2>2. CASE i <= r
      <3>1. x[i] = sha1_block[i]
        BY <1>0, <1>1, <1>3, <1>8, <2>1, <2>2
      <3>2. sha1_block[i] = hashed[s + i]
        BY <2>1, <2>2 DEF Hashing, r, s, n
      <3>3. s + i \in 1..m
        BY <1>1, <1>2, <2>1, <2>2
      <3> QED BY <1>5, <3>1, <3>2, <3>3
    <2>3. CASE i = r + 1
      <3>1. x[i] = H!One
        BY <1>0, <1>1, <1>3, <1>8, <2>1, <2>3
      <3>2. s + i = m + 1
        BY <1>1, <1>2, <2>3
      <3> QED BY <1>5, <3>1, <3>2
    <2>4. CASE i > r + 1 /\ i <= r + 1 + F
      <3>1. x[i] = H!Zero
        BY <1>0, <1>1, <1>3, <1>8, <2>1, <2>4
      <3>2. i - r - 1 \in 1..F /\ m + 1 + (i - r - 1) = s + i
        BY <1>1, <1>2, <1>3, <2>1, <2>4
      <3> QED BY <1>5, <3>1, <3>2
    <2>5. CASE i > r + 1 + F
      <3> DEFINE k == i - (r + 1 + F)
      <3>1. k \in 1..L /\ m + 1 + F + k = s + i /\ k - 1 = i - 1 - (r + 1 + F)
        BY <2>0, <2>5
      <3>2. i - 1 \in (r + 1 + F)..(r + F + L)
        BY <2>0, <2>5
      <3>3. x[i] = H!LengthByte(8 * len, i - 1 - (r + 1 + F))
        BY <1>8, <2>1, <3>2
      <3> QED BY <1>1, <1>5, <3>1, <3>3
    <2> QED BY <1>1, <1>3, <2>1, <2>2, <2>3, <2>4, <2>5
  <1>12. T \subseteq U
    OBVIOUS
  <1>13. \A i \in 1..Len(hashed) : p[i] = hashed[i]
    BY <1>5
  <1> HIDE DEF p, x, U
  <1> QED BY <1>5, <1>6, <1>10, <1>11, <1>12, <1>13 DEF p, x

\* Once all bytes are taken SHA1_Final hashes the padded message.
LEMMA FinishedIsHash ==
  ASSUME H!Sha1Assumption, NEW T, Hashing(T), data = <<>>
  PROVE  H!Finished = H!Hash(hashed)
  <1>0. B \in Nat /\ L \in Nat /\ 0 < L /\ L < B
    BY BlockSizes
  <1> DEFINE n == Len(h)
             s == n * B
             p == H!Padded(hashed)
             x == H!pad_sha1_message(sha1_block, 8 * len, 8 * active_len)
             g == H!Hash(hashed)
  <1>1. PICK U, t :
          /\ T \subseteq U
          /\ t = IF active_len < B - L THEN 1 ELSE 2
          /\ p \in Seq(U) /\ Len(p) = (n + t) * B
          /\ \A i \in 1..Len(hashed) : p[i] = hashed[i]
          /\ x \in Seq(U) /\ Len(x) = 2 * B
          /\ \A i \in 1..(t * B) : x[i] = p[s + i]
    BY PadIsPadded
  <1>2. /\ n \in Nat /\ active_len \in 0..(B - 1) /\ h \in Seq(Seq(T)) /\ t \in {1, 2}
        /\ Len(hashed) = s + active_len
        /\ \A j \in 1..n : Len(h[j]) = B /\ \A i \in 1..B : h[j][i] = hashed[(j - 1) * B + i]
    <2>1. Len(data) = 0 /\ Len(h) \in Nat
      BY DEF Hashing
    <2>2. t \in {1, 2}
      BY <1>1
    <2>3. /\ active_len \in 0..(B - 1) /\ h \in Seq(Seq(T)) /\ len = n * B + active_len
          /\ Len(hashed) = len + Len(data)
          /\ \A j \in 1..n : Len(h[j]) = B /\ \A i \in 1..B : h[j][i] = hashed[(j - 1) * B + i]
      BY DEF Hashing
    <2>4. n * B \in Nat
      BY <1>0, <2>1, Product
    <2>5. Len(hashed) = s + active_len
      BY <2>1, <2>3, <2>4
    <2> QED BY <2>1, <2>2, <2>3, <2>5
  <1>3. s \in Nat /\ (n + 1) * B = s + B
    BY <1>0, <1>2, Product
  <1>4. /\ g \in Seq(Seq(U)) /\ Len(g) = n + t
        /\ \A j \in 1..(n + t) : /\ Len(g[j]) = B
                                 /\ \A i \in 1..B : g[j][i] = p[(j - 1) * B + i]
    <2>1. n + t \in Nat
      BY <1>2
    <2> QED BY <1>1, <2>1, HashIs
  <1>5. \A j \in 1..(n + t) : g[j] \in Seq(U)
    BY <1>4
  <1> DEFINE first == SubSeq(x, 1, B)
             second == SubSeq(x, B + 1, 2 * B)
  <1>6. first \in Seq(U) /\ Len(first) = B /\ \A i \in 1..B : first[i] = x[i]
    <2>1. 0 \in Nat /\ B \in 0..Len(x)
      BY <1>0, <1>1
    <2>2. /\ SubSeq(x, 0 + 1, B) \in Seq(U) /\ Len(SubSeq(x, 0 + 1, B)) = B - 0
          /\ \A i \in 1..(B - 0) : SubSeq(x, 0 + 1, B)[i] = x[i + 0]
      <3>1. x \in Seq(U)
        BY <1>1
      <3> HIDE DEF x
      <3> QED BY <2>1, <3>1, PartOf
    <2> HIDE DEF x
    <2> QED BY <1>0, <2>2
  <1>7. second \in Seq(U) /\ Len(second) = B /\ \A i \in 1..B : second[i] = x[B + i]
    <2>1. B \in Nat /\ 2 * B \in B..Len(x) /\ 2 * B - B = B
      BY <1>0, <1>1
    <2>2. /\ SubSeq(x, B + 1, 2 * B) \in Seq(U) /\ Len(SubSeq(x, B + 1, 2 * B)) = 2 * B - B
          /\ \A i \in 1..(2 * B - B) : SubSeq(x, B + 1, 2 * B)[i] = x[i + B]
      <3>1. x \in Seq(U)
        BY <1>1
      <3> HIDE DEF x
      <3> QED BY <2>1, <3>1, PartOf
    <2>3. \A i \in 1..B : B + i = i + B
      BY <1>0
    <2> HIDE DEF x
    <2> QED BY <2>1, <2>2, <2>3
  <1> HIDE DEF p, x, g, s, first, second
  <1>8. ASSUME NEW j \in 1..n PROVE h[j] = g[j]
    <2>1. h[j] \in Seq(T) /\ j \in 1..(n + t)
      <3> DEFINE V == Seq(T)
      <3>1. h \in Seq(V) /\ n = Len(h)
        BY <1>2
      <3> HIDE DEF V, n
      <3>2. h[j] \in V
        BY <3>1, <1>2
      <3> QED BY <1>2, <3>2 DEF V
    <2>2. h[j] \in Seq(U)
      BY <1>1, <2>1, MoreBytes
    <2>3. ASSUME NEW i \in 1..B PROVE h[j][i] = g[j][i]
      <3> DEFINE a == (j - 1) * B
      <3>1. a \in Nat /\ a + B <= s
        <4>1. j - 1 \in Nat /\ j \in Nat /\ (j - 1) + 1 = j /\ j <= n
          BY <1>2
        <4>2. a \in Nat /\ ((j - 1) + 1) * B = a + B
          BY <1>0, <4>1, Product
        <4>3. j * B <= n * B
          BY <1>0, <1>2, <4>1, Product
        <4> DEFINE f == j * B
                   e == n * B
        <4>4. f = a + B /\ f <= e /\ s = e
          BY <4>1, <4>2, <4>3 DEF s
        <4> HIDE DEF f, e, a
        <4> QED BY <4>2, <4>4
      <3>2. a + i \in 1..Len(hashed)
        <4> HIDE DEF a
        <4> QED BY <1>0, <1>2, <1>3, <3>1
      <3> QED BY <1>1, <1>2, <1>4, <2>1, <3>2
    <2> QED BY <1>4, <1>5, <1>2, <2>1, <2>2, <2>3, SameSequence
  <1>9. first = g[n + 1]
    <2>1. n + 1 \in 1..(n + t) /\ n + 1 - 1 = n
      BY <1>2
    <2>2. ASSUME NEW i \in 1..B PROVE first[i] = g[n + 1][i]
      <3>1. i \in 1..(t * B)
        BY <1>0, <1>2
      <3>2. g[n + 1][i] = p[(n + 1 - 1) * B + i]
        BY <1>4, <2>1
      <3>3. (n + 1 - 1) * B = s
        BY <2>1 DEF s
      <3> QED BY <1>1, <1>6, <3>1, <3>2, <3>3
    <2>3. Len(g[n + 1]) = B /\ g[n + 1] \in Seq(U)
      BY <1>4, <1>5, <2>1
    <2> QED BY <1>6, <2>2, <2>3, SameSequence
  <1>10. ASSUME t = 2 PROVE second = g[n + 2]
    <2>1. n + 2 \in 1..(n + t) /\ n + 2 - 1 = n + 1
      BY <1>2, <1>10
    <2>2. ASSUME NEW i \in 1..B PROVE second[i] = g[n + 2][i]
      <3>1. B + i \in 1..(t * B)
        BY <1>0, <1>10
      <3>2. g[n + 2][i] = p[(n + 2 - 1) * B + i]
        BY <1>4, <2>1
      <3>3. (n + 2 - 1) * B + i = s + (B + i)
        BY <1>0, <1>3, <2>1
      <3> QED BY <1>1, <1>7, <3>1, <3>2, <3>3
    <2>3. Len(g[n + 2]) = B /\ g[n + 2] \in Seq(U)
      BY <1>4, <1>5, <2>1
    <2> QED BY <1>7, <2>2, <2>3, SameSequence
  <1>11. H!SecondBlock(8 * active_len) <=> t = 2
    BY <1>0, <1>1, <1>2, LengthPlace
  <1>12. H!Finished = IF t = 2 THEN Append(Append(h, first), second) ELSE Append(h, first)
    BY <1>11 DEF H!Finished, H!add_block, first, second, x, B
  <1> DEFINE V == Seq(U)
  <1>13. h \in Seq(V)
    <2>1. Seq(T) \subseteq V
      BY <1>1, MoreBytes
    <2>2. h \in Seq(Seq(T))
      BY <1>2
    <2> QED BY <2>1, <2>2, MoreBytes
  <1>14. first \in V /\ second \in V /\ g \in Seq(V)
    BY <1>4, <1>6, <1>7
  <1> HIDE DEF V
  <1> DEFINE a == Append(h, first)
             b == Append(a, second)
  <1>15. /\ a \in Seq(V) /\ Len(a) = n + 1 /\ a[n + 1] = first
         /\ \A j \in 1..n : a[j] = h[j]
    BY <1>13, <1>14, AppendIs
  <1>16. ASSUME NEW j \in 1..(n + 1) PROVE a[j] = g[j]
    <2> HIDE DEF a
    <2>1. j \in 1..n \/ j = n + 1
      BY <1>2
    <2> QED BY <1>8, <1>9, <1>15, <2>1
  <1>17. CASE t = 1
    <2> HIDE DEF a
    <2>1. a = g
      BY <1>4, <1>14, <1>15, <1>16, <1>17, SameSequence
    <2> QED BY <1>12, <1>17, <2>1 DEF g, a
  <1>18. CASE t = 2
    <2> HIDE DEF a
    <2>1. /\ b \in Seq(V) /\ Len(b) = Len(a) + 1 /\ b[Len(a) + 1] = second
          /\ \A j \in 1..Len(a) : b[j] = a[j]
      BY <1>14, <1>15, AppendIs
    <2> HIDE DEF b
    <2>2. Len(a) = n + 1 /\ Len(b) = n + 2 /\ n + 1 + 1 = n + 2
      BY <1>2, <1>15, <2>1
    <2>3. ASSUME NEW j \in 1..(n + 2) PROVE b[j] = g[j]
      <3>1. j \in 1..(n + 1) \/ j = n + 2
        BY <1>2
      <3> QED BY <1>10, <1>16, <1>18, <2>1, <2>2, <3>1
    <2>4. b = g
      BY <1>4, <1>14, <1>18, <2>1, <2>2, <2>3, SameSequence
    <2> QED BY <1>12, <1>18, <2>4 DEF g, a, b
  <1> QED BY <1>2, <1>17, <1>18

\* A block of zeroes, and the empty sequence.
LEMMA NothingTaken ==
  ASSUME H!Sha1Assumption
  PROVE  /\ H!ZeroBlock \in Seq({H!Zero}) /\ Len(H!ZeroBlock) = B
         /\ <<>> \in Seq({H!Zero}) /\ <<>> \in Seq(Seq({H!Zero})) /\ Len(<<>>) = 0
         /\ 0 \in 0..(B - 1) /\ 0 = 0 * B + 0 /\ 1..0 = {}
  BY BlockSizes DEF H!ZeroBlock, B

\* An initialised context has taken nothing.
LEMMA FreshHashing ==
  ASSUME H!Sha1Assumption
  PROVE  /\ H!Init => Hashing({H!Zero})
         /\ H!SHA1_Init /\ data' = <<>> => Hashing({H!Zero})'
  <1> DEFINE Z == {H!Zero}
  <1>1. /\ H!ZeroBlock \in Seq(Z) /\ Len(H!ZeroBlock) = B
        /\ <<>> \in Seq(Z) /\ <<>> \in Seq(Seq(Z)) /\ Len(<<>>) = 0
        /\ 0 \in 0..(B - 1) /\ 0 = 0 * B + 0 /\ 1..0 = {} /\ H!Zero \in Z
    BY NothingTaken
  <1> HIDE DEF Z
  <1>2. ASSUME H!Init PROVE Hashing(Z)
    <2>1. /\ h = <<>> /\ sha1_block = H!ZeroBlock /\ active_len = 0 /\ len = 0
          /\ hashed = <<>> /\ data = <<>>
      BY <1>2 DEF H!Init
    <2>2. Len(h) = 0 /\ Len(data) = 0 /\ Len(hashed) = 0 /\ len = Len(h) * B + active_len
      BY <1>1, <2>1
    <2>3. Len(hashed) = len + Len(data)
      BY <2>1, <2>2
    <2> QED BY <1>1, <2>1, <2>2, <2>3 DEF Hashing
  <1>3. ASSUME H!SHA1_Init, data' = <<>> PROVE Hashing(Z)'
    <2>1. /\ h' = <<>> /\ sha1_block' = H!ZeroBlock /\ active_len' = 0 /\ len' = 0
          /\ hashed' = <<>> /\ data' = <<>>
      BY <1>3 DEF H!SHA1_Init
    <2>2. Len(h') = 0 /\ Len(data') = 0 /\ Len(hashed') = 0 /\ len' = Len(h') * B + active_len'
      BY <1>1, <2>1
    <2>3. Len(hashed') = len' + Len(data')
      BY <2>1, <2>2
    <2> QED BY <1>1, <2>1, <2>2, <2>3 DEF Hashing
  <1> QED BY <1>2, <1>3 DEF Z

\* A further update is appended to what was passed.
LEMMA MoreToHash ==
  ASSUME H!Sha1Assumption, NEW T, Hashing(T), data = <<>>, NEW U, NEW e \in Seq(U),
         data' = e, hashed' = hashed \o e, UNCHANGED H!ctx
  PROVE  Hashing(T \cup U)'
  <1>0. B \in Nat /\ 0 < B
    BY BlockSizes
  <1> DEFINE V == T \cup U
  <1>1. UNCHANGED <<h, sha1_block, active_len, len>>
    BY DEF H!ctx
  <1>2. /\ H!Zero \in T /\ hashed \in Seq(T) /\ sha1_block \in Seq(T) /\ h \in Seq(Seq(T))
        /\ active_len \in 0..(B - 1) /\ len = Len(h) * B + active_len
        /\ Len(sha1_block) = B /\ \A j \in 1..Len(h) : Len(h[j]) = B
        /\ Len(hashed) = len + Len(data)
        /\ \A j \in 1..Len(h) : \A i \in 1..B : h[j][i] = hashed[(j - 1) * B + i]
        /\ \A i \in 1..active_len : sha1_block[i] = hashed[Len(h) * B + i]
    BY DEF Hashing
  <1>3. hashed \in Seq(V) /\ e \in Seq(V) /\ sha1_block \in Seq(V)
    BY <1>2, MoreBytes
  <1>4. h \in Seq(Seq(V))
    <2>1. Seq(T) \subseteq Seq(V)
      BY MoreBytes
    <2> QED BY <1>2, <2>1, MoreBytes
  <1> HIDE DEF V
  <1>5. /\ hashed' \in Seq(V) /\ Len(hashed') = Len(hashed) + Len(e)
        /\ \A i \in 1..Len(hashed) : hashed'[i] = hashed[i]
        /\ \A i \in 1..Len(e) : hashed'[Len(hashed) + i] = e[i]
    BY <1>3, FollowedBy
  <1> DEFINE n == Len(h)
             a == n * B
  <1>6. n \in Nat /\ a \in Nat /\ Len(hashed) = a + active_len /\ len = Len(hashed)
    <2>1. n \in Nat /\ Len(data) = 0
      BY <1>2
    <2>2. a \in Nat
      BY <1>0, <2>1, Product
    <2> QED BY <1>2, <2>1, <2>2
  <1>7. ASSUME NEW j \in 1..n, NEW i \in 1..B PROVE h[j][i] = hashed'[(j - 1) * B + i]
    <2> DEFINE b == (j - 1) * B
    <2>1. b \in Nat /\ b + B <= a
      <3>1. j - 1 \in Nat /\ j \in Nat /\ (j - 1) + 1 = j /\ j <= n
        BY <1>6
      <3>2. b \in Nat /\ ((j - 1) + 1) * B = b + B
        BY <1>0, <3>1, Product
      <3>3. j * B <= n * B
        BY <1>0, <1>6, <3>1, Product
      <3> DEFINE f == j * B
      <3>4. f = b + B /\ f <= a
        BY <3>1, <3>2, <3>3
      <3> HIDE DEF f, a, b
      <3> QED BY <3>2, <3>4
    <2>2. b + i \in 1..Len(hashed)
      <3> HIDE DEF a, b
      <3> QED BY <1>0, <1>2, <1>6, <2>1
    <2> QED BY <1>2, <1>5, <2>2
  <1>8. ASSUME NEW i \in 1..active_len PROVE sha1_block[i] = hashed'[a + i]
    <2>1. a + i \in 1..Len(hashed)
      <3> HIDE DEF a
      <3> QED BY <1>0, <1>2, <1>6
    <2> QED BY <1>2, <1>5, <2>1
  <1>9. H!Zero \in V /\ Len(hashed') = len + Len(e)
    BY <1>2, <1>5, <1>6 DEF V
  <1>10. \A i \in 1..Len(e) : e[i] = hashed'[len + i]
    BY <1>5, <1>6
  <1>11. Hashing(V)'
    BY <1>1, <1>2, <1>3, <1>4, <1>5, <1>7, <1>8, <1>9, <1>10 DEF Hashing
  <1> QED BY <1>11 DEF V

\* One iteration of SHA1_Update's loop moves the first of the bytes to the
\* open block, and a full block to the hash.
LEMMA UpdateStepHashing ==
  ASSUME H!Sha1Assumption, NEW T, Hashing(T), H!UpdateStep
  PROVE  Hashing(T)'
  <1>0. B \in Nat /\ 0 < B
    BY BlockSizes
  <1>1. /\ H!Zero \in T /\ hashed \in Seq(T) /\ data \in Seq(T) /\ sha1_block \in Seq(T)
        /\ h \in Seq(Seq(T))
        /\ active_len \in 0..(B - 1) /\ len = Len(h) * B + active_len
        /\ Len(sha1_block) = B /\ \A j \in 1..Len(h) : Len(h[j]) = B
        /\ Len(hashed) = len + Len(data)
        /\ \A j \in 1..Len(h) : \A i \in 1..B : h[j][i] = hashed[(j - 1) * B + i]
        /\ \A i \in 1..active_len : sha1_block[i] = hashed[Len(h) * B + i]
        /\ \A i \in 1..Len(data) : data[i] = hashed[len + i]
    BY DEF Hashing
  <1> DEFINE n == Len(h)
             a == n * B
             r == active_len
             D == Len(data)
             w == IF r + D > B THEN B - r ELSE D
             filled == [i \in 1..B |-> IF i \in (r + 1)..(r + w) THEN data[i - r] ELSE sha1_block[i]]
  <1>2. n \in Nat /\ a \in Nat /\ (n + 1) * B = a + B
    <2>1. n \in Nat
      BY <1>1
    <2> QED BY <1>0, <2>1, Product
  <1>3. /\ data # <<>> /\ len' = len + w /\ hashed' = hashed
        /\ \/ /\ r + w # B /\ sha1_block' = filled /\ active_len' = r + w /\ data' = <<>>
              /\ h' = h
           \/ /\ r + w = B /\ h' = Append(h, filled) /\ sha1_block' = H!ZeroBlock
              /\ active_len' = 0 /\ data' = SubSeq(data, w + 1, D)
    BY DEF H!UpdateStep, H!StaysOpen, H!add_block, B
  <1>4. D \in Nat /\ D > 0 /\ r \in Nat /\ r < B
    <2>1. data \in Seq(T) /\ data # <<>> /\ r \in 0..(B - 1)
      BY <1>1, <1>3
    <2>2. Len(data) \in Nat /\ Len(data) > 0
      BY <2>1
    <2> QED BY <1>0, <2>1, <2>2
  <1>5. w \in 1..D /\ r + w <= B /\ (r + w # B => w = D)
    BY <1>0, <1>4
  <1> HIDE DEF w
  <1>6. /\ filled \in Seq(T) /\ Len(filled) = B
        /\ \A i \in 1..(r + w) : filled[i] = hashed[a + i]
    <2>1. ASSUME NEW i \in 1..B PROVE filled[i] \in T
      <3>1. CASE i \in (r + 1)..(r + w)
        <4>1. i - r \in 1..D
          BY <1>4, <1>5, <3>1
        <4> QED BY <1>1, <3>1, <4>1
      <3>2. CASE i \notin (r + 1)..(r + w)
        BY <1>1, <3>2
      <3> QED BY <3>1, <3>2
    <2>2. filled = [i \in 1..B |-> filled[i]]
      OBVIOUS
    <2>3. ASSUME NEW i \in 1..(r + w) PROVE filled[i] = hashed[a + i]
      <3>1. i \in 1..B
        BY <1>0, <1>4, <1>5
      <3>2. CASE i <= r
        <4>1. i \notin (r + 1)..(r + w) /\ i \in 1..r
          BY <1>4, <1>5, <3>2
        <4> QED BY <1>1, <3>1, <4>1
      <3>3. CASE i > r
        <4>1. i \in (r + 1)..(r + w) /\ i - r \in 1..D /\ len + (i - r) = a + i
          <5> HIDE DEF a
          <5>1. len = a + r
            BY <1>1 DEF a
          <5> QED BY <1>2, <1>4, <1>5, <3>3, <5>1
        <4>2. data[i - r] = hashed[len + (i - r)]
          BY <1>1, <4>1
        <4> QED BY <3>1, <4>1, <4>2
      <3> QED BY <1>4, <3>2, <3>3
    <2> HIDE DEF filled
    <2>4. filled \in Seq(T) /\ Len(filled) = B
      BY <1>0, <2>1, <2>2
    <2> QED BY <2>3, <2>4
  <1> HIDE DEF filled
  <1>7. CASE r + w # B
    <2>1. /\ sha1_block' = filled /\ active_len' = r + w /\ data' = <<>> /\ h' = h /\ w = D
          /\ len' = len + w /\ hashed' = hashed
      BY <1>3, <1>5, <1>7
    <2>2. <<>> \in Seq(T) /\ Len(<<>>) = 0
      OBVIOUS
    <2>3. r + w \in 0..(B - 1) /\ len + w = a + (r + w) /\ Len(hashed) = len + w
      <3>1. len = a + r /\ Len(hashed) = len + D
        BY <1>1
      <3> HIDE DEF a
      <3> QED BY <1>0, <1>2, <1>4, <1>5, <1>7, <3>1
    <2>4. Len(hashed') = len' + Len(data')
      <3>1. len + w \in Nat
        <4> HIDE DEF a
        <4> QED BY <1>2, <1>4, <1>5, <2>3
      <3> QED BY <2>1, <2>2, <2>3, <3>1
    <2> QED BY <1>1, <1>6, <2>1, <2>2, <2>3, <2>4 DEF Hashing
  <1>8. CASE r + w = B
    <2>1. /\ h' = Append(h, filled) /\ sha1_block' = H!ZeroBlock /\ active_len' = 0
          /\ data' = SubSeq(data, w + 1, D) /\ len' = len + w /\ hashed' = hashed
      BY <1>3, <1>8
    <2>2. /\ data' \in Seq(T) /\ Len(data') = D - w
          /\ \A i \in 1..(D - w) : data'[i] = data[i + w]
      <3>1. w \in Nat /\ D \in w..Len(data)
        BY <1>4, <1>5
      <3>2. data \in Seq(T)
        BY <1>1
      <3>3. /\ SubSeq(data, w + 1, D) \in Seq(T) /\ Len(SubSeq(data, w + 1, D)) = D - w
            /\ \A i \in 1..(D - w) : SubSeq(data, w + 1, D)[i] = data[i + w]
        BY <3>1, <3>2, PartOf
      <3> QED BY <2>1, <3>3
    <2>3. H!ZeroBlock \in Seq(T) /\ Len(H!ZeroBlock) = B
      <3>1. {H!Zero} \subseteq T
        BY <1>1
      <3> QED BY <3>1, NothingTaken, MoreBytes
    <2>4. /\ h' \in Seq(Seq(T)) /\ Len(h') = n + 1 /\ h'[n + 1] = filled
          /\ \A j \in 1..n : h'[j] = h[j]
      BY <1>1, <1>6, <2>1, AppendIs
    <2>5. len' = (n + 1) * B /\ len' = a + B /\ Len(hashed) = len' + Len(data')
      <3>1. len = a + r /\ Len(hashed) = len + D
        BY <1>1
      <3>2. (n + 1) * B = a + B /\ a \in Nat
        BY <1>2
      <3> HIDE DEF a, D, r
      <3>3. len' = a + B
        BY <1>0, <1>4, <1>5, <1>8, <2>1, <3>1, <3>2
      <3>4. len' = len + w /\ len \in Nat /\ Len(data') = D - w /\ w \in Nat /\ D \in Nat
        BY <1>4, <1>5, <2>1, <2>2, <3>1, <3>2
      <3>5. Len(hashed) = len' + Len(data')
        BY <3>1, <3>4
      <3> QED BY <3>2, <3>3, <3>5
    <2>6. ASSUME NEW j \in 1..(n + 1)
          PROVE  Len(h'[j]) = B /\ \A i \in 1..B : h'[j][i] = hashed[(j - 1) * B + i]
      <3>1. CASE j \in 1..n
        <4>1. h'[j] = h[j]
          BY <2>4, <3>1
        <4>2. Len(h[j]) = B /\ \A i \in 1..B : h[j][i] = hashed[(j - 1) * B + i]
          BY <1>1, <3>1
        <4> QED BY <4>1, <4>2
      <3>2. CASE j = n + 1
        <4>1. (j - 1) * B = a
          BY <1>2, <3>2
        <4>2. h'[j] = filled /\ Len(filled) = B /\ \A i \in 1..B : filled[i] = hashed[a + i]
          BY <1>6, <1>8, <2>4, <3>2
        <4> HIDE DEF a
        <4> QED BY <4>1, <4>2
      <3> QED BY <1>2, <3>1, <3>2
    <2>7. ASSUME NEW i \in 1..Len(data') PROVE data'[i] = hashed[len' + i]
      <3>1. i \in 1..(D - w) /\ i + w \in 1..D /\ len' + i = len + (i + w)
        <4>1. len = a + r
          BY <1>1
        <4> HIDE DEF a, D
        <4> QED BY <1>2, <1>4, <1>5, <2>1, <2>2, <4>1
      <3> QED BY <1>1, <2>2, <3>1
    <2>8. 0 \in 0..(B - 1) /\ 1..0 = {} /\ len' = (n + 1) * B + 0
      <3> DEFINE b == (n + 1) * B
      <3>1. b \in Nat /\ len' = b
        BY <1>0, <1>2, <2>5
      <3> HIDE DEF b
      <3>2. 0 \in 0..(B - 1) /\ 1..0 = {} /\ len' = b + 0
        BY <1>0, <3>1
      <3> QED BY <3>2 DEF b
    <2> HIDE DEF n, a, D
    <2> QED BY <1>1, <2>1, <2>2, <2>3, <2>4, <2>5, <2>6, <2>7, <2>8 DEF Hashing
  <1> QED BY <1>7, <1>8

-----------------------------------------------------------------------------
(* HMAC: what each of its contexts has taken and is still to take.         *)

IsSeq(s) == s \in Seq({s[i] : i \in 1..Len(s)})

\* Of two updates none, the first or both were passed.
Passed(first, second) ==
  \/ todo = <<first, second>> /\ hashed = <<>>
  \/ todo = <<second>> /\ hashed = first
  \/ todo = <<>> /\ hashed = first \o second

\* RFC 2104's key: hashed if it is longer than a block.
KeyUsed ==
  IF Len(sha1_given) > B THEN H!Digest(H!Hash(sha1_given)) ELSE sha1_given

Stages ==
  /\ stage \in {"hash", "key", "inner", "outer", "done", "mac"}
  /\ stage \in {"hash", "done", "mac"} => todo = <<>>
  /\ stage \in {"key", "inner", "outer"} => IsSeq(sha1_given) /\ IsSeq(key) /\ IsSeq(message)
  /\ stage = "key" =>
       /\ Len(sha1_given) > B /\ key = sha1_given
       /\ (todo = <<key>> /\ hashed = <<>>) \/ (todo = <<>> /\ hashed = key)
  /\ stage = "inner" => key = KeyUsed /\ Passed(H!Xor("ipad", key), message)
  /\ stage = "outer" =>
       /\ key = KeyUsed /\ IsSeq(digest)
       /\ digest = H!Digest(H!Hash(H!Xor("ipad", key) \o message))
       /\ Passed(H!Xor("opad", key), digest)
  /\ stage = "mac" => digest = H!Hmac(sha1_given, message)

Sha1IInv == (\E T : Hashing(T)) /\ Stages

\* A sequence over any set is one over its elements.
LEMMA IsSeqOf ==
  ASSUME NEW T, NEW s \in Seq(T)
  PROVE  IsSeq(s)
  BY DEF IsSeq

\* The keys, messages, digests and padded keys of the model are sequences.
LEMMA MadeSequences ==
  ASSUME H!Sha1Assumption, NEW k \in Nat, NEW pad, NEW x
  PROVE  /\ IsSeq(H!Key(k)) /\ Len(H!Key(k)) = k
         /\ IsSeq(H!Message(k)) /\ IsSeq(H!Digest(x)) /\ IsSeq(H!Xor(pad, x))
  <1>0. B \in Nat /\ SHA1_LEN \in Nat
    BY BlockSizes
  <1>1. IsSeq(H!Key(k)) /\ Len(H!Key(k)) = k
    <2> DEFINE f == [i \in 1..k |-> <<"key", i>>]
    <2>1. f \in Seq({f[i] : i \in 1..k}) /\ Len(f) = k
      OBVIOUS
    <2> QED BY <2>1 DEF IsSeq, H!Key
  <1>2. IsSeq(H!Message(k))
    <2> DEFINE f == [i \in 1..k |-> <<"message", i>>]
    <2>1. f \in Seq({f[i] : i \in 1..k}) /\ Len(f) = k
      OBVIOUS
    <2> QED BY <2>1 DEF IsSeq, H!Message
  <1>3. IsSeq(H!Digest(x))
    <2> DEFINE f == [i \in 1..SHA1_LEN |-> <<"digest", x, i>>]
    <2>1. f \in Seq({f[i] : i \in 1..SHA1_LEN}) /\ Len(f) = SHA1_LEN
      BY <1>0
    <2> QED BY <2>1 DEF IsSeq, H!Digest
  <1>4. IsSeq(H!Xor(pad, x))
    <2> DEFINE e(i) == <<pad, IF i <= Len(x) THEN x[i] ELSE H!Zero>>
               f == [i \in 1..B |-> e(i)]
    <2>1. H!Xor(pad, x) = f
      BY DEF H!Xor, B
    <2> HIDE DEF e
    <2>2. f \in Seq({f[i] : i \in 1..B}) /\ Len(f) = B
      BY <1>0
    <2> QED BY <2>1, <2>2 DEF IsSeq
  <1> QED BY <1>1, <1>2, <1>3, <1>4

\* The first of one or two updates, and what it leaves.
LEMMA FirstOf ==
  ASSUME NEW x, NEW y
  PROVE  /\ Head(<<x, y>>) = x /\ Tail(<<x, y>>) = <<y>> /\ Head(<<x>>) = x /\ Tail(<<x>>) = <<>>
         /\ <<x>> # <<>> /\ <<x, y>> # <<>> /\ <<x>> # <<x, y>>
  OBVIOUS

\* An update that HMAC passes next.
LEMMA HmacUpdateKeeps ==
  ASSUME H!Sha1Assumption, Sha1IInv, H!HmacUpdate
  PROVE  Sha1IInv'
  <1>1. PICK T : Hashing(T)
    BY DEF Sha1IInv
  <1>2. /\ data = <<>> /\ todo # <<>> /\ data' = Head(todo) /\ todo' = Tail(todo)
        /\ hashed' = hashed \o Head(todo)
        /\ UNCHANGED <<digest, stage, sha1_given, key, message>> /\ UNCHANGED H!ctx
    BY DEF H!HmacUpdate
  <1>3. hashed \in Seq(T) /\ Stages
    BY <1>1 DEF Sha1IInv, Hashing
  <1>4. ASSUME NEW e, IsSeq(e), Head(todo) = e
        PROVE  /\ \E U : Hashing(U)'
               /\ hashed = <<>> => hashed' = e
    <2> DEFINE U == {e[i] : i \in 1..Len(e)}
    <2>1. e \in Seq(U)
      BY <1>4 DEF IsSeq
    <2>2. Hashing(T \cup U)'
      <3> HIDE DEF U
      <3> QED BY <1>1, <1>2, <1>4, <2>1, MoreToHash
    <2>3. hashed = <<>> => hashed' = e
      <3> HIDE DEF U
      <3>1. <<>> \o e = e
        BY <2>1
      <3> QED BY <1>2, <1>4, <3>1
    <2> QED BY <2>2, <2>3
  <1>5. stage \in {"key", "inner", "outer"}
    BY <1>2, <1>3 DEF Stages
  <1>6. IsSeq(key) /\ IsSeq(message) /\ KeyUsed' = KeyUsed
    BY <1>2, <1>3, <1>5 DEF Stages, KeyUsed
  <1>7. CASE stage = "key"
    <2>1. todo = <<key>> /\ hashed = <<>>
      BY <1>2, <1>3, <1>7 DEF Stages
    <2>2. Head(todo) = key /\ todo' = <<>>
      BY <1>2, <2>1, FirstOf
    <2>3. (\E U : Hashing(U)') /\ hashed' = key
      BY <1>4, <1>6, <2>1, <2>2
    <2> QED BY <1>2, <1>3, <1>7, <2>2, <2>3 DEF Sha1IInv, Stages
  <1>8. ASSUME NEW x, NEW y, IsSeq(x), IsSeq(y), Passed(x, y)
        PROVE  /\ \E U : Hashing(U)'
               /\ \/ todo' = <<y>> /\ hashed' = x
                  \/ todo' = <<>> /\ hashed' = x \o y
    <2>1. CASE todo = <<x, y>> /\ hashed = <<>>
      <3>1. Head(todo) = x /\ todo' = <<y>>
        BY <1>2, <2>1, FirstOf
      <3> QED BY <1>4, <1>8, <2>1, <3>1
    <2>2. CASE todo = <<y>> /\ hashed = x
      <3>1. Head(todo) = y /\ todo' = <<>>
        BY <1>2, <2>2, FirstOf
      <3> QED BY <1>2, <1>4, <1>8, <2>2, <3>1
    <2> QED BY <1>2, <1>8, <2>1, <2>2 DEF Passed
  <1>9. CASE stage = "inner"
    <2> DEFINE x == H!Xor("ipad", key)
    <2>1. IsSeq(x) /\ Passed(x, message)
      BY <1>3, <1>9, MadeSequences DEF Stages
    <2>2. /\ \E U : Hashing(U)'
          /\ Passed(x, message)'
      BY <1>2, <1>6, <1>8, <2>1 DEF Passed, H!Xor
    <2> QED BY <1>2, <1>3, <1>6, <1>9, <2>2 DEF Sha1IInv, Stages
  <1>10. CASE stage = "outer"
    <2> DEFINE x == H!Xor("opad", key)
    <2>1. IsSeq(x) /\ IsSeq(digest) /\ Passed(x, digest)
      BY <1>3, <1>10, MadeSequences DEF Stages
    <2>2. /\ \E U : Hashing(U)'
          /\ Passed(x, digest)'
      BY <1>2, <1>8, <2>1 DEF Passed, H!Xor
    <2> QED BY <1>2, <1>3, <1>6, <1>10, <2>2 DEF Sha1IInv, Stages
  <1> QED BY <1>5, <1>7, <1>9, <1>10

\* The end of one of HMAC's hashes.
LEMMA HmacFinalKeeps ==
  ASSUME H!Sha1Assumption, Sha1IInv, H!HmacFinal
  PROVE  Sha1IInv'
  <1>1. PICK T : Hashing(T)
    BY DEF Sha1IInv
  <1>2. /\ data = <<>> /\ todo = <<>> /\ stage \in {"key", "inner", "outer"}
        /\ digest' = H!Digest(H!Finished) /\ UNCHANGED <<sha1_given, message>>
    BY DEF H!HmacFinal, H!Between
  <1>3. digest' = H!Digest(H!Hash(hashed))
    BY <1>1, <1>2, FinishedIsHash
  <1>4. IsSeq(digest')
    <2>1. 0 \in Nat
      OBVIOUS
    <2> QED BY <1>3, <2>1, MadeSequences
  <1>5. Stages /\ IsSeq(sha1_given) /\ IsSeq(key) /\ IsSeq(message)
    BY <1>2 DEF Sha1IInv, Stages
  <1>6. KeyUsed' = KeyUsed
    BY <1>2 DEF KeyUsed
  <1>7. CASE stage = "key"
    <2>1. /\ key' = digest' /\ H!SHA1_Init /\ data' = <<>> /\ stage' = "inner"
          /\ todo' = <<H!Xor("ipad", key'), message>>
      BY <1>7 DEF H!HmacFinal, H!Fresh
    <2>2. (\E U : Hashing(U)') /\ hashed' = <<>>
      BY <2>1, FreshHashing DEF H!SHA1_Init
    <2>3. hashed = sha1_given /\ Len(sha1_given) > B
      BY <1>2, <1>5, <1>7 DEF Stages
    <2>4. key' = KeyUsed'
      BY <1>3, <1>6, <2>1, <2>3 DEF KeyUsed
    <2>5. Passed(H!Xor("ipad", key), message)'
      BY <1>2, <2>1, <2>2 DEF Passed
    <2> QED BY <1>2, <1>4, <1>5, <2>1, <2>2, <2>4, <2>5 DEF Sha1IInv, Stages
  <1>8. CASE stage = "inner"
    <2>1. /\ key' = key /\ H!SHA1_Init /\ data' = <<>> /\ stage' = "outer"
          /\ todo' = <<H!Xor("opad", key), digest'>>
      BY <1>8 DEF H!HmacFinal, H!Fresh
    <2>2. (\E U : Hashing(U)') /\ hashed' = <<>>
      BY <2>1, FreshHashing DEF H!SHA1_Init
    <2>3. key = KeyUsed /\ hashed = H!Xor("ipad", key) \o message
      <3>1. key = KeyUsed /\ Passed(H!Xor("ipad", key), message)
        BY <1>5, <1>8 DEF Stages
      <3>2. <<>> # <<message>> /\ <<>> # <<H!Xor("ipad", key), message>>
        BY FirstOf
      <3> QED BY <1>2, <3>1, <3>2 DEF Passed
    <2>4. digest' = H!Digest(H!Hash(H!Xor("ipad", key) \o message))
      BY <1>3, <2>3
    <2>5. Passed(H!Xor("opad", key), digest)'
      BY <2>1, <2>2 DEF Passed, H!Xor
    <2>6. (H!Digest(H!Hash(H!Xor("ipad", key) \o message)))' =
            H!Digest(H!Hash(H!Xor("ipad", key) \o message))
      BY <1>2, <2>1
    <2> QED BY <1>2, <1>4, <1>5, <1>6, <2>1, <2>2, <2>3, <2>4, <2>5, <2>6 DEF Sha1IInv, Stages
  <1>9. CASE stage = "outer"
    <2>1. /\ stage' = "mac" /\ UNCHANGED <<data, todo, key, hashed>> /\ UNCHANGED H!ctx
      BY <1>9 DEF H!HmacFinal
    <2>2. Hashing(T)'
      BY <1>1, <2>1 DEF Hashing, H!ctx
    <2>3. /\ key = KeyUsed /\ digest = H!Digest(H!Hash(H!Xor("ipad", key) \o message))
          /\ hashed = H!Xor("opad", key) \o digest
      <3>1. /\ key = KeyUsed /\ digest = H!Digest(H!Hash(H!Xor("ipad", key) \o message))
            /\ Passed(H!Xor("opad", key), digest)
        BY <1>5, <1>9 DEF Stages
      <3>2. <<>> # <<digest>> /\ <<>> # <<H!Xor("opad", key), digest>>
        BY FirstOf
      <3> QED BY <1>2, <3>1, <3>2 DEF Passed
    <2>4. digest' = H!Hmac(sha1_given, message)
      BY <1>3, <2>3 DEF H!Hmac, KeyUsed, B
    <2>5. H!Hmac(sha1_given, message)' = H!Hmac(sha1_given, message)
      BY <1>2
    <2> QED BY <1>2, <2>1, <2>2, <2>4, <2>5 DEF Sha1IInv, Stages
  <1> QED BY <1>2, <1>7, <1>8, <1>9

\* A call of SHA1_HMAC.
LEMMA SHA1_HMACKeeps ==
  ASSUME H!Sha1Assumption, Sha1IInv, NEW k \in Nat, NEW m \in Nat, H!SHA1_HMAC(k, m)
  PROVE  Sha1IInv'
  <1>1. sha1_given' = H!Key(k) /\ key' = H!Key(k) /\ message' = H!Message(m)
    BY DEF H!SHA1_HMAC
  <1>2. \/ /\ k > B /\ H!SHA1_Init /\ data' = <<>> /\ todo' = <<key'>> /\ stage' = "key"
        \/ /\ ~(k > B) /\ H!SHA1_Init /\ data' = <<>> /\ stage' = "inner"
           /\ todo' = <<H!Xor("ipad", key'), message'>>
    BY DEF H!SHA1_HMAC, H!Fresh, H!LongKey, B
  <1>3. (\E U : Hashing(U)') /\ hashed' = <<>>
    BY <1>2, FreshHashing DEF H!SHA1_Init
  <1>4. IsSeq(key') /\ IsSeq(message') /\ Len(key') = k
    BY <1>1, MadeSequences
  <1>5. CASE stage' = "key"
    <2>1. k > B /\ todo' = <<key'>>
      BY <1>2, <1>5
    <2> QED BY <1>1, <1>3, <1>4, <1>5, <2>1 DEF Sha1IInv, Stages
  <1>6. CASE stage' = "inner"
    <2>1. ~(k > B) /\ todo' = <<H!Xor("ipad", key'), message'>>
      BY <1>2, <1>6
    <2>2. key' = KeyUsed'
      BY <1>1, <1>4, <2>1 DEF KeyUsed
    <2>3. Passed(H!Xor("ipad", key), message)'
      BY <1>3, <2>1 DEF Passed
    <2> QED BY <1>1, <1>3, <1>4, <1>6, <2>2, <2>3 DEF Sha1IInv, Stages
  <1> QED BY <1>2, <1>5, <1>6

\* Hashing outside HMAC, and the loop that both use.
LEMMA HashKeeps ==
  ASSUME H!Sha1Assumption, Sha1IInv,
         \/ H!Restart \/ H!UpdateStep \/ H!SHA1_Final
         \/ \E n \in 0..MaxMsg : H!SHA1_Update(n)
  PROVE  Sha1IInv'
  <1>1. PICK T : Hashing(T)
    BY DEF Sha1IInv
  <1>2. Stages
    BY DEF Sha1IInv
  <1>3. CASE H!Restart
    <2>1. H!SHA1_Init /\ todo' = <<>> /\ stage' = "hash" /\ data' = <<>>
      BY <1>3 DEF H!Restart, H!Between
    <2>2. \E U : Hashing(U)'
      BY <2>1, FreshHashing
    <2> QED BY <2>1, <2>2 DEF Sha1IInv, Stages
  <1>4. CASE H!UpdateStep
    <2>1. Hashing(T)'
      BY <1>1, <1>4, UpdateStepHashing
    <2>2. UNCHANGED <<todo, digest, stage, sha1_given, key, message, hashed>>
      BY <1>4 DEF H!UpdateStep
    <2>3. Stages'
      BY <1>2, <2>2 DEF Stages, Passed, KeyUsed, IsSeq
    <2> QED BY <2>1, <2>3 DEF Sha1IInv
  <1>5. CASE H!SHA1_Final
    <2>1. /\ todo' = <<>> /\ stage' = "done" /\ UNCHANGED <<data, hashed>> /\ UNCHANGED H!ctx
      BY <1>5 DEF H!SHA1_Final, H!Between
    <2>2. Hashing(T)'
      BY <1>1, <2>1 DEF Hashing, H!ctx
    <2> QED BY <2>1, <2>2 DEF Sha1IInv, Stages
  <1>6. ASSUME NEW n \in 0..MaxMsg, H!SHA1_Update(n) PROVE Sha1IInv'
    <2> DEFINE e == [i \in 1..n |-> <<"message", Len(hashed) + i>>]
    <2>1. /\ data = <<>> /\ todo = <<>> /\ stage = "hash" /\ data' = e /\ hashed' = hashed \o e
          /\ UNCHANGED <<todo, stage>> /\ UNCHANGED H!ctx
      BY <1>6 DEF H!SHA1_Update, H!Between
    <2>2. IsSeq(e)
      <3> DEFINE g(i) == <<"message", Len(hashed) + i>>
                 U == {g(i) : i \in 1..n}
      <3>1. n \in Nat
        BY DEF H!Sha1Assumption
      <3>2. e = [i \in 1..n |-> g(i)]
        OBVIOUS
      <3> HIDE DEF e, g
      <3>3. e \in Seq(U) /\ Len(e) = n
        BY <3>1, <3>2
      <3> HIDE DEF U
      <3> QED BY <3>3 DEF IsSeq
    <2>3. ASSUME NEW x, IsSeq(x), e = x PROVE \E U : Hashing(U)'
      <3> DEFINE U == {x[i] : i \in 1..Len(x)}
      <3>1. x \in Seq(U)
        BY <2>3 DEF IsSeq
      <3> HIDE DEF e, U
      <3>2. Hashing(T \cup U)'
        BY <1>1, <2>1, <2>3, <3>1, MoreToHash
      <3> QED BY <3>2
    <2> HIDE DEF e
    <2> QED BY <2>1, <2>2, <2>3 DEF Sha1IInv, Stages
  <1> QED BY <1>3, <1>4, <1>5, <1>6

\* Every step of hashing and of HMAC preserves the invariant.
LEMMA Sha1Step ==
  ASSUME H!Sha1Assumption, Sha1IInv, [H!Next]_(H!vars)
  PROVE  Sha1IInv'
  <1>1. CASE UNCHANGED H!vars
    <2>1. PICK T : Hashing(T)
      BY DEF Sha1IInv
    <2>2. /\ UNCHANGED <<h, sha1_block, active_len, len>>
          /\ UNCHANGED <<data, todo, digest, stage, sha1_given, key, message, hashed>>
      BY <1>1 DEF H!vars, H!ctx
    <2>3. Hashing(T)'
      BY <2>1, <2>2 DEF Hashing
    <2>4. Stages'
      BY <2>2 DEF Sha1IInv, Stages, Passed, KeyUsed, IsSeq
    <2> QED BY <2>3, <2>4 DEF Sha1IInv
  <1>2. ASSUME NEW k \in 0..MaxKey, NEW m \in 0..MaxMsg, H!SHA1_HMAC(k, m) PROVE Sha1IInv'
    <2>1. k \in Nat /\ m \in Nat
      BY DEF H!Sha1Assumption
    <2> QED BY <1>2, <2>1, SHA1_HMACKeeps
  <1> QED BY <1>1, <1>2, HashKeeps, HmacUpdateKeeps, HmacFinalKeeps DEF H!Next

\* The invariant of SHA1 and HMAC holds at first.
LEMMA Sha1Init ==
  ASSUME H!Sha1Assumption, H!Init
  PROVE  Sha1IInv
  <1>1. Hashing({H!Zero})
    BY FreshHashing
  <1>2. todo = <<>> /\ stage = "hash"
    BY DEF H!Init
  <1> QED BY <1>1, <1>2 DEF Sha1IInv, Stages

\* The invariant of SHA1 and HMAC holds of every sequence of calls.
THEOREM Sha1Invariance ==
  ASSUME H!Sha1Assumption
  PROVE  H!Spec => []Sha1IInv
  <1>1. H!Init => Sha1IInv
    BY Sha1Init
  <1>2. Sha1IInv /\ [H!Next]_(H!vars) => Sha1IInv'
    BY Sha1Step
  <1> QED BY <1>1, <1>2, PTL DEF H!Spec

\* For every size of block and of length field, and however a message was cut
\* into updates, SHA1_Final hashes the message as the standard pads it.
THEOREM DigestsAreHashes ==
  ASSUME H!Sha1Assumption
  PROVE  H!Spec => []H!DigestIsHash
  <1>1. Sha1IInv => H!DigestIsHash
    <2> SUFFICES ASSUME Sha1IInv, H!Between PROVE H!Finished = H!Hash(hashed)
      BY DEF H!DigestIsHash
    <2>1. PICK T : Hashing(T)
      BY DEF Sha1IInv
    <2> QED BY <2>1, FinishedIsHash DEF H!Between
  <1> QED BY <1>1, Sha1Invariance, PTL

\* For every length of key and message SHA1_HMAC gives RFC 2104's keyed hash.
THEOREM HmacsAreRight ==
  ASSUME H!Sha1Assumption
  PROVE  H!Spec => []H!HmacIsRight
  <1>1. Sha1IInv => H!HmacIsRight
    BY DEF Sha1IInv, Stages, H!HmacIsRight
  <1> QED BY <1>1, Sha1Invariance, PTL

-----------------------------------------------------------------------------
(* vkcprintf and ksnprintf: first what is written is a text.               *)

\* A set of numbers that is not empty has a first one.
LEMMA LeastOf ==
  ASSUME NEW S \in SUBSET Nat, S # {}
  PROVE  \E s \in S : \A t \in S : s <= t
  <1> DEFINE Less == OpToRel(<, Nat)
  <1>1. IsWellFoundedOn(Less, Nat)
    BY NatLessThanWellFounded, Zenon
  <1>2. \A t, s \in Nat : t < s => <<t, s>> \in Less
    BY DEF OpToRel
  <1> HIDE DEF Less
  <1>3. PICK s \in S : \A t \in S : ~(<<t, s>> \in Less)
    BY <1>1, WFMin, Zenon
  <1>4. \A t \in S : ~(t < s)
    BY <1>2, <1>3
  <1> QED BY <1>4

\* Characters: all of them, those the code names written out.
Glyphs ==
  STRING \cup Chars \cup {Format!NumberSet[i] : i \in 1..16} \cup {"z", "%", "-", "?", "0", " "}

Text == Seq(Glyphs)

\* One character is a text.
LEMMA OneGlyph ==
  ASSUME NEW S, NEW x \in S
  PROVE  <<x>> \in Seq(S) /\ Len(<<x>>) = 1
  OBVIOUS

\* One character many times is a text.
LEMMA ManyGlyphs ==
  ASSUME NEW S, NEW x \in S, NEW k \in Nat
  PROVE  [i \in 1..k |-> x] \in Seq(S) /\ Len([i \in 1..k |-> x]) = k
  OBVIOUS

\* The sequence of the digits of m, from the function for smaller numbers.
DigitsOf(base, str, m) ==
  IF m < base THEN <<Format!NumberSet[m + 1]>>
  ELSE <<Format!NumberSet[(m % base) + 1]>> \o str[m \div base]

\* str has the digits of the numbers up to n.
Table(base, n, str) == str = [m \in 0..n |-> DigitsOf(base, str, m)]

\* Without its last digit a number is smaller.
LEMMA DivisionShrinks ==
  ASSUME NEW base \in {8, 10, 16}, NEW m \in Nat, ~(m < base)
  PROVE  m \div base \in 0..m - 1
  <1>1. CASE base = 8
    BY <1>1
  <1>2. CASE base = 10
    BY <1>2
  <1>3. CASE base = 16
    BY <1>3
  <1> QED BY <1>1, <1>2, <1>3

\* The recursion of Digits defines a function.
LEMMA TableExists ==
  ASSUME NEW base \in {8, 10, 16}, NEW n \in Nat
  PROVE  \E str : Table(base, n, str)
  <1> DEFINE T == {m \in Nat : ~\E str : Table(base, m, str)}
  <1> SUFFICES ASSUME n \in T PROVE FALSE
    OBVIOUS
  <1>1. PICK m \in T : \A t \in T : m <= t
    <2>1. T \in SUBSET Nat /\ T # {}
      OBVIOUS
    <2> HIDE DEF T
    <2> QED BY <2>1, LeastOf
  <1>2. m \in Nat /\ ~\E str : Table(base, m, str)
    OBVIOUS
  <1>3. PICK g : m = 0 \/ Table(base, m - 1, g)
    <2>1. CASE m = 0
      BY <2>1
    <2>2. CASE m # 0
      <3>1. m - 1 \in Nat /\ ~(m <= m - 1)
        BY <1>2, <2>2
      <3> QED BY <1>1, <3>1
    <2> QED BY <2>1, <2>2
  <1> DEFINE d == [k \in 0..m |-> DigitsOf(base, g, k)]
  <1>4. \A k \in 0..m - 1 : d[k] = g[k]
    BY <1>2, <1>3 DEF Table
  <1>5. \A k \in 0..m : d[k] = DigitsOf(base, g, k)
    OBVIOUS
  <1>6. d = [k \in 0..m |-> d[k]]
    OBVIOUS
  <1> HIDE DEF d
  <1>7. ASSUME NEW k \in 0..m PROVE DigitsOf(base, g, k) = DigitsOf(base, d, k)
    <2>1. CASE k < base
      BY <2>1 DEF DigitsOf
    <2>2. CASE ~(k < base)
      <3>1. k \div base \in 0..m - 1
        BY <1>2, <2>2, DivisionShrinks
      <3> QED BY <1>4, <3>1 DEF DigitsOf
    <2> QED BY <2>1, <2>2
  <1>8. d = [k \in 0..m |-> DigitsOf(base, d, k)]
    BY <1>5, <1>6, <1>7
  <1> QED BY <1>2, <1>8 DEF Table

\* A digit's index is in the set of them.
LEMMA DigitIsText ==
  ASSUME NEW base \in {8, 10, 16}, NEW m \in Nat
  PROVE  /\ m < base => <<Format!NumberSet[m + 1]>> \in Text
         /\ <<Format!NumberSet[(m % base) + 1]>> \in Text
  <1>1. \A i \in 1..16 : Format!NumberSet[i] \in Glyphs
    BY DEF Glyphs
  <1>2. m % base \in 0..15
    <2>1. CASE base = 8
      BY <2>1
    <2>2. CASE base = 10
      BY <2>2
    <2>3. CASE base = 16
      BY <2>3
    <2> QED BY <2>1, <2>2, <2>3
  <1>3. \A x \in Glyphs : <<x>> \in Text
    BY OneGlyph DEF Text
  <1>4. m < base => m + 1 \in 1..16
    OBVIOUS
  <1>5. (m % base) + 1 \in 1..16
    BY <1>2
  <1> QED BY <1>1, <1>3, <1>4, <1>5

\* Digits are texts.
LEMMA TableIsText ==
  ASSUME NEW base \in {8, 10, 16}, NEW n \in Nat, NEW str, Table(base, n, str)
  PROVE  \A m \in 0..n : str[m] \in Text
  <1> DEFINE T == {m \in 0..n : str[m] \notin Text}
  <1> SUFFICES ASSUME T # {} PROVE FALSE
    OBVIOUS
  <1>1. PICK m \in T : \A t \in T : m <= t
    <2>1. T \in SUBSET Nat
      OBVIOUS
    <2> HIDE DEF T
    <2> QED BY <2>1, LeastOf
  <1>2. m \in 0..n /\ str[m] \notin Text
    OBVIOUS
  <1>3. str[m] = DigitsOf(base, str, m)
    BY <1>2 DEF Table
  <1>4. CASE m < base
    BY <1>2, <1>3, <1>4, DigitIsText DEF DigitsOf
  <1>5. CASE ~(m < base)
    <2>1. m \div base \in 0..m - 1
      BY <1>2, <1>5, DivisionShrinks
    <2>2. str[m \div base] \in Text
      BY <1>1, <1>2, <2>1
    <2>3. <<Format!NumberSet[(m % base) + 1]>> \in Text
      BY <1>2, DigitIsText
    <2>4. <<Format!NumberSet[(m % base) + 1]>> \o str[m \div base] \in Text
      BY <2>2, <2>3, ConcatProperties DEF Text
    <2> QED BY <1>2, <1>3, <1>5, <2>4 DEF DigitsOf
  <1> QED BY <1>4, <1>5

\* What the digits of a number are: a text.
LEMMA DigitsAreText ==
  ASSUME Format!KprintfAssumption, NEW base \in {8, 10, 16}, NEW n \in -Longs..Longs
  PROVE  Format!Digits(n, base) \in Text
  <1> DEFINE g == CHOOSE str : Table(base, Longs, str)
  <1>0. Longs \in Nat
    BY DEF Format!KprintfAssumption
  <1>1. Table(base, Longs, g)
    <2>1. \E str : Table(base, Longs, str)
      BY <1>0, TableExists
    <2> QED BY <2>1, Zenon
  <1>2. Format!Digits(n, base) = IF n >= 0 THEN g[n] ELSE [i \in 1..Len(g[-n]) |-> "?"]
    BY DEF Format!Digits, Table, DigitsOf
  <1> HIDE DEF g
  <1>3. \A m \in 0..Longs : g[m] \in Text
    BY <1>0, <1>1, TableIsText
  <1>4. CASE n >= 0
    <2>1. n \in 0..Longs
      BY <1>0, <1>4
    <2> QED BY <1>2, <1>3, <1>4, <2>1
  <1>5. CASE ~(n >= 0)
    <2>1. -n \in 0..Longs
      BY <1>0, <1>5
    <2>2. Len(g[-n]) \in Nat
      BY <1>3, <2>1 DEF Text
    <2>3. \A k \in Nat : [i \in 1..k |-> "?"] \in Text
      <3>1. "?" \in Glyphs
        BY DEF Glyphs
      <3> QED BY <3>1, ManyGlyphs DEF Text
    <2> QED BY <1>2, <1>5, <2>2, <2>3
  <1> QED BY <1>4, <1>5

\* Padding adds what the field lacks of its width.
LEMMA PaddedIsText ==
  ASSUME NEW s \in Text, NEW t \in Glyphs, NEW width \in Int, NEW right
  PROVE  /\ Format!Padded(s, t, width, right) \in Text
         /\ Len(Format!Padded(s, t, width, right)) = IF width > Len(s) THEN width ELSE Len(s)
  <1> DEFINE l == Len(s)
             n == width - l
             k == IF n > 0 THEN n ELSE 0
             p == Format!Pad(t, n)
  <1>1. l \in Nat
    BY DEF Text
  <1>2. t \in Glyphs
    OBVIOUS
  <1>3. p = [i \in 1..k |-> t]
    BY DEF Format!Pad
  <1>4. Format!Padded(s, t, width, right) = IF right THEN s \o p ELSE p \o s
    BY DEF Format!Padded
  <1> HIDE DEF p, l
  <1>5. k \in Nat /\ l + k = (IF width > l THEN width ELSE l)
    BY <1>1
  <1> HIDE DEF k
  <1>6. p \in Text /\ Len(p) = k
    BY <1>2, <1>3, <1>5, ManyGlyphs DEF Text
  <1>7. /\ s \o p \in Text /\ p \o s \in Text
        /\ Len(s \o p) = l + k /\ Len(p \o s) = k + l
    BY <1>6, ConcatProperties DEF Text, l
  <1>8. k + l = l + k
    BY <1>1, <1>5
  <1> QED BY <1>4, <1>5, <1>7, <1>8 DEF l

\* The digits turned round are a text.
LEMMA ReverseIsText ==
  ASSUME NEW s \in Text
  PROVE  Format!Reverse(s) \in Text
  <1>1. Len(s) \in Nat /\ \A i \in 1..Len(s) : s[i] \in Glyphs
    BY DEF Text
  <1>2. \A i \in 1..Len(s) : s[(Len(s) - i) + 1] \in Glyphs
    BY <1>1
  <1>3. Format!Reverse(s) = [i \in 1..Len(s) |-> s[(Len(s) - i) + 1]]
    BY DEF Format!Reverse
  <1>4. Format!Reverse(s) \in [1..Len(s) -> Glyphs]
    BY <1>2, <1>3
  <1> QED BY <1>1, <1>4 DEF Text

\* The field of an unsigned number.
LEMMA UnumIsText ==
  ASSUME Format!KprintfAssumption, NEW base \in {8, 10, 16}, NEW n \in -Longs..Longs,
         NEW width \in Int, NEW zero, NEW right
  PROVE  Format!print_unum(n, base, width, zero, right) \in Text
  <1> DEFINE d == Format!Reverse(Format!Digits(n, base))
             t == IF zero THEN "0" ELSE " "
  <1>1. d \in Text
    BY DigitsAreText, ReverseIsText
  <1>2. t \in Glyphs
    BY Zenon DEF Glyphs
  <1>3. Format!print_unum(n, base, width, zero, right) = Format!Padded(d, t, width, right)
    BY DEF Format!print_unum
  <1> HIDE DEF d, t
  <1> QED BY <1>1, <1>2, <1>3, PaddedIsText

\* The field of a signed number.
LEMMA NumIsText ==
  ASSUME Format!KprintfAssumption, NEW base \in {8, 10, 16}, NEW n \in -Longs..Longs,
         NEW width \in Int, NEW zero, NEW right
  PROVE  Format!print_num(n, base, width, zero, right) \in Text
  <1> DEFINE m == IF n < 0 /\ n # -(Longs \div 2) THEN -n ELSE n
             sign == IF n < 0 THEN <<"-">> ELSE <<>>
             d == Format!Reverse(Format!Digits(m, base))
             t == IF zero THEN "0" ELSE " "
  <1>0. Longs \in Nat
    BY DEF Format!KprintfAssumption
  <1>1. m \in -Longs..Longs
    BY <1>0
  <1>2. sign \in Text
    <2>1. "-" \in Glyphs
      BY DEF Glyphs
    <2>2. <<"-">> \in Text /\ <<>> \in Text
      BY <2>1, OneGlyph, EmptySeq DEF Text
    <2> QED BY <2>2
  <1>3. t \in Glyphs
    BY Zenon DEF Glyphs
  <1>4. Format!print_num(n, base, width, zero, right) = Format!Padded(sign \o d, t, width, right)
    BY DEF Format!print_num
  <1> HIDE DEF m
  <1>5. d \in Text
    BY <1>1, DigitsAreText, ReverseIsText
  <1> HIDE DEF d, t, sign
  <1>6. sign \o d \in Text
    BY <1>2, <1>5, ConcatProperties DEF Text
  <1> QED BY <1>3, <1>4, <1>6, PaddedIsText

\* The numbers that conversions write are in the range of Digits.
LEMMA NumbersFit ==
  ASSUME Format!KprintfAssumption, NEW v \in Args
  PROVE  /\ v \in -Longs..Longs /\ v % Ints \in -Longs..Longs
         /\ Format!Signed(v, Longs) \in -Longs..Longs
         /\ Format!Signed(v % Ints, Ints) \in -Longs..Longs
  <1>1. Ints \in Nat \ {0} /\ Longs \in Nat /\ Ints < Longs /\ v \in 0..Longs - 1
    BY DEF Format!KprintfAssumption
  <1>2. v % Ints \in 0..Ints - 1
    BY <1>1, SMT
  <1> DEFINE w == v % Ints
  <1> HIDE DEF w
  <1>3. \A n \in {Ints, Longs} : \A x \in 0..n - 1 : Format!Signed(x, n) \in -Longs..Longs
    BY <1>1 DEF Format!Signed
  <1>4. w \in 0..Ints - 1
    BY <1>2 DEF w
  <1>5. w \in -Longs..Longs /\ v \in -Longs..Longs
    BY <1>1, <1>4
  <1> QED BY <1>1, <1>3, <1>4, <1>5 DEF w

-----------------------------------------------------------------------------
(* The invariant of vkcprintf and ksnprintf.                               *)

\* What is written are texts, and widths are numbers.
WriterTypes ==
  /\ out \in Text /\ buf \in Text
  /\ size \in Nat /\ Format!Signed(size % Ints, Ints) = size
  /\ prefix \in Nat /\ precision \in Int

WriterIInv == WriterTypes /\ Format!BufferIsPrefix

\* The beginning of a text, up to n characters.
LEMMA BeginningOf ==
  ASSUME NEW S, NEW s \in Seq(S), NEW n \in Nat, n <= Len(s)
  PROVE  /\ SubSeq(s, 1, n) \in Seq(S) /\ Len(SubSeq(s, 1, n)) = n
         /\ \A i \in 1..n : SubSeq(s, 1, n)[i] = s[i]
  <1>1. Len(s) \in Nat /\ \A i \in 1..n : s[i] \in S
    OBVIOUS
  <1>2. /\ SubSeq(s, 1, n) \in Seq(S)
        /\ Len(SubSeq(s, 1, n)) = IF 1 <= n THEN n - 1 + 1 ELSE 0
        /\ \A i \in 1..n - 1 + 1 : SubSeq(s, 1, n)[i] = s[1 + i - 1]
    BY <1>1, SubSeqProperties
  <1> QED BY <1>2

\* The space that is left, counted in characters.
LEMMA RoomLeft ==
  ASSUME NEW lo \in Nat, NEW ls \in Nat, NEW room \in Nat,
         NEW m, m = IF lo < room THEN lo ELSE room,
         NEW k, k = IF ls < room - m THEN ls ELSE room - m,
         NEW n, n = IF lo + ls < room THEN lo + ls ELSE room
  PROVE  /\ m \in Nat /\ k \in Nat /\ n \in Nat
         /\ m <= lo /\ k <= ls /\ n <= lo + ls
         /\ m + k = n /\ (k > 0 => m = lo)
  OBVIOUS

\* What of a text has room in n characters.
Fitting(s, n) == SubSeq(s, 1, IF Len(s) < n THEN Len(s) ELSE n)

\* sn_write's buffer: what was there, and of s what still has room.
LEMMA BufferGrows ==
  ASSUME NEW S, NEW o \in Seq(S), NEW s \in Seq(S), NEW room \in Nat
  PROVE  LET b == Fitting(o, room)
         IN /\ b \o Fitting(s, room - Len(b)) = Fitting(o \o s, room)
            /\ b \o Fitting(s, room - Len(b)) \in Seq(S)
  <1> DEFINE b == Fitting(o, room)
             lo == Len(o)
             ls == Len(s)
             m == IF lo < room THEN lo ELSE room
             space == room - Len(b)
             k == IF ls < space THEN ls ELSE space
             t == o \o s
             n == IF Len(t) < room THEN Len(t) ELSE room
             p == SubSeq(s, 1, k)
  <1>1. lo \in Nat /\ ls \in Nat
    OBVIOUS
  <1>2. t \in Seq(S) /\ Len(t) = lo + ls
        /\ \A i \in 1..lo + ls : t[i] = IF i <= lo THEN o[i] ELSE s[i - lo]
    BY ConcatProperties
  <1> HIDE DEF t, lo, ls
  <1>3. m \in Nat /\ m <= lo /\ b = SubSeq(o, 1, m)
    BY <1>1 DEF lo, Fitting
  <1> HIDE DEF m, b
  <1>4. b \in Seq(S) /\ Len(b) = m /\ \A i \in 1..m : b[i] = o[i]
    BY <1>3, BeginningOf DEF lo
  <1>5. k \in Nat /\ k <= ls /\ n \in Nat /\ n <= lo + ls /\ m + k = n /\ (k > 0 => m = lo)
    <2>1. /\ m = IF lo < room THEN lo ELSE room
          /\ k = IF ls < room - m THEN ls ELSE room - m
          /\ n = IF lo + ls < room THEN lo + ls ELSE room
      BY <1>2, <1>4 DEF m
    <2> HIDE DEF k, n
    <2> QED BY <1>1, <2>1, RoomLeft
  <1> HIDE DEF k, n
  <1>6. p \in Seq(S) /\ Len(p) = k /\ \A i \in 1..k : p[i] = s[i]
    BY <1>5, BeginningOf DEF ls
  <1> HIDE DEF p
  <1>7. /\ b \o p \in Seq(S) /\ Len(b \o p) = m + k
        /\ \A i \in 1..m + k : (b \o p)[i] = IF i <= m THEN b[i] ELSE p[i - m]
    <2>1. /\ b \o p \in Seq(S) /\ Len(b \o p) = Len(b) + Len(p)
          /\ \A i \in 1..Len(b) + Len(p) : (b \o p)[i] = IF i <= Len(b) THEN b[i] ELSE p[i - Len(b)]
      <3>1. b \in Seq(S) /\ p \in Seq(S)
        BY <1>4, <1>6
      <3> QED BY <3>1, ConcatProperties
    <2>2. Len(b) = m /\ Len(p) = k
      BY <1>4, <1>6
    <2> QED BY <2>1, <2>2
  <1>8. /\ SubSeq(t, 1, n) \in Seq(S) /\ Len(SubSeq(t, 1, n)) = n
        /\ \A i \in 1..n : SubSeq(t, 1, n)[i] = t[i]
    BY <1>2, <1>5, BeginningOf
  <1>9. ASSUME NEW i \in 1..n PROVE (b \o p)[i] = SubSeq(t, 1, n)[i]
    <2>1. SubSeq(t, 1, n)[i] = IF i <= lo THEN o[i] ELSE s[i - lo]
      BY <1>1, <1>2, <1>5, <1>8
    <2>2. CASE i <= m
      <3>1. i <= lo /\ i \in 1..m /\ i \in 1..m + k
        BY <1>1, <1>3, <1>5, <2>2
      <3> QED BY <1>4, <1>7, <2>1, <2>2, <3>1
    <2>3. CASE ~(i <= m)
      <3>1. k > 0 /\ m = lo /\ i - m \in 1..k /\ i \in 1..m + k
        BY <1>1, <1>3, <1>5, <2>3
      <3> QED BY <1>6, <1>7, <2>1, <2>3, <3>1
    <2> QED BY <2>2, <2>3
  <1>10. b \o p = SubSeq(t, 1, n)
    BY <1>5, <1>7, <1>8, <1>9, SeqEqual
  <1> QED BY <1>7, <1>10 DEF b, p, t, k, n, ls, Fitting

\* Writing a text and counting its characters.
LEMMA WriteKeeps ==
  ASSUME WriterIInv, NEW s \in Text, NEW n, n = Len(s), Format!WRITE(s, n), size' = size
  PROVE  out' \in Text /\ buf' \in Text /\ Format!BufferIsPrefix'
  <1>1. out' = out \o s /\ rc' = rc + n /\ buf' = buf \o Fitting(s, size - Len(buf))
    BY DEF WriterIInv, WriterTypes, Format!WRITE, Format!sn_write, Fitting
  <1>2. out \in Text /\ size \in Nat /\ rc = Len(out) /\ buf = Fitting(out, size)
    BY DEF WriterIInv, WriterTypes, Format!BufferIsPrefix, Fitting
  <1>3. out \o s \in Text /\ Len(out \o s) = Len(out) + Len(s)
    BY <1>2, ConcatProperties DEF Text
  <1>4. buf' = Fitting(out \o s, size) /\ buf' \in Text
    <2>1. out \in Seq(Glyphs) /\ s \in Seq(Glyphs)
      BY <1>2 DEF Text
    <2> DEFINE b == Fitting(out, size)
    <2>2. /\ b \o Fitting(s, size - Len(b)) = Fitting(out \o s, size)
          /\ b \o Fitting(s, size - Len(b)) \in Seq(Glyphs)
      BY <1>2, <2>1, BufferGrows
    <2> HIDE DEF b
    <2>3. buf = b
      BY <1>2 DEF b
    <2> QED BY <1>1, <2>2, <2>3 DEF Text
  <1>5. rc' = Len(out \o s)
    BY <1>1, <1>2, <1>3
  <1> QED BY <1>1, <1>3, <1>4, <1>5 DEF Format!BufferIsPrefix, Fitting

\* A conversion whose field is a text of the length that is counted.
LEMMA ConvertKeeps ==
  ASSUME WriterIInv, NEW c, NEW asserts, NEW arg, NEW s \in Text, NEW n, n = Len(s),
         Format!Convert(c, asserts, arg, s, n)
  PROVE  WriterIInv'
  <1>1. size' = size
    BY DEF Format!Convert
  <1>2. CASE Format!WRITE(s, n) /\ Format!Reset
    <2>1. prefix' = 0 /\ precision' = -1
      BY <1>2 DEF Format!Reset
    <2>2. out' \in Text /\ buf' \in Text /\ Format!BufferIsPrefix'
      BY <1>1, <1>2, WriteKeeps
    <2> QED BY <1>1, <2>1, <2>2 DEF WriterIInv, WriterTypes
  <1>3. CASE UNCHANGED <<Format!opts, Format!sinks>>
    <2>1. UNCHANGED <<prefix, precision, rc, out, buf>>
      BY <1>3 DEF Format!opts, Format!sinks
    <2> QED BY <1>1, <2>1 DEF WriterIInv, WriterTypes, Format!BufferIsPrefix
  <1>4. (Format!WRITE(s, n) /\ Format!Reset) \/ UNCHANGED <<Format!opts, Format!sinks>>
    BY DEF Format!Convert
  <1> QED BY <1>2, <1>3, <1>4

\* A step that writes nothing.
LEMMA SilentKeeps ==
  ASSUME WriterIInv, UNCHANGED <<Format!sinks, size>>, prefix' \in Nat, precision' \in Int
  PROVE  WriterIInv'
  <1>1. UNCHANGED <<rc, out, buf, size>>
    BY DEF Format!sinks
  <1> QED BY <1>1 DEF WriterIInv, WriterTypes, Format!BufferIsPrefix

\* The value of a digit.
LEMMA ValueIsNumber ==
  ASSUME NEW c \in Format!DigitChars
  PROVE  Format!Value(c) \in 0..15
  <1>1. \E i \in 1..10 : Format!NumberSet[i] = c
    BY Zenon DEF Format!DigitChars, Format!DigitsIn
  <1>2. PICK i \in 1..10 : Format!NumberSet[i] = c
    BY <1>1
  <1>3. i - 1 \in 0..15 /\ (i - 1) + 1 = i
    OBVIOUS
  <1>4. \E j \in 0..15 : Format!NumberSet[j + 1] = c
    BY <1>2, <1>3
  <1>5. (CHOOSE j \in 0..15 : Format!NumberSet[j + 1] = c) \in 0..15
    BY <1>4, Zenon
  <1> QED BY <1>5, Zenon DEF Format!Value

\* Plain characters.
LEMMA PlainKeeps ==
  ASSUME WriterIInv, NEW c \in Chars, Format!Plain(c)
  PROVE  WriterIInv'
  <1>1. c \in Glyphs
    BY Zenon DEF Glyphs
  <1>2. <<c>> \in Text /\ 1 = Len(<<c>>)
    BY <1>1, OneGlyph DEF Text
  <1>3. Format!WRITE(<<c>>, 1) /\ UNCHANGED <<Format!opts, size>>
    BY Zenon DEF Format!Plain
  <1>4. UNCHANGED <<prefix, precision, size>>
    BY <1>3 DEF Format!opts
  <1>5. out' \in Text /\ buf' \in Text /\ Format!BufferIsPrefix'
    BY <1>2, <1>3, <1>4, WriteKeeps
  <1> QED BY <1>4, <1>5 DEF WriterIInv, WriterTypes

\* The directives' options.
LEMMA OptionsKeep ==
  ASSUME WriterIInv, NEW c \in Chars,
         \/ Format!Percent(c) \/ Format!Digit(c) \/ Format!Minus(c) \/ Format!Long(c)
         \/ Format!Dot(c) \/ Format!parse_precision(c) \/ Format!Star(c) \/ Format!Unsupported(c)
  PROVE  WriterIInv'
  <1>0. prefix \in Nat /\ precision \in Int
    BY DEF WriterIInv, WriterTypes
  <1>1. CASE Format!Percent(c) \/ Format!Unsupported(c)
    <2>1. UNCHANGED <<Format!opts, Format!sinks, size>>
      BY <1>1, Zenon DEF Format!Percent, Format!Unsupported
    <2>2. UNCHANGED <<prefix, precision>>
      BY <2>1 DEF Format!opts
    <2> QED BY <1>0, <2>1, <2>2, SilentKeeps
  <1>2. CASE Format!Digit(c)
    <2>1. /\ UNCHANGED <<Format!sinks, size, precision>> /\ prefix' = 10 * prefix + Format!Value(c)
          /\ c \in Format!DigitChars
      BY <1>2, Zenon DEF Format!Digit, Format!Option
    <2>2. Format!Value(c) \in 0..15
      BY <2>1, ValueIsNumber
    <2>3. prefix' \in Nat
      BY <1>0, <2>1, <2>2
    <2> QED BY <1>0, <2>1, <2>3, SilentKeeps
  <1>3. CASE Format!Minus(c)
    <2>1. UNCHANGED <<Format!sinks, size, prefix, precision>>
      BY <1>3, Zenon DEF Format!Minus, Format!Option
    <2> QED BY <1>0, <2>1, SilentKeeps
  <1>4. CASE Format!Long(c)
    <2>1. UNCHANGED <<Format!sinks, size, Format!opts>>
      BY <1>4, Zenon DEF Format!Long, Format!Option
    <2>2. UNCHANGED <<prefix, precision>>
      BY <2>1 DEF Format!opts
    <2> QED BY <1>0, <2>1, <2>2, SilentKeeps
  <1>5. CASE Format!Dot(c)
    <2>1. UNCHANGED <<Format!sinks, size, prefix>> /\ precision' = 0
      BY <1>5, Zenon DEF Format!Dot, Format!Option
    <2> QED BY <1>0, <2>1, SilentKeeps
  <1>6. CASE Format!parse_precision(c)
    <2>1. /\ UNCHANGED <<Format!sinks, size, prefix>>
          /\ precision' = 10 * precision + Format!Value(c) /\ c \in Format!DigitChars
      BY <1>6, Zenon DEF Format!parse_precision, Format!Option
    <2>2. Format!Value(c) \in 0..15
      BY <2>1, ValueIsNumber
    <2>3. precision' \in Int
      BY <1>0, <2>1, <2>2
    <2> QED BY <1>0, <2>1, <2>3, SilentKeeps
  <1>7. CASE Format!Star(c)
    <2>1. PICK n \in -1..1 :
            /\ UNCHANGED <<Format!sinks, size>>
            /\ \/ precision' = n /\ UNCHANGED prefix
               \/ UNCHANGED Format!opts
      BY <1>7, Zenon DEF Format!Star, Format!Option
    <2>2. prefix' = prefix /\ (precision' = n \/ precision' = precision)
      BY <2>1 DEF Format!opts
    <2>3. precision' \in Int
      BY <1>0, <2>2
    <2> QED BY <1>0, <2>1, <2>2, <2>3, SilentKeeps
  <1> QED BY <1>1, <1>2, <1>3, <1>4, <1>5, <1>6, <1>7

\* The conversions of numbers.
LEMMA NumbersKeep ==
  ASSUME Format!KprintfAssumption, WriterIInv, NEW c, NEW v \in Args,
         Format!Decimal(c, v) \/ Format!Unsigned(c, v) \/ Format!HexOrOctal(c, v)
  PROVE  WriterIInv'
  <1>0. prefix \in Int /\ precision \in Int
    BY DEF WriterIInv, WriterTypes
  <1>1. CASE Format!Decimal(c, v)
    <2> DEFINE n == IF long_level > 0 THEN Format!Signed(v, Longs) ELSE Format!Signed(v % Ints, Ints)
               s == IF precision # -1 THEN Format!print_num(n, 10, precision, TRUE, FALSE)
                    ELSE Format!print_num(n, 10, prefix, zero_padding, right_padding)
    <2>1. n \in -Longs..Longs
      BY NumbersFit
    <2>2. Format!Convert(c, TRUE, v, s, Len(s))
      BY <1>1, Zenon DEF Format!Decimal
    <2> HIDE DEF n
    <2>3. s \in Text
      BY <1>0, <2>1, NumIsText
    <2> HIDE DEF s
    <2> QED BY <2>2, <2>3, ConvertKeeps
  <1>2. CASE Format!Unsigned(c, v)
    <2> DEFINE n == IF long_level > 0 THEN Format!Signed(v, Longs) ELSE v % Ints
               s == Format!print_num(n, 10, prefix, zero_padding, right_padding)
    <2>1. n \in -Longs..Longs
      BY NumbersFit
    <2>2. Format!Convert(c, precision = -1, v, s, Len(s))
      BY <1>2, Zenon DEF Format!Unsigned
    <2> HIDE DEF n
    <2>3. s \in Text
      BY <1>0, <2>1, NumIsText
    <2> HIDE DEF s
    <2> QED BY <2>2, <2>3, ConvertKeeps
  <1>3. CASE Format!HexOrOctal(c, v)
    <2> DEFINE x == Format!print_unum(v, 16, prefix, zero_padding, right_padding)
               o == Format!print_num(v % Ints, 8, prefix, zero_padding, right_padding)
               s == IF c = "x" THEN x ELSE o
    <2>1. v \in -Longs..Longs /\ v % Ints \in -Longs..Longs
      BY NumbersFit
    <2>2. Format!Convert(c, precision = -1, v, s, Len(s))
      BY <1>3, Zenon DEF Format!HexOrOctal
    <2>3. x \in Text /\ o \in Text
      BY <1>0, <2>1, NumIsText, UnumIsText
    <2> HIDE DEF x, o
    <2>4. s \in Text
      BY <2>3
    <2> HIDE DEF s
    <2> QED BY <2>2, <2>4, ConvertKeeps
  <1> QED BY <1>1, <1>2, <1>3

\* A string: what is counted is what is left of it and the padding.
LEMMA StringKeeps ==
  ASSUME Format!KprintfAssumption, WriterIInv, NEW c, NEW a \in Strings, Format!String(c, a)
  PROVE  WriterIInv'
  <1> DEFINE k == IF 0 <= precision /\ precision < Len(a) THEN precision ELSE Len(a)
             cut == SubSeq(a, 1, k)
             blank == " "
             field == Format!Padded(cut, blank, prefix, right_padding)
             asserts == ~zero_padding /\ (precision = -1 \/ (prefix = 0 /\ ~right_padding))
  <1>0. prefix \in Nat /\ precision \in Int
    BY DEF WriterIInv, WriterTypes
  <1>1. Format!Convert(c, asserts, a, field, Format!StringCount(cut, prefix))
    BY Zenon DEF Format!String
  <1>2. blank \in Glyphs
    BY Zenon DEF Glyphs
  <1> HIDE DEF blank
  <1>3. a \in Seq(Glyphs)
    <2>1. a \in Seq(STRING)
      BY DEF Format!KprintfAssumption
    <2>2. STRING \subseteq Glyphs
      BY Zenon DEF Glyphs
    <2> QED BY <2>1, <2>2, SeqMonotonic
  <1>4. k \in Nat /\ k <= Len(a)
    <2>1. Len(a) \in Nat
      BY <1>3
    <2> QED BY <1>0, <2>1
  <1> HIDE DEF k
  <1>5. cut \in Text /\ Len(cut) \in Nat
    <2>1. cut \in Seq(Glyphs)
      BY <1>3, <1>4, BeginningOf
    <2> QED BY <2>1 DEF Text
  <1> HIDE DEF cut
  <1>6. field \in Text /\ Len(field) = IF prefix > Len(cut) THEN prefix ELSE Len(cut)
    <2>1. prefix \in Int
      BY <1>0
    <2> QED BY <1>2, <1>5, <2>1, PaddedIsText
  <1> HIDE DEF field, asserts
  <1>7. Format!StringCount(cut, prefix) = Len(field)
    BY <1>0, <1>5, <1>6 DEF Format!StringCount
  <1> QED BY <1>1, <1>6, <1>7, ConvertKeeps

\* A single character.
LEMMA CharacterKeeps ==
  ASSUME WriterIInv, NEW c, Format!Character(c)
  PROVE  WriterIInv'
  <1> DEFINE x == IF c = "%" THEN "%" ELSE "z"
             s == <<x>>
  <1>1. x \in Glyphs
    BY Zenon DEF Glyphs
  <1>2. (IF c = "%" THEN <<"%">> ELSE <<"z">>) = s
    OBVIOUS
  <1>3. Format!Convert(c, TRUE, 0, IF c = "%" THEN <<"%">> ELSE <<"z">>, 1)
    BY Zenon DEF Format!Character
  <1>4. Format!Convert(c, TRUE, 0, s, 1)
    BY <1>2, <1>3
  <1> HIDE DEF x
  <1>5. s \in Text /\ 1 = Len(s)
    BY <1>1, OneGlyph DEF Text
  <1> HIDE DEF s
  <1> QED BY <1>4, <1>5, ConvertKeeps

\* Every step keeps the invariant.
LEMMA WriterStepIInv ==
  ASSUME Format!KprintfAssumption
  PROVE  WriterIInv /\ [Format!Next]_(Format!vars) => WriterIInv'
  <1> SUFFICES ASSUME WriterIInv, [Format!Next]_(Format!vars) PROVE WriterIInv'
    OBVIOUS
  <1>0. prefix \in Nat /\ precision \in Int
    BY DEF WriterIInv, WriterTypes
  <1>1. CASE UNCHANGED Format!vars
    <2>1. UNCHANGED <<Format!sinks, size, prefix, precision>>
      BY <1>1 DEF Format!vars, Format!opts
    <2> QED BY <1>0, <2>1, SilentKeeps
  <1>2. CASE Format!End
    <2>1. UNCHANGED <<Format!sinks, size, Format!opts>>
      BY <1>2, Zenon DEF Format!End
    <2>2. UNCHANGED <<prefix, precision>>
      BY <2>1 DEF Format!opts
    <2> QED BY <1>0, <2>1, <2>2, SilentKeeps
  <1>3. ASSUME NEW c \in Chars, Format!Plain(c) PROVE WriterIInv'
    BY <1>3, PlainKeeps
  <1>4. ASSUME NEW c \in Chars, Format!Character(c) PROVE WriterIInv'
    BY <1>4, CharacterKeeps
  <1>5. ASSUME NEW c \in Chars, NEW v \in Args,
               Format!Decimal(c, v) \/ Format!Unsigned(c, v) \/ Format!HexOrOctal(c, v)
        PROVE  WriterIInv'
    BY <1>5, NumbersKeep
  <1>6. ASSUME NEW c \in Chars, NEW a \in Strings, Format!String(c, a) PROVE WriterIInv'
    BY <1>6, StringKeeps
  <1>7. ASSUME NEW c \in Chars,
               \/ Format!Percent(c) \/ Format!Digit(c) \/ Format!Minus(c) \/ Format!Long(c)
               \/ Format!Dot(c) \/ Format!parse_precision(c) \/ Format!Star(c)
               \/ Format!Unsupported(c)
        PROVE  WriterIInv'
    BY <1>7, OptionsKeep
  <1> QED BY <1>1, <1>2, <1>3, <1>4, <1>5, <1>6, <1>7, Zenon DEF Format!Next

\* Nothing is written at first.
LEMMA WriterInit ==
  ASSUME Format!KprintfAssumption, Format!Init
  PROVE  WriterIInv
  <1>1. prefix = 0 /\ precision = -1 /\ rc = 0 /\ out = <<>> /\ buf = <<>> /\ size \in Nat
    BY DEF Format!Init, Format!KprintfAssumption
  <1>2. <<>> \in Text /\ Len(<<>>) = 0
    BY EmptySeq DEF Text
  <1>3. SubSeq(<<>>, 1, IF 0 < size THEN 0 ELSE size) = <<>>
    <2>1. (IF 0 < size THEN 0 ELSE size) = 0
      BY <1>1
    <2>2. SubSeq(<<>>, 1, 0) = <<>>
      BY SubSeqEmpty
    <2> QED BY <2>1, <2>2
  <1>4. Format!Signed(size % Ints, Ints) = size
    <2>1. size \in Nat /\ Ints \in Nat \ {0} /\ size < Ints \div 2 /\ Ints \div 2 <= Ints
      BY DEF Format!Init, Format!KprintfAssumption
    <2>2. size % Ints = size
      BY <2>1
    <2> QED BY <2>1, <2>2 DEF Format!Signed
  <1> QED BY <1>1, <1>2, <1>3, <1>4 DEF WriterIInv, WriterTypes, Format!BufferIsPrefix

\* For every format, arguments and buffer size that an int holds vkcprintf returns the number of
\* characters it wrote, padding included, and ksnprintf's buffer has as many
\* of the first of them as it has room for, and never more.
THEOREM BufferIsBeginning ==
  ASSUME Format!KprintfAssumption
  PROVE  Format!Spec => []Format!BufferIsPrefix
  <1>1. Format!Init => WriterIInv
    BY WriterInit
  <1>2. WriterIInv /\ [Format!Next]_(Format!vars) => WriterIInv'
    BY WriterStepIInv
  <1>3. WriterIInv => Format!BufferIsPrefix
    BY DEF WriterIInv
  <1> QED BY <1>1, <1>2, <1>3, PTL DEF Format!Spec

-----------------------------------------------------------------------------
(* The options of a directive.  First the number some of its digits are.   *)

\* The number up to digit k, from the function for fewer digits.
NumberAt(t, base, i, n, k) ==
  IF k < i THEN 0
  ELSE IF t[k] \in Format!DigitsIn(base) THEN base * n[k - 1] + Format!Value(t[k]) ELSE n[k - 1]

\* n has the numbers up to each of the first j characters.
Numbers(t, base, i, j, n) == n = [k \in 0..j |-> NumberAt(t, base, i, n, k)]

\* The recursion of Number defines a function.
LEMMA NumbersExist ==
  ASSUME NEW t, NEW base, NEW i \in Nat \ {0}, NEW j \in Nat
  PROVE  \E n : Numbers(t, base, i, j, n)
  <1> DEFINE T == {m \in Nat : ~\E n : Numbers(t, base, i, m, n)}
  <1> SUFFICES ASSUME j \in T PROVE FALSE
    OBVIOUS
  <1>1. PICK m \in T : \A x \in T : m <= x
    <2>1. T \in SUBSET Nat /\ T # {}
      OBVIOUS
    <2> HIDE DEF T
    <2> QED BY <2>1, LeastOf
  <1>2. m \in Nat /\ ~\E n : Numbers(t, base, i, m, n)
    OBVIOUS
  <1>3. PICK g : m = 0 \/ Numbers(t, base, i, m - 1, g)
    <2>1. CASE m = 0
      BY <2>1
    <2>2. CASE m # 0
      <3>1. m - 1 \in Nat /\ ~(m <= m - 1)
        BY <1>2, <2>2
      <3> QED BY <1>1, <3>1
    <2> QED BY <2>1, <2>2
  <1> DEFINE d == [k \in 0..m |-> NumberAt(t, base, i, g, k)]
  <1>4. \A k \in 0..m - 1 : d[k] = g[k]
    BY <1>2, <1>3 DEF Numbers
  <1>5. \A k \in 0..m : d[k] = NumberAt(t, base, i, g, k)
    OBVIOUS
  <1>6. d = [k \in 0..m |-> d[k]]
    OBVIOUS
  <1> HIDE DEF d
  <1>7. ASSUME NEW k \in 0..m PROVE NumberAt(t, base, i, g, k) = NumberAt(t, base, i, d, k)
    <2>1. CASE k < i
      BY <2>1 DEF NumberAt
    <2>2. CASE ~(k < i)
      <3>1. k - 1 \in 0..m - 1
        BY <1>2, <2>2
      <3> QED BY <1>4, <2>2, <3>1 DEF NumberAt
    <2> QED BY <2>1, <2>2
  <1>8. d = [k \in 0..m |-> NumberAt(t, base, i, d, k)]
    BY <1>5, <1>6, <1>7
  <1> QED BY <1>2, <1>8 DEF Numbers

\* Number is the last of them.
LEMMA NumberIsLast ==
  ASSUME NEW t, NEW base, NEW i \in Nat \ {0}, NEW j \in Nat
  PROVE  \E n : Numbers(t, base, i, j, n) /\ Format!Number(t, base, i, j) = n[j]
  <1> DEFINE g == CHOOSE n : Numbers(t, base, i, j, n)
  <1>1. Numbers(t, base, i, j, g)
    <2>1. \E n : Numbers(t, base, i, j, n)
      BY NumbersExist
    <2> QED BY <2>1, Zenon
  <1>2. Format!Number(t, base, i, j) = g[j]
    BY DEF Format!Number, Numbers, NumberAt
  <1> QED BY <1>1, <1>2

\* Every one of them is as the recursion says.
LEMMA NumbersAre ==
  ASSUME NEW t, NEW base, NEW i, NEW j, NEW n, Numbers(t, base, i, j, n), NEW k \in 0..j
  PROVE  n[k] = NumberAt(t, base, i, n, k)
  <1> DEFINE f == [x \in 0..j |-> NumberAt(t, base, i, n, x)]
  <1>1. f[k] = NumberAt(t, base, i, n, k)
    OBVIOUS
  <1>2. n = f
    BY DEF Numbers
  <1> HIDE DEF f
  <1> QED BY <1>1, <1>2

\* Two texts begin with the same m characters.
SameUpTo(t, u, m) == \A k \in 1..m : t[k] = u[k]

\* The number up to m depends on the first m characters.
LEMMA NumbersAgree ==
  ASSUME NEW t, NEW u, NEW base, NEW i \in Nat \ {0}, NEW j \in Nat, NEW l \in Nat, NEW m \in Nat,
         m <= j, m <= l, SameUpTo(t, u, m),
         NEW n, Numbers(t, base, i, j, n), NEW o, Numbers(u, base, i, l, o)
  PROVE  n[m] = o[m]
  <1> DEFINE T == {k \in 0..m : n[k] # o[k]}
  <1> SUFFICES ASSUME T # {} PROVE FALSE
    OBVIOUS
  <1>1. PICK x \in T : \A y \in T : x <= y
    <2>1. T \in SUBSET Nat
      OBVIOUS
    <2> HIDE DEF T
    <2> QED BY <2>1, LeastOf
  <1>2. x \in 0..m /\ n[x] # o[x]
    OBVIOUS
  <1>3. n[x] = NumberAt(t, base, i, n, x) /\ o[x] = NumberAt(u, base, i, o, x)
    <2>1. x \in 0..j /\ x \in 0..l
      BY <1>2
    <2> QED BY <2>1, NumbersAre
  <1>4. CASE x < i
    BY <1>2, <1>3, <1>4 DEF NumberAt
  <1>5. CASE ~(x < i)
    <2>1. x - 1 \in 0..m /\ ~(x <= x - 1) /\ x \in 1..m
      BY <1>2, <1>5
    <2>2. n[x - 1] = o[x - 1] /\ t[x] = u[x]
      BY <1>1, <2>1 DEF SameUpTo
    <2> QED BY <1>2, <1>3, <1>5, <2>2 DEF NumberAt
  <1> QED BY <1>4, <1>5

\* No digits are zero.
LEMMA NumberOfNone ==
  ASSUME NEW t, NEW base, NEW i \in Nat \ {0}, NEW j \in Nat, j < i
  PROVE  Format!Number(t, base, i, j) = 0
  <1>1. PICK n : Numbers(t, base, i, j, n) /\ Format!Number(t, base, i, j) = n[j]
    BY NumberIsLast
  <1>2. n[j] = NumberAt(t, base, i, n, j)
    BY <1>1 DEF Numbers
  <1> QED BY <1>1, <1>2 DEF NumberAt

\* One digit more, or another character.
LEMMA NumberOfMore ==
  ASSUME NEW t, NEW base, NEW i \in Nat \ {0}, NEW j \in Nat, i <= j
  PROVE  Format!Number(t, base, i, j) =
           IF t[j] \in Format!DigitsIn(base)
           THEN base * Format!Number(t, base, i, j - 1) + Format!Value(t[j])
           ELSE Format!Number(t, base, i, j - 1)
  <1>0. j - 1 \in Nat /\ j - 1 <= j /\ ~(j < i) /\ j - 1 \in 0..j /\ j - 1 <= j - 1
    OBVIOUS
  <1>1. PICK n : Numbers(t, base, i, j, n) /\ Format!Number(t, base, i, j) = n[j]
    BY NumberIsLast
  <1>2. PICK o : Numbers(t, base, i, j - 1, o) /\ Format!Number(t, base, i, j - 1) = o[j - 1]
    BY <1>0, NumberIsLast
  <1>3. n[j - 1] = o[j - 1]
    <2>1. SameUpTo(t, t, j - 1)
      BY DEF SameUpTo
    <2>2. Numbers(t, base, i, j, n) /\ Numbers(t, base, i, j - 1, o)
      BY <1>1, <1>2
    <2> QED BY <1>0, <2>1, <2>2, NumbersAgree
  <1>4. n[j] = NumberAt(t, base, i, n, j)
    BY <1>1 DEF Numbers
  <1> QED BY <1>0, <1>1, <1>2, <1>3, <1>4 DEF NumberAt

\* What comes later in a text does not matter.
LEMMA NumberOfSame ==
  ASSUME NEW t, NEW u, NEW base, NEW i \in Nat \ {0}, NEW j \in Nat, SameUpTo(t, u, j)
  PROVE  Format!Number(t, base, i, j) = Format!Number(u, base, i, j)
  <1>1. PICK n : Numbers(t, base, i, j, n) /\ Format!Number(t, base, i, j) = n[j]
    BY NumberIsLast
  <1>2. PICK o : Numbers(u, base, i, j, o) /\ Format!Number(u, base, i, j) = o[j]
    BY NumberIsLast
  <1>3. j <= j
    OBVIOUS
  <1>4. n[j] = o[j]
    <2>1. Numbers(t, base, i, j, n) /\ Numbers(u, base, i, j, o)
      BY <1>1, <1>2
    <2> QED BY <1>3, <2>1, NumbersAgree
  <1> QED BY <1>1, <1>2, <1>4

\* Decimal digits.
LEMMA TenDigits == Format!DigitChars = Format!DigitsIn(10)
  BY DEF Format!DigitChars

\* What it means to be flags and width up to p[1] and a precision up to p[2],
\* with the length after it.
Split(t, n, p) ==
  /\ p[1] \in 0..n /\ p[2] \in 0..n /\ p[1] <= p[2]
  /\ \A k \in 1..p[1] : t[k] \in Format!DigitChars \cup {"-"}
  /\ \A k \in p[1] + 1..p[2] : t[k] \in (IF k = p[1] + 1 THEN {"."} ELSE Format!DigitChars)
  /\ \A k \in p[2] + 1..n : t[k] = "l"

\* Parts has the pairs of numbers of that meaning.
LEMMA PartsAreSplits ==
  ASSUME NEW t, NEW n, n = Len(t)
  PROVE  /\ \A p \in Format!Parts(t) : Split(t, n, p)
         /\ \A i, j \in 0..n : Split(t, n, <<i, j>>) => <<i, j>> \in Format!Parts(t)
  BY DEF Format!Parts, Split

\* A pair has two elements.
LEMMA PartsArePairs ==
  ASSUME NEW t, NEW p \in Format!Parts(t)
  PROVE  p = <<p[1], p[2]>>
  <1>1. p \in (0..Len(t)) \X (0..Len(t))
    BY Zenon DEF Format!Parts
  <1> QED BY <1>1

\* The characters of a text and of the text with one more.
LEMMA AppendedText ==
  ASSUME NEW S, NEW t \in Seq(S), NEW c \in S
  PROVE  /\ Len(t) \in Nat /\ Append(t, c) \in Seq(S) /\ Len(Append(t, c)) = Len(t) + 1
         /\ Append(t, c)[Len(t) + 1] = c
         /\ \A k \in 1..Len(t) : Append(t, c)[k] = t[k]
  BY AppendProperties

\* No character is two of the kinds that matter.
LEMMA KindsApart ==
  /\ "l" \notin Format!DigitChars /\ "." \notin Format!DigitChars /\ "*" \notin Format!DigitChars
  /\ "-" \notin Format!DigitChars /\ "0" \in Format!DigitChars
  <1>1. Format!DigitChars = {"0", "1", "2", "3", "4", "5", "6", "7", "8", "9"}
    <2>1. \A c : c \in Format!DigitChars <=> \E i \in 1..10 : Format!NumberSet[i] = c
      BY Zenon DEF Format!DigitChars, Format!DigitsIn
    <2>2. \A i \in 1..10 : \/ i = 1 \/ i = 2 \/ i = 3 \/ i = 4 \/ i = 5
                           \/ i = 6 \/ i = 7 \/ i = 8 \/ i = 9 \/ i = 10
      OBVIOUS
    <2>3. /\ Format!NumberSet[1] = "0" /\ Format!NumberSet[2] = "1" /\ Format!NumberSet[3] = "2"
          /\ Format!NumberSet[4] = "3" /\ Format!NumberSet[5] = "4" /\ Format!NumberSet[6] = "5"
          /\ Format!NumberSet[7] = "6" /\ Format!NumberSet[8] = "7" /\ Format!NumberSet[9] = "8"
          /\ Format!NumberSet[10] = "9"
      BY DEF Format!NumberSet
    <2> QED BY <2>1, <2>2, <2>3
  <1> QED BY <1>1

\* What is in the parts p of a text t of length n with one more character c:
\* c belongs to flags and width, to the precision, or to the length.
Grown(t, n, c, p) ==
  \/ /\ p[1] = n + 1 /\ p[2] = n + 1 /\ c \in Format!DigitChars \cup {"-"}
     /\ <<n, n>> \in Format!Parts(t)
  \/ /\ p[1] \in 0..n /\ p[2] = n + 1 /\ <<p[1], n>> \in Format!Parts(t)
     /\ IF p[1] = n THEN c = "." ELSE c \in Format!DigitChars
  \/ /\ p[1] \in 0..n /\ p[2] \in 0..n /\ p[1] <= p[2] /\ c = "l"
     /\ p \in Format!Parts(t) /\ p = <<p[1], p[2]>>

\* What the parts of a text with one more character are parts of.
LEMMA PartsOfMore ==
  ASSUME NEW S, NEW t \in Seq(S), NEW c \in S, NEW p \in Format!Parts(Append(t, c)),
         NEW n, n = Len(t)
  PROVE  /\ n \in Nat
         /\ Grown(t, n, c, p)
  <1> DEFINE u == Append(t, c)
  <1>1. /\ n \in Nat /\ Len(u) = n + 1 /\ u[n + 1] = c
        /\ \A k \in 1..n : u[k] = t[k]
    BY AppendedText
  <1> HIDE DEF u
  <1>2. Split(u, n + 1, p)
    BY <1>1, PartsAreSplits DEF u
  <1>3. p = <<p[1], p[2]>>
    BY PartsArePairs
  <1> DEFINE i == p[1]
             j == p[2]
  <1>4. /\ i \in 0..n + 1 /\ j \in 0..n + 1 /\ i <= j
        /\ \A k \in 1..i : u[k] \in Format!DigitChars \cup {"-"}
        /\ \A k \in i + 1..j : u[k] \in (IF k = i + 1 THEN {"."} ELSE Format!DigitChars)
        /\ \A k \in j + 1..n + 1 : u[k] = "l"
    BY <1>2 DEF Split
  <1> HIDE DEF i, j, Grown
  <1>5. CASE i = n + 1
    <2>1. j = n + 1 /\ n + 1 \in 1..i
      BY <1>1, <1>4, <1>5
    <2>2. c \in Format!DigitChars \cup {"-"}
      BY <1>1, <1>4, <2>1
    <2>3. \A k \in 1..n : t[k] \in Format!DigitChars \cup {"-"}
      <3>1. \A k \in 1..n : k \in 1..i
        BY <1>1, <1>5
      <3> QED BY <1>1, <1>4, <3>1
    <2>4. Split(t, n, <<n, n>>)
      BY <1>1, <2>3 DEF Split
    <2>5. <<n, n>> \in Format!Parts(t)
      <3>1. n \in 0..n
        BY <1>1
      <3> QED BY <2>4, <3>1, PartsAreSplits
    <2> QED BY <1>1, <1>5, <2>1, <2>2, <2>5 DEF i, j, Grown
  <1>6. CASE i # n + 1 /\ j = n + 1
    <2>1. i \in 0..n /\ n + 1 \in i + 1..j /\ n \in 0..n
      BY <1>1, <1>4, <1>6
    <2>2. IF i = n THEN c = "." ELSE c \in Format!DigitChars
      <3>1. c \in (IF n + 1 = i + 1 THEN {"."} ELSE Format!DigitChars)
        BY <1>1, <1>4, <2>1
      <3>2. n + 1 = i + 1 <=> i = n
        BY <1>1, <2>1
      <3> QED BY <3>1, <3>2
    <2>3. /\ \A k \in 1..i : t[k] \in Format!DigitChars \cup {"-"}
          /\ \A k \in i + 1..n : t[k] \in (IF k = i + 1 THEN {"."} ELSE Format!DigitChars)
      <3>1. \A k \in 1..i : k \in 1..n
        BY <1>1, <2>1
      <3>2. \A k \in i + 1..n : k \in 1..n /\ k \in i + 1..j
        BY <1>1, <1>6, <2>1
      <3> QED BY <1>1, <1>4, <3>1, <3>2
    <2>4. Split(t, n, <<i, n>>)
      BY <1>1, <2>1, <2>3 DEF Split
    <2>5. <<i, n>> \in Format!Parts(t)
      BY <2>1, <2>4, PartsAreSplits
    <2> QED BY <1>1, <1>6, <2>1, <2>2, <2>5 DEF i, j, Grown
  <1>7. CASE j # n + 1
    <2>1. j \in 0..n /\ i \in 0..n /\ n + 1 \in j + 1..n + 1
      BY <1>1, <1>4, <1>7
    <2>2. c = "l"
      BY <1>1, <1>4, <2>1
    <2>3. /\ \A k \in 1..i : t[k] \in Format!DigitChars \cup {"-"}
          /\ \A k \in i + 1..j : t[k] \in (IF k = i + 1 THEN {"."} ELSE Format!DigitChars)
          /\ \A k \in j + 1..n : t[k] = "l"
      <3>1. \A k \in 1..i : k \in 1..n
        BY <1>1, <2>1
      <3>2. \A k \in i + 1..j : k \in 1..n
        BY <1>1, <2>1
      <3>3. \A k \in j + 1..n : k \in 1..n /\ k \in j + 1..n + 1
        BY <1>1, <2>1
      <3> QED BY <1>1, <1>4, <3>1, <3>2, <3>3
    <2>4. Split(t, n, <<i, j>>)
      BY <1>1, <1>4, <2>1, <2>3 DEF Split
    <2>5. <<i, j>> \in Format!Parts(t)
      BY <2>1, <2>4, PartsAreSplits
    <2> QED BY <1>1, <1>3, <1>4, <2>1, <2>2, <2>5 DEF i, j, Grown
  <1> QED BY <1>5, <1>6, <1>7

-----------------------------------------------------------------------------
(* The options that the text of a directive asks for.                      *)

HasDigit(t, i) == \E k \in 1..i : t[k] \in Format!DigitChars

HasMinus(t, i) == \E k \in 1..i : t[k] = "-"

\* With the parts p of t: width w, zero padding z, right padding r, precision
\* q, and the mode m.  A width of zero says that no digit but zeros was read,
\* which is what the code takes it for.
Says(t, p, w, z, r, q, m) ==
  /\ w = Format!Number(t, 10, 1, p[1])
  /\ z <=> Format!ZeroFirst(t, p[1])
  /\ r <=> HasMinus(t, p[1])
  /\ q = IF p[1] = p[2] THEN -1 ELSE Format!Number(t, 10, p[1] + 2, p[2])
  /\ HasDigit(t, p[1]) /\ ~Format!ZeroFirst(t, p[1]) => w > 0
  /\ ~HasDigit(t, p[1]) => w = 0
  /\ p[2] = Len(t) => m = IF p[1] < p[2] THEN "prec" ELSE "cont"

\* The options are those of the text.
Described(t, w, z, r, q, m) == \A p \in Format!Parts(t) : Says(t, p, w, z, r, q, m)

\* The value of a digit that is not zero.
LEMMA DigitIsPositive ==
  ASSUME NEW c \in Format!DigitChars, c # "0"
  PROVE  Format!Value(c) > 0
  <1>1. PICK i \in 1..10 : Format!NumberSet[i] = c
    BY Zenon DEF Format!DigitChars, Format!DigitsIn
  <1>2. i - 1 \in 0..15 /\ (i - 1) + 1 = i
    OBVIOUS
  <1>3. \E j \in 0..15 : Format!NumberSet[j + 1] = c
    BY <1>1, <1>2
  <1> DEFINE v == CHOOSE j \in 0..15 : Format!NumberSet[j + 1] = c
  <1>4. v \in 0..15 /\ Format!NumberSet[v + 1] = c
    BY <1>3, Zenon
  <1>5. Format!Value(c) = v
    BY Zenon DEF Format!Value
  <1> HIDE DEF v
  <1>6. Format!NumberSet[1] = "0"
    BY DEF Format!NumberSet
  <1>7. v # 0
    BY <1>4, <1>6
  <1> QED BY <1>4, <1>5, <1>7

\* What a text with one more character has.
LEMMA FlagsOfMore ==
  ASSUME NEW t, NEW u, NEW n \in Nat, SameUpTo(u, t, n)
  PROVE  /\ HasDigit(u, n) <=> HasDigit(t, n)
         /\ HasMinus(u, n) <=> HasMinus(t, n)
         /\ Format!ZeroFirst(u, n) <=> Format!ZeroFirst(t, n)
         /\ HasDigit(u, n + 1) <=> (HasDigit(t, n) \/ u[n + 1] \in Format!DigitChars)
         /\ HasMinus(u, n + 1) <=> (HasMinus(t, n) \/ u[n + 1] = "-")
         /\ Format!ZeroFirst(u, n + 1) <=>
              (Format!ZeroFirst(t, n) \/ (~HasDigit(t, n) /\ u[n + 1] = "0"))
  <1>1. \A k \in 1..n : u[k] = t[k]
    BY DEF SameUpTo
  <1>2. n + 1 \in 1..n + 1 /\ (\A k \in 1..n + 1 : k \in 1..n \/ k = n + 1) /\ 1..n \subseteq 1..n + 1
    OBVIOUS
  <1>3. HasDigit(u, n) <=> HasDigit(t, n)
    BY <1>1 DEF HasDigit
  <1>4. HasMinus(u, n) <=> HasMinus(t, n)
    BY <1>1 DEF HasMinus
  <1>5. HasDigit(u, n + 1) <=> (HasDigit(t, n) \/ u[n + 1] \in Format!DigitChars)
    BY <1>1, <1>2 DEF HasDigit
  <1>6. HasMinus(u, n + 1) <=> (HasMinus(t, n) \/ u[n + 1] = "-")
    BY <1>1, <1>2 DEF HasMinus
  <1> DEFINE First(x, k) == x[k] = "0" /\ \A m \in 1..k - 1 : x[m] \notin Format!DigitChars
  <1>7. \A k \in 1..n : First(u, k) <=> First(t, k)
    <2>1. \A k \in 1..n : \A m \in 1..k - 1 : m \in 1..n
      OBVIOUS
    <2> QED BY <1>1, <2>1
  <1>8. First(u, n + 1) <=> (~HasDigit(t, n) /\ u[n + 1] = "0")
    <2>1. (n + 1) - 1 = n
      OBVIOUS
    <2>2. First(u, n + 1) <=> u[n + 1] = "0" /\ \A m \in 1..n : u[m] \notin Format!DigitChars
      BY <2>1
    <2> QED BY <1>1, <2>2 DEF HasDigit
  <1>9. \A x : \A i \in Nat : Format!ZeroFirst(x, i) <=> \E k \in 1..i : First(x, k)
    BY DEF Format!ZeroFirst
  <1>10. n + 1 \in Nat
    OBVIOUS
  <1> HIDE DEF First
  <1>11. Format!ZeroFirst(u, n) <=> Format!ZeroFirst(t, n)
    BY <1>7, <1>9
  <1>12. Format!ZeroFirst(u, n + 1) <=>
           (Format!ZeroFirst(t, n) \/ (~HasDigit(t, n) /\ u[n + 1] = "0"))
    BY <1>2, <1>7, <1>8, <1>9, <1>10
  <1> QED BY <1>3, <1>4, <1>5, <1>6, <1>11, <1>12

\* A text and the text with one more character begin alike.
LEMMA AppendIsSame ==
  ASSUME NEW S, NEW t \in Seq(S), NEW c \in S, NEW i \in 0..Len(t)
  PROVE  SameUpTo(Append(t, c), t, i)
  <1>1. Len(t) \in Nat /\ \A k \in 1..Len(t) : Append(t, c)[k] = t[k]
    BY AppendedText
  <1>2. \A k \in 1..i : k \in 1..Len(t)
    BY <1>1
  <1> QED BY <1>1, <1>2 DEF SameUpTo

\* Before the first character.
LEMMA NothingSays ==
  ASSUME NEW z, z = FALSE, NEW r, r = FALSE
  PROVE  Described(<<>>, 0, z, r, -1, "cont")
  <1> SUFFICES ASSUME NEW p \in Format!Parts(<<>>) PROVE Says(<<>>, p, 0, z, r, -1, "cont")
    BY DEF Described
  <1>1. Len(<<>>) = 0
    BY EmptySeq
  <1>2. p[1] = 0 /\ p[2] = 0
    <2>1. Split(<<>>, 0, p)
      BY <1>1, PartsAreSplits
    <2> QED BY <2>1 DEF Split
  <1>3. Format!Number(<<>>, 10, 1, 0) = 0
    BY NumberOfNone
  <1>4. 1..0 = {}
    OBVIOUS
  <1>5. ~HasDigit(<<>>, 0) /\ ~HasMinus(<<>>, 0) /\ ~Format!ZeroFirst(<<>>, 0)
    BY <1>4 DEF HasDigit, HasMinus, Format!ZeroFirst
  <1> QED BY <1>1, <1>2, <1>3, <1>5 DEF Says

\* A flag or a digit of the width.
LEMMA DigitSays ==
  ASSUME NEW S, NEW t \in Seq(S), NEW c \in S, c \in Format!DigitChars,
         NEW w \in Nat, NEW z \in BOOLEAN, NEW r \in BOOLEAN, NEW q,
         Described(t, w, z, r, q, "cont"), NEW y, y = (z \/ (c = "0" /\ w = 0))
  PROVE  Described(Append(t, c), 10 * w + Format!Value(c), y, r, q, "cont")
  <1> DEFINE u == Append(t, c)
             n == Len(t)
             x == 10 * w + Format!Value(c)
  <1> SUFFICES ASSUME NEW p \in Format!Parts(u) PROVE Says(u, p, x, y, r, q, "cont")
    BY DEF Described
  <1>1. n \in Nat /\ Len(u) = n + 1 /\ u[n + 1] = c
    BY AppendedText
  <1>2. c # "l" /\ c # "."
    BY KindsApart
  <1>3. \/ p[1] = n + 1 /\ p[2] = n + 1 /\ <<n, n>> \in Format!Parts(t)
        \/ p[1] \in 0..n /\ p[1] # n /\ <<p[1], n>> \in Format!Parts(t)
    <2>1. Grown(t, n, c, p)
      BY PartsOfMore
    <2> HIDE DEF u, n
    <2> QED BY <1>2, <2>1 DEF Grown
  <1>4. CASE p[1] = n + 1 /\ p[2] = n + 1 /\ <<n, n>> \in Format!Parts(t)
    <2>1. Says(t, <<n, n>>, w, z, r, q, "cont")
      BY <1>4 DEF Described
    <2>2. /\ w = Format!Number(t, 10, 1, n) /\ (z <=> Format!ZeroFirst(t, n)) /\ (r <=> HasMinus(t, n))
          /\ q = -1 /\ (HasDigit(t, n) /\ ~Format!ZeroFirst(t, n) => w > 0)
          /\ (~HasDigit(t, n) => w = 0)
      BY <2>1 DEF Says
    <2>3. SameUpTo(u, t, n)
      BY <1>1, AppendIsSame
    <2> HIDE DEF u, n
    <2>4. Format!Number(u, 10, 1, n + 1) = x
      <3>1. Format!Number(u, 10, 1, n) = Format!Number(t, 10, 1, n)
        BY <1>1, <2>3, NumberOfSame
      <3>2. 1 <= n + 1 /\ n + 1 \in Nat /\ (n + 1) - 1 = n
        BY <1>1
      <3>3. Format!Number(u, 10, 1, n + 1) = 10 * Format!Number(u, 10, 1, n) + Format!Value(c)
        BY <1>1, <3>2, NumberOfMore, TenDigits
      <3> QED BY <2>2, <3>1, <3>3
    <2>5. /\ HasDigit(u, n + 1) /\ (HasMinus(u, n + 1) <=> HasMinus(t, n))
          /\ Format!ZeroFirst(u, n + 1) <=>
               (Format!ZeroFirst(t, n) \/ (~HasDigit(t, n) /\ c = "0"))
      BY <1>1, <2>3, FlagsOfMore, KindsApart
    <2>6. y <=> Format!ZeroFirst(u, n + 1)
      <3>1. y <=> (z \/ (c = "0" /\ w = 0))
        OBVIOUS
      <3>2. w = 0 => ~(w > 0)
        OBVIOUS
      <3> QED BY <2>2, <2>5, <3>1, <3>2, Zenon
    <2>7. ~Format!ZeroFirst(u, n + 1) => x > 0
      <3>1. Format!Value(c) \in 0..15 /\ (c # "0" => Format!Value(c) > 0)
        BY ValueIsNumber, DigitIsPositive
      <3>2. ~Format!ZeroFirst(u, n + 1) => w > 0 \/ c # "0"
        BY <2>2, <2>5, Zenon
      <3> QED BY <3>1, <3>2
    <2>8. ~(n + 1 < n + 1)
      BY <1>1
    <2> HIDE DEF x
    <2> QED BY <1>1, <1>4, <2>2, <2>4, <2>5, <2>6, <2>7, <2>8 DEF Says
  <1>5. CASE p[1] \in 0..n /\ p[1] # n /\ <<p[1], n>> \in Format!Parts(t)
    <2>1. Says(t, <<p[1], n>>, w, z, r, q, "cont")
      BY <1>5 DEF Described
    <2>2. p[1] < n
      BY <1>1, <1>5
    <2>3. "cont" = "prec"
      BY <2>1, <2>2 DEF Says
    <2> QED BY <2>3
  <1> QED BY <1>3, <1>4, <1>5

\* The width and the flags of the first i characters stay with one more.
LEMMA WidthStays ==
  ASSUME NEW S, NEW t \in Seq(S), NEW c \in S, NEW i \in 0..Len(t)
  PROVE  /\ Format!Number(Append(t, c), 10, 1, i) = Format!Number(t, 10, 1, i)
         /\ HasDigit(Append(t, c), i) <=> HasDigit(t, i)
         /\ HasMinus(Append(t, c), i) <=> HasMinus(t, i)
         /\ Format!ZeroFirst(Append(t, c), i) <=> Format!ZeroFirst(t, i)
  <1>1. SameUpTo(Append(t, c), t, i)
    BY AppendIsSame
  <1>2. i \in Nat
    BY AppendedText
  <1>3. Format!Number(Append(t, c), 10, 1, i) = Format!Number(t, 10, 1, i)
    BY <1>1, <1>2, NumberOfSame
  <1> QED BY <1>1, <1>2, <1>3, FlagsOfMore

\* A minus before any digit but zeros.
LEMMA MinusSays ==
  ASSUME NEW S, NEW t \in Seq(S), NEW c \in S, c = "-",
         NEW w \in Nat, NEW z \in BOOLEAN, NEW r \in BOOLEAN, NEW q, NEW m,
         Described(t, w, z, r, q, m), NEW y, y = TRUE
  PROVE  Described(Append(t, c), w, z, y, q, "cont")
  <1> DEFINE u == Append(t, c)
             n == Len(t)
  <1> SUFFICES ASSUME NEW p \in Format!Parts(u) PROVE Says(u, p, w, z, y, q, "cont")
    BY DEF Described
  <1>1. n \in Nat /\ Len(u) = n + 1 /\ u[n + 1] = c
    BY AppendedText
  <1>2. c # "l" /\ c # "." /\ c \notin Format!DigitChars
    BY KindsApart
  <1>3. p[1] = n + 1 /\ p[2] = n + 1 /\ <<n, n>> \in Format!Parts(t)
    <2>1. Grown(t, n, c, p)
      BY PartsOfMore
    <2> HIDE DEF u, n
    <2> QED BY <1>2, <2>1 DEF Grown
  <1>4. Says(t, <<n, n>>, w, z, r, q, m)
    BY <1>3 DEF Described
  <1>5. /\ w = Format!Number(t, 10, 1, n) /\ (z <=> Format!ZeroFirst(t, n)) /\ q = -1
        /\ (HasDigit(t, n) /\ ~Format!ZeroFirst(t, n) => w > 0) /\ (~HasDigit(t, n) => w = 0)
    BY <1>4 DEF Says
  <1>6. SameUpTo(u, t, n)
    BY <1>1, AppendIsSame
  <1> HIDE DEF u, n
  <1>7. Format!Number(u, 10, 1, n + 1) = w
    <2>1. Format!Number(u, 10, 1, n) = Format!Number(t, 10, 1, n)
      BY <1>1, <1>6, NumberOfSame
    <2>2. 1 <= n + 1 /\ n + 1 \in Nat /\ (n + 1) - 1 = n
      BY <1>1
    <2>3. Format!Number(u, 10, 1, n + 1) = Format!Number(u, 10, 1, n)
      BY <1>1, <1>2, <2>2, NumberOfMore, TenDigits
    <2> QED BY <1>5, <2>1, <2>3
  <1>8. /\ HasMinus(u, n + 1) /\ (HasDigit(u, n + 1) <=> HasDigit(t, n))
        /\ Format!ZeroFirst(u, n + 1) <=> Format!ZeroFirst(t, n)
    <2>1. c # "0"
      BY <1>2, KindsApart
    <2> QED BY <1>1, <1>2, <1>6, <2>1, FlagsOfMore
  <1>9. ~(n + 1 < n + 1)
    BY <1>1
  <1> QED BY <1>1, <1>3, <1>5, <1>7, <1>8, <1>9 DEF Says

\* A letter of the length.
LEMMA LongSays ==
  ASSUME NEW S, NEW t \in Seq(S), NEW c \in S, c = "l",
         NEW w \in Nat, NEW z \in BOOLEAN, NEW r \in BOOLEAN, NEW q, NEW m,
         Described(t, w, z, r, q, m)
  PROVE  Described(Append(t, c), w, z, r, q, "cont")
  <1> DEFINE u == Append(t, c)
             n == Len(t)
  <1> SUFFICES ASSUME NEW p \in Format!Parts(u) PROVE Says(u, p, w, z, r, q, "cont")
    BY DEF Described
  <1>1. n \in Nat /\ Len(u) = n + 1
    BY AppendedText
  <1>2. c \notin Format!DigitChars /\ c # "-" /\ c # "."
    BY KindsApart
  <1>3. p[1] \in 0..n /\ p[2] \in 0..n /\ p[1] <= p[2] /\ p \in Format!Parts(t)
    <2>1. Grown(t, n, c, p)
      BY PartsOfMore
    <2> HIDE DEF u, n
    <2> QED BY <1>2, <2>1 DEF Grown
  <1>4. Says(t, p, w, z, r, q, m)
    BY <1>3 DEF Described
  <1>5. /\ Format!Number(u, 10, 1, p[1]) = Format!Number(t, 10, 1, p[1])
        /\ HasDigit(u, p[1]) <=> HasDigit(t, p[1])
        /\ HasMinus(u, p[1]) <=> HasMinus(t, p[1])
        /\ Format!ZeroFirst(u, p[1]) <=> Format!ZeroFirst(t, p[1])
    BY <1>3, WidthStays
  <1>6. Format!Number(u, 10, p[1] + 2, p[2]) = Format!Number(t, 10, p[1] + 2, p[2])
    <2>1. SameUpTo(u, t, p[2])
      BY <1>3, AppendIsSame
    <2>2. p[1] + 2 \in Nat \ {0} /\ p[2] \in Nat
      BY <1>1, <1>3
    <2> QED BY <2>1, <2>2, NumberOfSame
  <1> HIDE DEF u, n
  <1>7. p[2] # Len(u)
    BY <1>1, <1>3
  <1> QED BY <1>4, <1>5, <1>6, <1>7 DEF Says

\* The dot before a precision.
LEMMA DotSays ==
  ASSUME NEW S, NEW t \in Seq(S), NEW c \in S, c = ".",
         NEW w \in Nat, NEW z \in BOOLEAN, NEW r \in BOOLEAN, NEW q, NEW m,
         Described(t, w, z, r, q, m)
  PROVE  Described(Append(t, c), w, z, r, 0, "prec")
  <1> DEFINE u == Append(t, c)
             n == Len(t)
  <1> SUFFICES ASSUME NEW p \in Format!Parts(u) PROVE Says(u, p, w, z, r, 0, "prec")
    BY DEF Described
  <1>1. n \in Nat /\ Len(u) = n + 1
    BY AppendedText
  <1>2. c \notin Format!DigitChars /\ c # "-" /\ c # "l"
    BY KindsApart
  <1>3. p[1] = n /\ p[2] = n + 1 /\ <<n, n>> \in Format!Parts(t)
    <2>1. Grown(t, n, c, p)
      BY PartsOfMore
    <2> HIDE DEF u, n
    <2> QED BY <1>2, <2>1 DEF Grown
  <1>4. Says(t, <<n, n>>, w, z, r, q, m)
    BY <1>3 DEF Described
  <1>5. /\ w = Format!Number(t, 10, 1, n) /\ (z <=> Format!ZeroFirst(t, n)) /\ (r <=> HasMinus(t, n))
        /\ (HasDigit(t, n) /\ ~Format!ZeroFirst(t, n) => w > 0) /\ (~HasDigit(t, n) => w = 0)
    BY <1>4 DEF Says
  <1>6. /\ Format!Number(u, 10, 1, n) = Format!Number(t, 10, 1, n)
        /\ HasDigit(u, n) <=> HasDigit(t, n)
        /\ HasMinus(u, n) <=> HasMinus(t, n)
        /\ Format!ZeroFirst(u, n) <=> Format!ZeroFirst(t, n)
    <2>1. n \in 0..n
      BY <1>1
    <2> QED BY <2>1, WidthStays
  <1> HIDE DEF u, n
  <1>7. Format!Number(u, 10, n + 2, n + 1) = 0
    <2>1. n + 2 \in Nat \ {0} /\ n + 1 \in Nat /\ n + 1 < n + 2
      BY <1>1
    <2> QED BY <2>1, NumberOfNone
  <1>8. n # n + 1 /\ n < n + 1
    BY <1>1
  <1> QED BY <1>3, <1>5, <1>6, <1>7, <1>8 DEF Says

\* A digit of the precision.
LEMMA PrecisionSays ==
  ASSUME NEW S, NEW t \in Seq(S), NEW c \in S, c \in Format!DigitChars,
         NEW w \in Nat, NEW z \in BOOLEAN, NEW r \in BOOLEAN, NEW q,
         Described(t, w, z, r, q, "prec")
  PROVE  Described(Append(t, c), w, z, r, 10 * q + Format!Value(c), "prec")
  <1> DEFINE u == Append(t, c)
             n == Len(t)
             x == 10 * q + Format!Value(c)
  <1> SUFFICES ASSUME NEW p \in Format!Parts(u) PROVE Says(u, p, w, z, r, x, "prec")
    BY DEF Described
  <1>1. n \in Nat /\ Len(u) = n + 1 /\ u[n + 1] = c
    BY AppendedText
  <1>2. c # "." /\ c # "l"
    BY KindsApart
  <1>3. <<n, n>> \notin Format!Parts(t)
    <2> SUFFICES ASSUME <<n, n>> \in Format!Parts(t) PROVE FALSE
      OBVIOUS
    <2>1. Says(t, <<n, n>>, w, z, r, q, "prec")
      BY DEF Described
    <2>2. ~(n < n)
      BY <1>1
    <2>3. "prec" = "cont"
      BY <2>1, <2>2 DEF Says
    <2> QED BY <2>3
  <1>4. p[1] \in 0..n /\ p[1] # n /\ p[2] = n + 1 /\ <<p[1], n>> \in Format!Parts(t)
    <2>1. Grown(t, n, c, p)
      BY PartsOfMore
    <2> HIDE DEF u, n
    <2> QED BY <1>2, <1>3, <2>1 DEF Grown
  <1>5. Says(t, <<p[1], n>>, w, z, r, q, "prec")
    BY <1>4 DEF Described
  <1>6. /\ w = Format!Number(t, 10, 1, p[1]) /\ (z <=> Format!ZeroFirst(t, p[1]))
        /\ (r <=> HasMinus(t, p[1])) /\ q = Format!Number(t, 10, p[1] + 2, n)
        /\ (HasDigit(t, p[1]) /\ ~Format!ZeroFirst(t, p[1]) => w > 0)
        /\ (~HasDigit(t, p[1]) => w = 0)
    BY <1>4, <1>5 DEF Says
  <1>7. /\ Format!Number(u, 10, 1, p[1]) = Format!Number(t, 10, 1, p[1])
        /\ HasDigit(u, p[1]) <=> HasDigit(t, p[1])
        /\ HasMinus(u, p[1]) <=> HasMinus(t, p[1])
        /\ Format!ZeroFirst(u, p[1]) <=> Format!ZeroFirst(t, p[1])
    BY <1>4, WidthStays
  <1>8. SameUpTo(u, t, n)
    BY <1>1, AppendIsSame
  <1> HIDE DEF u, n
  <1>9. Format!Number(u, 10, p[1] + 2, n + 1) = x
    <2>1. /\ p[1] + 2 \in Nat \ {0} /\ n + 1 \in Nat /\ p[1] + 2 <= n + 1 /\ (n + 1) - 1 = n
      BY <1>1, <1>4
    <2>2. Format!Number(u, 10, p[1] + 2, n) = Format!Number(t, 10, p[1] + 2, n)
      BY <1>1, <1>8, <2>1, NumberOfSame
    <2>3. Format!Number(u, 10, p[1] + 2, n + 1) =
            10 * Format!Number(u, 10, p[1] + 2, n) + Format!Value(c)
      BY <1>1, <2>1, NumberOfMore, TenDigits
    <2> QED BY <1>6, <2>2, <2>3
  <1>10. p[1] # n + 1 /\ p[1] < n + 1
    BY <1>1, <1>4
  <1> HIDE DEF x
  <1> QED BY <1>4, <1>6, <1>7, <1>9, <1>10 DEF Says

\* A text with a star has no such parts.
LEMMA StarSays ==
  ASSUME NEW S, NEW t \in Seq(S), NEW c \in S, c = "*", NEW w, NEW z, NEW r, NEW q, NEW m
  PROVE  Described(Append(t, c), w, z, r, q, m)
  <1> SUFFICES ASSUME NEW p \in Format!Parts(Append(t, c)) PROVE FALSE
    BY DEF Described
  <1>1. c \notin Format!DigitChars /\ c # "-" /\ c # "l" /\ c # "."
    BY KindsApart
  <1>2. Grown(t, Len(t), c, p)
    BY PartsOfMore
  <1> QED BY <1>1, <1>2 DEF Grown

-----------------------------------------------------------------------------
(* The invariant of the options.                                           *)

\* What the options and the text are.
OptionTypes ==
  /\ mode \in {"text", "cont", "prec", "end", "panic"}
  /\ text \in Seq(Chars) /\ prefix \in Nat /\ precision \in Int
  /\ zero_padding \in BOOLEAN /\ right_padding \in BOOLEAN

\* Between directives the options are those of an empty text.
Cleared ==
  /\ text = <<>> /\ prefix = 0 /\ precision = -1
  /\ zero_padding = FALSE /\ right_padding = FALSE

\* In a directive they are those of its text so far.
Ongoing == Described(text, prefix, zero_padding, right_padding, precision, mode)

OptionIInv ==
  /\ OptionTypes
  /\ mode = "text" => Cleared
  /\ mode \in {"cont", "prec"} => Ongoing
  /\ Format!OwnOptions

\* Cleared options have their types.
LEMMA ClearedIsTyped ==
  ASSUME Cleared, mode = "text"
  PROVE  OptionTypes
  <1>1. text \in Seq(Chars)
    BY EmptySeq DEF Cleared
  <1>2. prefix \in Nat /\ precision \in Int
    BY DEF Cleared
  <1>3. zero_padding \in BOOLEAN /\ right_padding \in BOOLEAN
    BY DEF Cleared
  <1>4. mode \in {"text", "cont", "prec", "end", "panic"}
    OBVIOUS
  <1> QED BY <1>1, <1>2, <1>3, <1>4, Zenon DEF OptionTypes

\* The same of the next state.
LEMMA ClearedNextIsTyped ==
  ASSUME Cleared', mode' = "text"
  PROVE  OptionTypes'
  <1>1. text' \in Seq(Chars)
    BY EmptySeq DEF Cleared
  <1>2. prefix' \in Nat /\ precision' \in Int
    BY DEF Cleared
  <1>3. zero_padding' \in BOOLEAN /\ right_padding' \in BOOLEAN
    BY DEF Cleared
  <1>4. mode' \in {"text", "cont", "prec", "end", "panic"}
    OBVIOUS
  <1> QED BY <1>1, <1>2, <1>3, <1>4, Zenon DEF OptionTypes

\* No conversion.
LEMMA LastStays ==
  ASSUME Format!OwnOptions, last' = last
  PROVE  Format!OwnOptions'
  BY DEF Format!OwnOptions

\* The conversion is that of the text.
LEMMA OwnConversion ==
  ASSUME OptionTypes, Ongoing, NEW c,
         last'.conv = c, last'.text = text, last'.prefix = prefix, last'.zero = zero_padding,
         last'.right = right_padding, last'.precision = precision
  PROVE  Format!OwnOptions'
  <1>1. ASSUME NEW p \in Format!Parts(text)
        PROVE  /\ prefix = Format!Number(text, 10, 1, p[1])
               /\ zero_padding = Format!ZeroFirst(text, p[1])
               /\ right_padding = \E k \in 1..p[1] : text[k] = "-"
               /\ precision = IF p[1] = p[2] THEN -1 ELSE Format!Number(text, 10, p[1] + 2, p[2])
    <2>1. Says(text, p, prefix, zero_padding, right_padding, precision, mode)
      BY DEF Ongoing, Described
    <2>2. zero_padding \in BOOLEAN /\ right_padding \in BOOLEAN
      BY DEF OptionTypes
    <2>3. zero_padding = Format!ZeroFirst(text, p[1])
      BY <2>1, <2>2, Zenon DEF Says, Format!ZeroFirst
    <2>4. right_padding = \E k \in 1..p[1] : text[k] = "-"
      BY <2>1, <2>2, Zenon DEF Says, HasMinus
    <2> QED BY <2>1, <2>3, <2>4 DEF Says
  <1> QED BY <1>1 DEF Format!OwnOptions

\* The end of a directive, or a failed assertion.
LEMMA ConvertOwn ==
  ASSUME OptionIInv, NEW c \in Chars, NEW asserts, NEW arg, NEW s, NEW counted,
         Format!Convert(c, asserts, arg, s, counted)
  PROVE  OptionIInv'
  <1>1. mode \in {"cont", "prec"}
    BY DEF Format!Convert, Format!InDirective
  <1>2. CASE asserts /\ Format!Reset /\ mode' = "text" /\ text' = <<>>
             /\ last' = [conv |-> c, text |-> text, arg |-> arg, field |-> s,
                         level |-> long_level, prefix |-> prefix, zero |-> zero_padding,
                         right |-> right_padding, precision |-> precision, earlier |-> earlier]
    <2>1. Cleared'
      BY <1>2 DEF Cleared, Format!Reset
    <2>2. OptionTypes'
      BY <1>2, <2>1, ClearedNextIsTyped
    <2>3. Format!OwnOptions'
      <3>1. OptionTypes /\ Ongoing
        BY <1>1 DEF OptionIInv
      <3>2. /\ last'.conv = c /\ last'.text = text /\ last'.prefix = prefix
            /\ last'.zero = zero_padding /\ last'.right = right_padding
            /\ last'.precision = precision
        BY <1>2
      <3> QED BY <3>1, <3>2, OwnConversion
    <2> QED BY <1>2, <2>1, <2>2, <2>3 DEF OptionIInv
  <1>3. CASE mode' = "panic" /\ UNCHANGED <<Format!opts, text, last>>
    <2>1. UNCHANGED <<prefix, zero_padding, right_padding, precision>>
      BY <1>3 DEF Format!opts
    <2>2. OptionTypes'
      BY <1>3, <2>1 DEF OptionIInv, OptionTypes
    <2>3. Format!OwnOptions'
      BY <1>3, LastStays DEF OptionIInv
    <2> QED BY <1>3, <2>2, <2>3 DEF OptionIInv
  <1> QED BY <1>2, <1>3, Zenon DEF Format!Convert, Format!history

\* An option that leaves the text described, or ends in a panic.
LEMMA OptionOwn ==
  ASSUME OptionIInv, OptionTypes', last' = last, mode' # "text",
         mode' \in {"cont", "prec"} => Ongoing'
  PROVE  OptionIInv'
  <1>1. Format!OwnOptions'
    BY LastStays DEF OptionIInv
  <1> QED BY <1>1 DEF OptionIInv

\* The text has one character more.
LEMMA TextGrows ==
  ASSUME OptionTypes, NEW c \in Chars, text' = Append(text, c)
  PROVE  text' \in Seq(Chars)
  BY AppendedText DEF OptionTypes

\* A digit of the width.
LEMMA DigitOwn ==
  ASSUME OptionIInv, NEW c \in Chars, Format!Digit(c)
  PROVE  OptionIInv'
  <1>1. /\ mode = "cont" /\ c \in Format!DigitChars /\ mode' = mode /\ last' = last
        /\ prefix' = 10 * prefix + Format!Value(c)
        /\ zero_padding' = (zero_padding \/ (c = "0" /\ prefix = 0))
        /\ right_padding' = right_padding /\ precision' = precision
        /\ text' = Append(text, c)
    BY DEF Format!Digit, Format!Option, Format!history
  <1>2. OptionTypes /\ Described(text, prefix, zero_padding, right_padding, precision, "cont")
    BY <1>1 DEF OptionIInv, Ongoing
  <1>3. Described(Append(text, c), 10 * prefix + Format!Value(c), zero_padding', right_padding,
                  precision, "cont")
    <2>1. /\ text \in Seq(Chars) /\ prefix \in Nat /\ zero_padding \in BOOLEAN
          /\ right_padding \in BOOLEAN
      BY <1>2 DEF OptionTypes
    <2> QED BY <1>1, <1>2, <2>1, DigitSays
  <1>4. Ongoing'
    BY <1>1, <1>3 DEF Ongoing
  <1>5. OptionTypes'
    <2>1. 10 * prefix + Format!Value(c) \in Nat
      <3>1. Format!Value(c) \in 0..15 /\ prefix \in Nat
        BY <1>1, <1>2, ValueIsNumber DEF OptionTypes
      <3> QED BY <3>1
    <2>2. zero_padding' \in BOOLEAN
      BY <1>1, <1>2
    <2>3. text' \in Seq(Chars)
      BY <1>1, <1>2, TextGrows
    <2> QED BY <1>1, <1>2, <2>1, <2>2, <2>3 DEF OptionTypes
  <1> QED BY <1>1, <1>4, <1>5, OptionOwn

\* A minus.
LEMMA MinusOwn ==
  ASSUME OptionIInv, NEW c \in Chars, Format!Minus(c)
  PROVE  OptionIInv'
  <1>1. /\ mode \in {"cont", "prec"} /\ c = "-" /\ last' = last
        /\ mode' = (IF prefix = 0 THEN "cont" ELSE "panic")
        /\ right_padding' = (right_padding \/ prefix = 0)
        /\ prefix' = prefix /\ zero_padding' = zero_padding /\ precision' = precision
        /\ text' = Append(text, c)
    BY DEF Format!Minus, Format!Option, Format!InDirective, Format!history
  <1>2. OptionTypes /\ Described(text, prefix, zero_padding, right_padding, precision, mode)
    BY <1>1 DEF OptionIInv, Ongoing
  <1>3. prefix = 0 => Ongoing'
    <2> SUFFICES ASSUME prefix = 0 PROVE Ongoing'
      OBVIOUS
    <2>1. /\ text \in Seq(Chars) /\ prefix \in Nat /\ zero_padding \in BOOLEAN
          /\ right_padding \in BOOLEAN /\ right_padding' = TRUE
      BY <1>1, <1>2 DEF OptionTypes
    <2>2. Described(Append(text, c), prefix, zero_padding, right_padding', precision, "cont")
      BY <1>1, <1>2, <2>1, MinusSays
    <2> QED BY <1>1, <2>2 DEF Ongoing
  <1>4. OptionTypes'
    <2>1. right_padding' \in BOOLEAN
      BY <1>1, <1>2
    <2>2. text' \in Seq(Chars)
      BY <1>1, <1>2, TextGrows
    <2> QED BY <1>1, <1>2, <2>1, <2>2 DEF OptionTypes
  <1> QED BY <1>1, <1>3, <1>4, OptionOwn

\* An l.
LEMMA LongOwn ==
  ASSUME OptionIInv, NEW c \in Chars, Format!Long(c)
  PROVE  OptionIInv'
  <1>1. /\ mode \in {"cont", "prec"} /\ c = "l" /\ last' = last /\ mode' \in {"cont", "panic"}
        /\ right_padding' = right_padding /\ prefix' = prefix /\ zero_padding' = zero_padding
        /\ precision' = precision /\ text' = Append(text, c)
    BY DEF Format!Long, Format!Option, Format!InDirective, Format!opts, Format!history
  <1>2. OptionTypes /\ Described(text, prefix, zero_padding, right_padding, precision, mode)
    BY <1>1 DEF OptionIInv, Ongoing
  <1>3. mode' = "cont" => Ongoing'
    <2>1. /\ text \in Seq(Chars) /\ prefix \in Nat /\ zero_padding \in BOOLEAN
          /\ right_padding \in BOOLEAN
      BY <1>2 DEF OptionTypes
    <2>2. Described(Append(text, c), prefix, zero_padding, right_padding, precision, "cont")
      BY <1>1, <1>2, <2>1, LongSays
    <2> QED BY <1>1, <2>2 DEF Ongoing
  <1>4. OptionTypes'
    <2>1. text' \in Seq(Chars)
      BY <1>1, <1>2, TextGrows
    <2> QED BY <1>1, <1>2, <2>1 DEF OptionTypes
  <1> QED BY <1>1, <1>3, <1>4, OptionOwn

\* A dot.
LEMMA DotOwn ==
  ASSUME OptionIInv, NEW c \in Chars, Format!Dot(c)
  PROVE  OptionIInv'
  <1>1. /\ mode \in {"cont", "prec"} /\ c = "." /\ last' = last /\ mode' = "prec"
        /\ right_padding' = right_padding /\ prefix' = prefix /\ zero_padding' = zero_padding
        /\ precision' = 0 /\ text' = Append(text, c)
    BY DEF Format!Dot, Format!Option, Format!InDirective, Format!history
  <1>2. OptionTypes /\ Described(text, prefix, zero_padding, right_padding, precision, mode)
    BY <1>1 DEF OptionIInv, Ongoing
  <1>3. Ongoing'
    <2>1. /\ text \in Seq(Chars) /\ prefix \in Nat /\ zero_padding \in BOOLEAN
          /\ right_padding \in BOOLEAN
      BY <1>2 DEF OptionTypes
    <2>2. Described(Append(text, c), prefix, zero_padding, right_padding, 0, "prec")
      BY <1>1, <1>2, <2>1, DotSays
    <2> QED BY <1>1, <2>2 DEF Ongoing
  <1>4. OptionTypes'
    <2>1. text' \in Seq(Chars)
      BY <1>1, <1>2, TextGrows
    <2> QED BY <1>1, <1>2, <2>1 DEF OptionTypes
  <1> QED BY <1>1, <1>3, <1>4, OptionOwn

\* A digit of the precision.
LEMMA PrecisionOwn ==
  ASSUME OptionIInv, NEW c \in Chars, Format!parse_precision(c)
  PROVE  OptionIInv'
  <1>1. /\ mode = "prec" /\ c \in Format!DigitChars /\ last' = last /\ mode' = "prec"
        /\ right_padding' = right_padding /\ prefix' = prefix /\ zero_padding' = zero_padding
        /\ precision' = 10 * precision + Format!Value(c) /\ text' = Append(text, c)
    BY DEF Format!parse_precision, Format!Option, Format!history
  <1>2. OptionTypes /\ Described(text, prefix, zero_padding, right_padding, precision, "prec")
    BY <1>1 DEF OptionIInv, Ongoing
  <1>3. Ongoing'
    <2>1. /\ text \in Seq(Chars) /\ prefix \in Nat /\ zero_padding \in BOOLEAN
          /\ right_padding \in BOOLEAN
      BY <1>2 DEF OptionTypes
    <2>2. Described(Append(text, c), prefix, zero_padding, right_padding,
                    10 * precision + Format!Value(c), "prec")
      BY <1>1, <1>2, <2>1, PrecisionSays
    <2> QED BY <1>1, <2>2 DEF Ongoing
  <1>4. OptionTypes'
    <2>1. 10 * precision + Format!Value(c) \in Int
      <3>1. Format!Value(c) \in 0..15 /\ precision \in Int
        BY <1>1, <1>2, ValueIsNumber DEF OptionTypes
      <3> QED BY <3>1
    <2>2. text' \in Seq(Chars)
      BY <1>1, <1>2, TextGrows
    <2> QED BY <1>1, <1>2, <2>1, <2>2 DEF OptionTypes
  <1> QED BY <1>1, <1>3, <1>4, OptionOwn

\* A star.
LEMMA StarOwn ==
  ASSUME OptionIInv, NEW c \in Chars, Format!Star(c)
  PROVE  OptionIInv'
  <1>1. /\ mode = "prec" /\ c = "*" /\ last' = last /\ mode' \in {"cont", "panic"}
        /\ right_padding' = right_padding /\ prefix' = prefix /\ zero_padding' = zero_padding
        /\ precision' \in {precision} \cup -1..1 /\ text' = Append(text, c)
    BY DEF Format!Star, Format!Option, Format!opts, Format!history
  <1>2. OptionTypes
    BY DEF OptionIInv
  <1>3. Ongoing'
    <2>1. text \in Seq(Chars)
      BY <1>2 DEF OptionTypes
    <2>2. Described(Append(text, c), prefix', zero_padding', right_padding', precision', mode')
      BY <1>1, <2>1, StarSays
    <2> QED BY <1>1, <2>2 DEF Ongoing
  <1>4. OptionTypes'
    <2>1. precision' \in Int
      BY <1>1, <1>2 DEF OptionTypes
    <2>2. text' \in Seq(Chars)
      BY <1>1, <1>2, TextGrows
    <2> QED BY <1>1, <1>2, <2>1, <2>2 DEF OptionTypes
  <1> QED BY <1>1, <1>3, <1>4, OptionOwn

\* The percent sign.
LEMMA PercentOwn ==
  ASSUME OptionIInv, NEW c \in Chars, Format!Percent(c)
  PROVE  OptionIInv'
  <1>1. /\ mode = "text" /\ mode' = "cont" /\ last' = last /\ text' = text
        /\ right_padding' = right_padding /\ prefix' = prefix /\ zero_padding' = zero_padding
        /\ precision' = precision
    BY DEF Format!Percent, Format!opts, Format!history
  <1>2. OptionTypes /\ Cleared
    BY <1>1 DEF OptionIInv
  <1>3. Ongoing'
    <2>1. zero_padding = FALSE /\ right_padding = FALSE
      BY <1>2 DEF Cleared
    <2>2. Described(<<>>, 0, zero_padding, right_padding, -1, "cont")
      BY <2>1, NothingSays
    <2> QED BY <1>1, <1>2, <2>2 DEF Ongoing, Cleared
  <1>4. OptionTypes'
    BY <1>1, <1>2 DEF OptionTypes
  <1> QED BY <1>1, <1>3, <1>4, OptionOwn

\* A step that changes neither the options nor the text, and not into them.
LEMMA OthersOwn ==
  ASSUME OptionIInv, mode' \in {mode, "end", "panic"}, UNCHANGED <<Format!opts, text, last>>
  PROVE  OptionIInv'
  <1>1. UNCHANGED <<prefix, zero_padding, right_padding, precision, text>>
    BY DEF Format!opts
  <1>2. OptionTypes'
    BY <1>1 DEF OptionIInv, OptionTypes
  <1>3. Format!OwnOptions'
    BY LastStays DEF OptionIInv
  <1>4. CASE mode' = mode
    BY <1>1, <1>2, <1>3, <1>4 DEF OptionIInv, Cleared, Ongoing
  <1>5. CASE mode' \in {"end", "panic"}
    BY <1>2, <1>3, <1>5 DEF OptionIInv
  <1> QED BY <1>4, <1>5

\* Every step keeps the invariant.
LEMMA OptionStepIInv == OptionIInv /\ [Format!Next]_(Format!vars) => OptionIInv'
  <1> SUFFICES ASSUME OptionIInv, [Format!Next]_(Format!vars) PROVE OptionIInv'
    OBVIOUS
  <1>1. CASE UNCHANGED Format!vars
    BY <1>1, OthersOwn DEF Format!vars, Format!history
  <1>2. CASE Format!End
    BY <1>2, OthersOwn DEF Format!End, Format!history
  <1>3. ASSUME NEW c \in Chars, Format!Plain(c) \/ Format!Unsupported(c) PROVE OptionIInv'
    BY <1>3, OthersOwn DEF Format!Plain, Format!Unsupported, Format!history
  <1>4. ASSUME NEW c \in Chars, Format!Percent(c) \/ Format!Digit(c) \/ Format!Minus(c)
        PROVE  OptionIInv'
    BY <1>4, PercentOwn, DigitOwn, MinusOwn
  <1>5. ASSUME NEW c \in Chars, Format!Long(c) \/ Format!Dot(c) PROVE OptionIInv'
    BY <1>5, LongOwn, DotOwn
  <1>6. ASSUME NEW c \in Chars, Format!parse_precision(c) \/ Format!Star(c) PROVE OptionIInv'
    BY <1>6, PrecisionOwn, StarOwn
  <1>7. ASSUME NEW c \in Chars, Format!Character(c) PROVE OptionIInv'
    <2>1. PICK arg, s, counted : Format!Convert(c, TRUE, arg, s, counted)
      BY <1>7, Zenon DEF Format!Character
    <2> QED BY <2>1, ConvertOwn
  <1>8. ASSUME NEW c \in Chars, NEW v \in Args,
               Format!Decimal(c, v) \/ Format!Unsigned(c, v) \/ Format!HexOrOctal(c, v)
        PROVE  OptionIInv'
    <2>1. PICK asserts, s, counted : Format!Convert(c, asserts, v, s, counted)
      BY <1>8, Zenon DEF Format!Decimal, Format!Unsigned, Format!HexOrOctal
    <2> QED BY <2>1, ConvertOwn
  <1>9. ASSUME NEW c \in Chars, NEW a \in Strings, Format!String(c, a) PROVE OptionIInv'
    <2>1. PICK asserts, s, counted : Format!Convert(c, asserts, a, s, counted)
      BY <1>9, Zenon DEF Format!String
    <2> QED BY <2>1, ConvertOwn
  <1> QED BY <1>1, <1>2, <1>3, <1>4, <1>5, <1>6, <1>7, <1>8, <1>9, Zenon DEF Format!Next

\* At the start.
LEMMA OptionInit == Format!Init => OptionIInv
  <1> SUFFICES ASSUME Format!Init PROVE OptionIInv
    OBVIOUS
  <1>1. Cleared /\ mode = "text" /\ last = Format!None
    BY DEF Format!Init, Cleared
  <1>2. OptionTypes
    BY <1>1, ClearedIsTyped
  <1>3. Format!OwnOptions
    <2>1. last.conv = "none"
      BY <1>1 DEF Format!None
    <2> QED BY <2>1 DEF Format!OwnOptions
  <1> QED BY <1>1, <1>2, <1>3 DEF OptionIInv

\* For every format and arguments vkcprintf writes each directive with the
\* width, the padding and the precision that its own text asks for, whatever
\* directives came before it: the locals are set back at the end of each.
THEOREM OptionsAreOwn == Format!Spec => []Format!OwnOptions
  <1>1. Format!Init => OptionIInv
    BY OptionInit
  <1>2. OptionIInv /\ [Format!Next]_(Format!vars) => OptionIInv'
    BY OptionStepIInv
  <1>3. OptionIInv => Format!OwnOptions
    BY DEF OptionIInv
  <1> QED BY <1>1, <1>2, <1>3, PTL DEF Format!Spec

-----------------------------------------------------------------------------
(* The fields of numbers read as the numbers.                              *)

\* The digits of the set are sixteen.
LEMMA DigitsDiffer ==
  ASSUME NEW i \in 1..16, NEW j \in 1..16, Format!NumberSet[i] = Format!NumberSet[j]
  PROVE  i = j
  BY DEF Format!NumberSet

\* A digit has the value of its index.
LEMMA ValueOfDigit ==
  ASSUME NEW base \in {8, 10, 16}, NEW d \in 0..base - 1
  PROVE  /\ Format!Value(Format!NumberSet[d + 1]) = d
         /\ Format!NumberSet[d + 1] \in Format!DigitsIn(base)
  <1> DEFINE c == Format!NumberSet[d + 1]
  <1>1. d \in 0..15 /\ d + 1 \in 1..16 /\ d + 1 \in 1..base
    OBVIOUS
  <1>2. c \in Format!DigitsIn(base)
    BY <1>1 DEF Format!DigitsIn
  <1> DEFINE v == CHOOSE i \in 0..15 : Format!NumberSet[i + 1] = c
  <1>3. v \in 0..15 /\ Format!NumberSet[v + 1] = c
    BY <1>1, Zenon
  <1>4. Format!Value(c) = v
    BY Zenon DEF Format!Value
  <1> HIDE DEF v
  <1>5. v + 1 \in 1..16 /\ Format!NumberSet[v + 1] = Format!NumberSet[d + 1]
    BY <1>3
  <1>6. v + 1 = d + 1
    BY <1>1, <1>5, DigitsDiffer
  <1>7. v = d
    BY <1>1, <1>3, <1>6
  <1> QED BY <1>2, <1>4, <1>7

\* The characters of s up to l are digits that read as the number m.
IsNumber(s, base, l, m) ==
  /\ Len(s) = l /\ l \in Nat \ {0}
  /\ \A k \in 1..l : s[k] \in Format!DigitsIn(base)
  /\ Format!Number(s, base, 1, l) = m

\* One more digit.
LEMMA NumberGrows ==
  ASSUME NEW base \in {8, 10, 16}, NEW l \in Nat, NEW q \in Nat, NEW d \in 0..base - 1, NEW r,
         l = 0 => q = 0, l > 0 => IsNumber(r, base, l, q),
         NEW s, Len(s) = l + 1, s[l + 1] = Format!NumberSet[d + 1], SameUpTo(s, r, l),
         NEW m, m = base * q + d
  PROVE  IsNumber(s, base, l + 1, m)
  <1>1. s[l + 1] \in Format!DigitsIn(base) /\ Format!Value(s[l + 1]) = d
    BY ValueOfDigit
  <1>2. Format!Number(s, base, 1, l) = q
    <2>1. CASE l = 0
      <3>1. 0 < 1
        OBVIOUS
      <3>2. Format!Number(s, base, 1, 0) = 0
        BY <3>1, NumberOfNone
      <3> QED BY <2>1, <3>2
    <2>2. CASE l > 0
      <3>1. Format!Number(s, base, 1, l) = Format!Number(r, base, 1, l)
        BY NumberOfSame
      <3> QED BY <2>2, <3>1 DEF IsNumber
    <2> QED BY <2>1, <2>2
  <1>3. Format!Number(s, base, 1, l + 1) = base * q + d
    <2>1. 1 <= l + 1 /\ l + 1 \in Nat /\ (l + 1) - 1 = l
      OBVIOUS
    <2>2. Format!Number(s, base, 1, l + 1) =
            base * Format!Number(s, base, 1, l) + Format!Value(s[l + 1])
      BY <1>1, <2>1, NumberOfMore
    <2> QED BY <1>1, <1>2, <2>2
  <1>4. ASSUME NEW k \in 1..l + 1 PROVE s[k] \in Format!DigitsIn(base)
    <2>1. CASE k = l + 1
      BY <1>1, <2>1
    <2>2. CASE k # l + 1
      <3>1. k \in 1..l /\ l > 0
        BY <2>2
      <3> QED BY <3>1 DEF IsNumber, SameUpTo
    <2> QED BY <2>1, <2>2
  <1> QED BY <1>3, <1>4 DEF IsNumber

\* Quotient and remainder.
LEMMA Divided ==
  ASSUME NEW base \in {8, 10, 16}, NEW m \in Nat
  PROVE  /\ m \div base \in Nat /\ m % base \in 0..base - 1
         /\ base * (m \div base) + (m % base) = m
  <1>1. CASE base = 8
    BY <1>1
  <1>2. CASE base = 10
    BY <1>2
  <1>3. CASE base = 16
    BY <1>3
  <1> QED BY <1>1, <1>2, <1>3

\* The characters turned round.
LEMMA Reversed ==
  ASSUME NEW S, NEW s \in Seq(S)
  PROVE  /\ Len(s) \in Nat /\ Format!Reverse(s) \in Seq(S) /\ Len(Format!Reverse(s)) = Len(s)
         /\ \A k \in 1..Len(s) : Format!Reverse(s)[k] = s[(Len(s) - k) + 1]
  <1>1. Len(s) \in Nat /\ \A i \in 1..Len(s) : s[i] \in S
    OBVIOUS
  <1>2. \A i \in 1..Len(s) : s[(Len(s) - i) + 1] \in S
    BY <1>1
  <1>3. Format!Reverse(s) = [i \in 1..Len(s) |-> s[(Len(s) - i) + 1]]
    BY DEF Format!Reverse
  <1>4. Format!Reverse(s) \in [1..Len(s) -> S]
    BY <1>2, <1>3
  <1> QED BY <1>1, <1>3, <1>4

\* A digit before a text comes last when it is turned round.
LEMMA ReversedMore ==
  ASSUME NEW S, NEW d \in S, NEW x \in Seq(S), NEW r, r = Format!Reverse(<<d>> \o x)
  PROVE  /\ Len(x) \in Nat /\ Len(r) = Len(x) + 1 /\ r[Len(x) + 1] = d
         /\ SameUpTo(r, Format!Reverse(x), Len(x))
  <1> DEFINE l == Len(x)
             t == <<d>> \o x
  <1>1. <<d>> \in Seq(S) /\ Len(<<d>>) = 1 /\ <<d>>[1] = d
    OBVIOUS
  <1>2. /\ l \in Nat /\ t \in Seq(S) /\ Len(t) = 1 + l
        /\ \A i \in 1..1 + l : t[i] = IF i <= 1 THEN <<d>>[i] ELSE x[i - 1]
    BY <1>1, ConcatProperties
  <1>3. t[1] = d /\ \A i \in 1..l : t[i + 1] = x[i]
    <2>1. 1 \in 1..1 + l /\ \A i \in 1..l : i + 1 \in 1..1 + l /\ ~(i + 1 <= 1) /\ (i + 1) - 1 = i
      BY <1>2
    <2> QED BY <1>1, <1>2, <2>1
  <1> HIDE DEF t
  <1>4. Len(r) = 1 + l /\ \A k \in 1..1 + l : r[k] = t[((1 + l) - k) + 1]
    <2>1. r = Format!Reverse(t)
      BY DEF t
    <2>2. Len(r) = Len(t) /\ \A k \in 1..Len(t) : r[k] = t[(Len(t) - k) + 1]
      BY <1>2, <2>1, Reversed
    <2> QED BY <1>2, <2>2
  <1>5. \A k \in 1..l : Format!Reverse(x)[k] = x[(l - k) + 1]
    BY Reversed
  <1> HIDE DEF l
  <1>6. r[l + 1] = d
    <2>1. l + 1 \in 1..1 + l /\ ((1 + l) - (l + 1)) + 1 = 1
      BY <1>2
    <2> QED BY <1>3, <1>4, <2>1
  <1>7. ASSUME NEW k \in 1..l PROVE r[k] = Format!Reverse(x)[k]
    <2>1. k \in 1..1 + l /\ (l - k) + 1 \in 1..l /\ ((1 + l) - k) + 1 = ((l - k) + 1) + 1
      BY <1>2
    <2> QED BY <1>3, <1>4, <1>5, <2>1
  <1> QED BY <1>2, <1>4, <1>6, <1>7 DEF SameUpTo, l

\* The digits that come off a number, turned round, read as the number.
LEMMA TableReads ==
  ASSUME NEW base \in {8, 10, 16}, NEW n \in Nat, NEW str, Table(base, n, str)
  PROVE  \A m \in 0..n : IsNumber(Format!Reverse(str[m]), base, Len(str[m]), m)
  <1> DEFINE Holds(m) == IsNumber(Format!Reverse(str[m]), base, Len(str[m]), m)
             T == {m \in 0..n : ~Holds(m)}
  <1> SUFFICES ASSUME T # {} PROVE FALSE
    OBVIOUS
  <1>1. PICK m \in T : \A t \in T : m <= t
    <2>1. T \in SUBSET Nat
      OBVIOUS
    <2> HIDE DEF T
    <2> QED BY <2>1, LeastOf
  <1>2. m \in 0..n /\ ~Holds(m) /\ m \in Nat
    OBVIOUS
  <1>3. str[m] = DigitsOf(base, str, m)
    BY <1>2 DEF Table
  <1>4. \A k \in 0..n : str[k] \in Seq(Glyphs)
    BY TableIsText DEF Text
  <1>5. \A i \in 1..16 : Format!NumberSet[i] \in Glyphs
    BY DEF Glyphs
  <1>6. CASE m < base
    <2> DEFINE d == Format!NumberSet[m + 1]
               x == <<>>
               r == Format!Reverse(str[m])
    <2>1. m + 1 \in 1..16 /\ m \in 0..base - 1
      BY <1>2, <1>6
    <2>2. d \in Glyphs
      BY <1>5, <2>1
    <2>3. str[m] = <<d>>
      BY <1>3, <1>6 DEF DigitsOf
    <2> HIDE DEF d
    <2>4. Len(str[m]) = 1 /\ str[m] \in Seq(Glyphs) /\ str[m][1] = d
      BY <2>2, <2>3
    <2>5. Len(r) = 0 + 1 /\ r[0 + 1] = d
      BY <2>4, Reversed
    <2> HIDE DEF r
    <2>6. SameUpTo(r, x, 0)
      BY DEF SameUpTo
    <2>7. m = base * 0 + m /\ 0 + 1 = 1 /\ ~(0 > 0) /\ 0 \in Nat
      BY <1>2
    <2>8. r[0 + 1] = Format!NumberSet[m + 1]
      BY <2>5 DEF d
    <2> HIDE DEF x
    <2>9. IsNumber(r, base, 0 + 1, m)
      BY <2>1, <2>5, <2>6, <2>7, <2>8, NumberGrows
    <2> QED BY <1>2, <2>4, <2>7, <2>9 DEF r
  <1>7. CASE ~(m < base)
    <2> DEFINE q == m \div base
               e == m % base
               d == Format!NumberSet[e + 1]
               x == str[q]
               r == Format!Reverse(str[m])
               l == Len(x)
    <2>1. q \in 0..m - 1
      BY <1>2, <1>7, DivisionShrinks
    <2>2. q \in Nat /\ e \in 0..base - 1 /\ base * q + e = m
      BY <1>2, Divided
    <2>3. str[m] = <<d>> \o x
      BY <1>3, <1>7 DEF DigitsOf
    <2> HIDE DEF q, e
    <2>4. q \in 0..n /\ e + 1 \in 1..16 /\ ~(m <= q)
      BY <1>2, <2>1, <2>2
    <2>5. Holds(q)
      BY <1>1, <2>4
    <2>6. d \in Glyphs /\ x \in Seq(Glyphs)
      BY <1>4, <1>5, <2>4
    <2>7. l \in Nat /\ Len(r) = l + 1 /\ r[l + 1] = d /\ SameUpTo(r, Format!Reverse(x), l)
      BY <2>3, <2>6, ReversedMore
    <2>8. IsNumber(Format!Reverse(x), base, l, q) /\ l > 0
      BY <2>5 DEF IsNumber
    <2>9. Len(str[m]) = l + 1
      <3>1. str[m] \in Seq(Glyphs)
        BY <1>2, <1>4
      <3> QED BY <2>7, <3>1, Reversed
    <2> HIDE DEF r, x, l
    <2>10. l # 0 /\ r[l + 1] = Format!NumberSet[e + 1]
      BY <2>7, <2>8 DEF d
    <2>11. m = base * q + e
      BY <2>2
    <2>12. IsNumber(r, base, l + 1, m)
      BY <2>2, <2>7, <2>8, <2>10, <2>11, NumberGrows
    <2> QED BY <1>2, <2>9, <2>12 DEF r
  <1> QED BY <1>6, <1>7

\* The l characters of t after the first o are those of r.
Shifted(t, r, o, l) == \A k \in 1..l : t[o + k] = r[k]

\* A number that begins after o characters that are nothing.
LEMMA ShiftedNumber ==
  ASSUME NEW base, NEW t, NEW r, NEW o \in Nat, NEW i \in Nat \ {0}, i <= o + 1,
         Format!Number(t, base, i, o) = 0, NEW l \in Nat, Shifted(t, r, o, l)
  PROVE  Format!Number(t, base, i, o + l) = Format!Number(r, base, 1, l)
  <1> DEFINE T == {k \in 0..l : Format!Number(t, base, i, o + k) # Format!Number(r, base, 1, k)}
  <1> SUFFICES ASSUME T # {} PROVE FALSE
    OBVIOUS
  <1>1. PICK k \in T : \A x \in T : k <= x
    <2>1. T \in SUBSET Nat
      OBVIOUS
    <2> HIDE DEF T
    <2> QED BY <2>1, LeastOf
  <1>2. k \in 0..l /\ Format!Number(t, base, i, o + k) # Format!Number(r, base, 1, k)
    OBVIOUS
  <1>3. CASE k = 0
    <2>1. o + 0 = o /\ 0 < 1
      OBVIOUS
    <2>2. Format!Number(r, base, 1, 0) = 0
      BY <2>1, NumberOfNone
    <2> QED BY <1>2, <1>3, <2>1, <2>2
  <1>4. CASE k # 0
    <2>1. /\ k - 1 \in 0..l /\ ~(k <= k - 1) /\ k \in 1..l /\ 1 <= k /\ k \in Nat
          /\ o + k \in Nat /\ i <= o + k /\ (o + k) - 1 = o + (k - 1)
      BY <1>2, <1>4
    <2>2. Format!Number(t, base, i, o + (k - 1)) = Format!Number(r, base, 1, k - 1)
      BY <1>1, <2>1
    <2>3. t[o + k] = r[k]
      BY <2>1 DEF Shifted
    <2> DEFINE a == Format!Number(t, base, i, o + (k - 1))
    <2>4. Format!Number(t, base, i, o + k) =
            IF t[o + k] \in Format!DigitsIn(base) THEN base * a + Format!Value(t[o + k]) ELSE a
      BY <2>1, NumberOfMore
    <2>5. Format!Number(r, base, 1, k) =
            IF r[k] \in Format!DigitsIn(base) THEN base * a + Format!Value(r[k]) ELSE a
      BY <2>1, <2>2, NumberOfMore
    <2> HIDE DEF a
    <2> QED BY <1>2, <2>3, <2>4, <2>5
  <1> QED BY <1>3, <1>4

\* The number of the l characters after the first o of t is that of r.
NumberKept(t, r, base, o, l) ==
  Format!Number(t, base, o + 1, o + l) = Format!Number(r, base, 1, l)

\* A number after o characters.
LEMMA NumberAfter ==
  ASSUME NEW base, NEW t, NEW r, NEW o, o \in Nat, NEW l, l \in Nat, Shifted(t, r, o, l)
  PROVE  NumberKept(t, r, base, o, l)
  <1> DEFINE i == o + 1
  <1>1. i \in Nat \ {0} /\ i <= o + 1 /\ o < i
    OBVIOUS
  <1> HIDE DEF i
  <1>2. Format!Number(t, base, i, o) = 0
    BY <1>1, NumberOfNone
  <1>3. Format!Number(t, base, i, o + l) = Format!Number(r, base, 1, l)
    BY <1>1, <1>2, ShiftedNumber
  <1> QED BY <1>3 DEF i, NumberKept

\* Zeros are nothing.
LEMMA ZerosAreNothing ==
  ASSUME NEW base \in {8, 10, 16}, NEW t, NEW o \in Nat, \A k \in 1..o : t[k] = "0"
  PROVE  /\ "0" \in Format!DigitsIn(base)
         /\ Format!Number(t, base, 1, o) = 0
  <1>0. "0" \in Format!DigitsIn(base) /\ Format!Value("0") = 0
    <2>1. Format!NumberSet[0 + 1] = "0" /\ 0 \in 0..base - 1
      BY DEF Format!NumberSet
    <2> QED BY <2>1, ValueOfDigit
  <1> DEFINE T == {k \in 0..o : Format!Number(t, base, 1, k) # 0}
  <1> SUFFICES ASSUME T # {} PROVE FALSE
    BY <1>0
  <1>1. PICK k \in T : \A x \in T : k <= x
    <2>1. T \in SUBSET Nat
      OBVIOUS
    <2> HIDE DEF T
    <2> QED BY <2>1, LeastOf
  <1>2. k \in 0..o /\ Format!Number(t, base, 1, k) # 0
    OBVIOUS
  <1>3. CASE k = 0
    <2>1. 0 < 1
      OBVIOUS
    <2> QED BY <1>2, <1>3, <2>1, NumberOfNone
  <1>4. CASE k # 0
    <2>1. k - 1 \in 0..o /\ ~(k <= k - 1) /\ k \in 1..o /\ 1 <= k /\ k \in Nat
      BY <1>2, <1>4
    <2>2. Format!Number(t, base, 1, k - 1) = 0 /\ t[k] = "0"
      BY <1>1, <2>1
    <2>3. Format!Number(t, base, 1, k) = base * Format!Number(t, base, 1, k - 1) + Format!Value(t[k])
      BY <1>0, <2>1, <2>2, NumberOfMore
    <2>4. base * 0 + 0 = 0
      OBVIOUS
    <2> QED BY <1>0, <1>2, <2>2, <2>3, <2>4
  <1> QED BY <1>3, <1>4

\* Where the text c and the padding are in a padded field f: the text begins
\* after o characters.
Placed(f, c, t, o) ==
  /\ o \in Nat /\ Len(f) \in Nat /\ o + Len(c) <= Len(f)
  /\ \A k \in 1..Len(c) : f[o + k] = c[k]
  /\ \A k \in 1..o : f[k] = t
  /\ \A k \in o + Len(c) + 1..Len(f) : f[k] = t

\* A field is padded on one side.
LEMMA PaddedIsPlaced ==
  ASSUME NEW c \in Text, NEW t \in Glyphs, NEW width \in Int, NEW right \in BOOLEAN
  PROVE  \E o : /\ Placed(Format!Padded(c, t, width, right), c, t, o)
                /\ ~right => Len(Format!Padded(c, t, width, right)) = o + Len(c)
  <1> DEFINE l == Len(c)
             n == width - l
             k == IF n > 0 THEN n ELSE 0
             p == Format!Pad(t, n)
             f == Format!Padded(c, t, width, right)
  <1>1. l \in Nat
    BY DEF Text
  <1>2. p = [i \in 1..k |-> t]
    BY DEF Format!Pad
  <1>3. f = IF right THEN c \o p ELSE p \o c
    BY DEF Format!Padded
  <1> HIDE DEF p, l, f
  <1>4. k \in Nat
    BY <1>1
  <1> HIDE DEF k
  <1>5. p \in Text /\ Len(p) = k /\ \A i \in 1..k : p[i] = t
    <2>1. \A i \in 1..k : p[i] = t
      BY <1>2
    <2>2. p \in Text /\ Len(p) = k
      <3>1. t \in Glyphs
        OBVIOUS
      <3> QED BY <1>2, <1>4, <3>1, ManyGlyphs DEF Text
    <2> QED BY <2>1, <2>2
  <1>6. /\ Len(c \o p) = l + k
        /\ \A i \in 1..l + k : (c \o p)[i] = IF i <= l THEN c[i] ELSE p[i - l]
        /\ Len(p \o c) = k + l
        /\ \A i \in 1..k + l : (p \o c)[i] = IF i <= k THEN p[i] ELSE c[i - k]
    BY <1>5, ConcatProperties DEF Text, l
  <1>7. CASE right
    <2>1. f = c \o p
      BY <1>3, <1>7
    <2>2. \A i \in 1..l : f[0 + i] = c[i]
      <3>1. \A i \in 1..l : i \in 1..l + k /\ i <= l /\ 0 + i = i
        BY <1>1, <1>4
      <3> QED BY <1>6, <2>1, <3>1
    <2>3. \A i \in 0 + l + 1..l + k : f[i] = t
      <3>1. \A i \in 0 + l + 1..l + k : i \in 1..l + k /\ ~(i <= l) /\ i - l \in 1..k
        BY <1>1, <1>4
      <3> QED BY <1>5, <1>6, <2>1, <3>1
    <2>4. Len(f) = l + k /\ l + k \in Nat /\ 0 + l <= l + k /\ 0 \in Nat /\ 1..0 = {}
      BY <1>1, <1>4, <1>6, <2>1
    <2>5. Placed(f, c, t, 0)
      BY <2>2, <2>3, <2>4 DEF Placed, l
    <2> QED BY <1>7, <2>5 DEF f
  <1>8. CASE ~right
    <2>1. f = p \o c
      BY <1>3, <1>8
    <2>2. \A i \in 1..l : f[k + i] = c[i]
      <3>1. \A i \in 1..l : k + i \in 1..k + l /\ ~(k + i <= k) /\ (k + i) - k = i
        BY <1>1, <1>4
      <3> QED BY <1>6, <2>1, <3>1
    <2>3. \A i \in 1..k : f[i] = t
      <3>1. \A i \in 1..k : i \in 1..k + l /\ i <= k
        BY <1>1, <1>4
      <3> QED BY <1>5, <1>6, <2>1, <3>1
    <2>4. Len(f) = k + l /\ k + l \in Nat /\ k + l <= k + l /\ k + l + 1..k + l = {}
      BY <1>1, <1>4, <1>6, <2>1
    <2>5. Placed(f, c, t, k)
      BY <1>4, <2>2, <2>3, <2>4 DEF Placed, l
    <2> QED BY <2>4, <2>5 DEF f, l
  <1> QED BY <1>7, <1>8

\* Format!ReadsAs with the blank a parameter.
ReadsLike(s, base, n, blank) ==
  \E i \in {k \in 1..Len(s) : s[k] \in Format!DigitsIn(base) \cup {"-"}} :
    LET first == IF n < 0 THEN i + 1 ELSE i
    IN /\ \A k \in 1..i - 1 : s[k] = blank
       /\ n < 0 => s[i] = "-"
       /\ \E j \in first..Len(s) :
            /\ \A k \in j + 1..Len(s) : s[k] = blank
            /\ \A k \in first..j : s[k] \in Format!DigitsIn(base)
            /\ Format!Number(s, base, first, j) = IF n < 0 THEN -n ELSE n

\* It is that.
LEMMA ReadsAlike ==
  ASSUME NEW s, NEW base, NEW n, ReadsLike(s, base, n, " ")
  PROVE  Format!ReadsAs(s, base, n)
  BY Zenon DEF ReadsLike, Format!ReadsAs

\* A positive number in a field.
LEMMA PositiveReads ==
  ASSUME NEW base \in {8, 10, 16}, NEW n \in Nat, NEW r, IsNumber(r, base, Len(r), n),
         NEW f, NEW blank, NEW o, Placed(f, r, blank, o)
  PROVE  ReadsLike(f, base, n, blank)
  <1> DEFINE l == Len(r)
             i == o + 1
             j == o + l
  <1>1. /\ l \in Nat \ {0} /\ Format!Number(r, base, 1, l) = n
        /\ \A k \in 1..l : r[k] \in Format!DigitsIn(base)
    BY DEF IsNumber
  <1>2. /\ o \in Nat /\ Len(f) \in Nat /\ o + l <= Len(f)
        /\ \A k \in 1..l : f[o + k] = r[k]
        /\ \A k \in 1..o : f[k] = blank
        /\ \A k \in o + l + 1..Len(f) : f[k] = blank
    BY DEF Placed
  <1> HIDE DEF l
  <1>3. /\ i \in 1..Len(f) /\ i - 1 = o /\ j \in i..Len(f) /\ i \in Nat \ {0} /\ o < i
        /\ 1 \in 1..l /\ l \in Nat /\ ~(n < 0)
    BY <1>1, <1>2
  <1>4. ASSUME NEW k \in i..j PROVE f[k] \in Format!DigitsIn(base)
    <2>1. k - o \in 1..l /\ o + (k - o) = k
      BY <1>1, <1>2
    <2>2. f[o + (k - o)] = r[k - o] /\ r[k - o] \in Format!DigitsIn(base)
      BY <1>1, <1>2, <2>1
    <2> QED BY <2>1, <2>2
  <1>5. Format!Number(f, base, i, j) = n
    <2>1. Shifted(f, r, o, l) /\ o \in Nat /\ l \in Nat
      BY <1>2, <1>3 DEF Shifted
    <2>2. NumberKept(f, r, base, o, l)
      BY <2>1, NumberAfter
    <2> QED BY <1>1, <2>2 DEF NumberKept
  <1>6. f[i] \in Format!DigitsIn(base)
    BY <1>1, <1>2, <1>3
  <1> HIDE DEF i
  <1>7. \A k \in j + 1..Len(f) : f[k] = blank
    BY <1>2
  <1> HIDE DEF j
  <1> QED BY <1>2, <1>3, <1>4, <1>5, <1>6, <1>7 DEF ReadsLike

\* A minus before a text.
LEMMA MinusBefore ==
  ASSUME NEW r \in Text, NEW c, c = <<"-">> \o r
  PROVE  c \in Text /\ Len(c) = 1 + Len(r) /\ c[1] = "-" /\ Shifted(c, r, 1, Len(r))
  <1> DEFINE l == Len(r)
  <1>0. l \in Nat
    BY DEF Text
  <1>1. "-" \in Glyphs
    BY Zenon DEF Glyphs
  <1>2. <<"-">> \in Text /\ Len(<<"-">>) = 1 /\ <<"-">>[1] = "-"
    BY <1>1, OneGlyph DEF Text
  <1>3. /\ c \in Text /\ Len(c) = 1 + l
        /\ \A k \in 1..1 + l : c[k] = IF k <= 1 THEN <<"-">>[k] ELSE r[k - 1]
    BY <1>2, ConcatProperties DEF Text
  <1>4. 1 \in 1..1 + l /\ \A k \in 1..l : 1 + k \in 1..1 + l /\ ~(1 + k <= 1) /\ (1 + k) - 1 = k
    BY <1>0
  <1> QED BY <1>2, <1>3, <1>4 DEF Shifted

\* A negative number in a field, after a minus.
LEMMA NegativeReads ==
  ASSUME NEW base \in {8, 10, 16}, NEW n \in Int, n < 0, NEW r,
         IsNumber(r, base, Len(r), -n), NEW c, Len(c) = 1 + Len(r), c[1] = "-",
         Shifted(c, r, 1, Len(r)),
         NEW f, NEW blank, NEW o, Placed(f, c, blank, o)
  PROVE  ReadsLike(f, base, n, blank)
  <1> DEFINE l == Len(r)
             i == o + 1
             q == o + 1
             j == q + l
  <1>1. /\ l \in Nat \ {0} /\ Format!Number(r, base, 1, l) = -n
        /\ \A k \in 1..l : r[k] \in Format!DigitsIn(base)
    BY DEF IsNumber
  <1>2. Len(c) = 1 + l /\ c[1] = "-" /\ \A k \in 1..l : c[1 + k] = r[k]
    BY DEF Shifted
  <1>3. /\ o \in Nat /\ Len(f) \in Nat /\ o + (1 + l) <= Len(f)
        /\ \A k \in 1..1 + l : f[o + k] = c[k]
        /\ \A k \in 1..o : f[k] = blank
        /\ \A k \in o + (1 + l) + 1..Len(f) : f[k] = blank
    BY <1>2 DEF Placed
  <1> HIDE DEF l
  <1>4. /\ i \in 1..Len(f) /\ i - 1 = o /\ j \in i + 1..Len(f) /\ 1 \in 1..1 + l /\ l \in Nat
        /\ q \in Nat /\ q + 1 \in Nat \ {0} /\ q < q + 1 /\ q + 1 <= q + 1 /\ i + 1 = q + 1
    BY <1>1, <1>3
  <1>5. f[i] = "-"
    BY <1>2, <1>3, <1>4
  <1>6. \A k \in 1..l : f[q + k] = r[k]
    <2>1. \A k \in 1..l : 1 + k \in 1..1 + l /\ o + (1 + k) = q + k
      BY <1>1, <1>3
    <2> QED BY <1>2, <1>3, <2>1
  <1>7. ASSUME NEW k \in i + 1..j PROVE f[k] \in Format!DigitsIn(base)
    <2>1. k - q \in 1..l /\ q + (k - q) = k
      BY <1>1, <1>3
    <2>2. f[q + (k - q)] = r[k - q] /\ r[k - q] \in Format!DigitsIn(base)
      BY <1>1, <1>6, <2>1
    <2> QED BY <2>1, <2>2
  <1>8. \A k \in j + 1..Len(f) : f[k] = blank
    <2>1. j + 1 = o + (1 + l) + 1
      BY <1>1, <1>3
    <2> QED BY <1>3, <2>1
  <1> HIDE DEF q
  <1>9. Format!Number(f, base, q + 1, j) = -n
    <2>1. Shifted(f, r, q, l)
      BY <1>6 DEF Shifted
    <2>2. q \in Nat /\ l \in Nat
      BY <1>4
    <2>3. NumberKept(f, r, base, q, l)
      BY <2>1, <2>2, NumberAfter
    <2> QED BY <1>1, <2>3 DEF NumberKept
  <1> HIDE DEF i, j
  <1>10. Format!Number(f, base, i + 1, j) = -n
    BY <1>4, <1>9
  <1> QED BY <1>3, <1>4, <1>5, <1>7, <1>8, <1>10 DEF ReadsLike

\* A number with zeros before it.
LEMMA ZerosRead ==
  ASSUME NEW base \in {8, 10, 16}, NEW n \in Nat, NEW r, IsNumber(r, base, Len(r), n),
         NEW f, NEW o, Placed(f, r, "0", o), Len(f) = o + Len(r), NEW blank
  PROVE  ReadsLike(f, base, n, blank)
  <1> DEFINE l == Len(r)
             j == o + l
  <1>1. /\ l \in Nat \ {0} /\ Format!Number(r, base, 1, l) = n
        /\ \A k \in 1..l : r[k] \in Format!DigitsIn(base)
    BY DEF IsNumber
  <1>2. /\ o \in Nat /\ Len(f) = o + l
        /\ \A k \in 1..l : f[o + k] = r[k]
        /\ \A k \in 1..o : f[k] = "0"
    BY DEF Placed
  <1> HIDE DEF l
  <1>3. /\ 1 \in 1..Len(f) /\ j \in 1..Len(f) /\ 1..1 - 1 = {} /\ j + 1..Len(f) = {}
        /\ l \in Nat /\ 1 <= o + 1 /\ ~(n < 0)
    BY <1>1, <1>2
  <1>4. "0" \in Format!DigitsIn(base) /\ Format!Number(f, base, 1, o) = 0
    BY <1>2, ZerosAreNothing
  <1>5. Format!Number(f, base, 1, j) = n
    <2>1. Shifted(f, r, o, l)
      BY <1>2 DEF Shifted
    <2>2. /\ 1 \in Nat \ {0} /\ 1 <= o + 1 /\ o \in Nat /\ l \in Nat
          /\ Format!Number(f, base, 1, o) = 0
      BY <1>2, <1>3, <1>4
    <2>3. Format!Number(f, base, 1, o + l) = Format!Number(r, base, 1, l)
      BY <2>1, <2>2, ShiftedNumber
    <2> QED BY <1>1, <2>3
  <1>6. ASSUME NEW k \in 1..j PROVE f[k] \in Format!DigitsIn(base)
    <2>1. CASE k \in 1..o
      BY <1>2, <1>4, <2>1
    <2>2. CASE k \notin 1..o
      <3>1. k - o \in 1..l /\ o + (k - o) = k
        BY <1>1, <1>2, <2>2
      <3>2. f[o + (k - o)] = r[k - o] /\ r[k - o] \in Format!DigitsIn(base)
        BY <1>1, <1>2, <3>1
      <3> QED BY <3>1, <3>2
    <2> QED BY <2>1, <2>2
  <1>7. f[1] \in Format!DigitsIn(base)
    <2>1. 1 \in 1..j
      BY <1>3
    <2> QED BY <1>6, <2>1
  <1> HIDE DEF j
  <1> QED BY <1>3, <1>5, <1>6, <1>7 DEF ReadsLike

\* The digits of a number, greatest first, are the number.
LEMMA DigitsRead ==
  ASSUME Format!KprintfAssumption, NEW base \in {8, 10, 16}, NEW m \in 0..Longs,
         NEW r, r = Format!Reverse(Format!Digits(m, base))
  PROVE  r \in Text /\ IsNumber(r, base, Len(r), m)
  <1> DEFINE g == CHOOSE str : Table(base, Longs, str)
  <1>0. Longs \in Nat /\ m \in -Longs..Longs /\ m >= 0
    BY DEF Format!KprintfAssumption
  <1>1. Table(base, Longs, g)
    <2>1. \E str : Table(base, Longs, str)
      BY <1>0, TableExists
    <2> QED BY <2>1, Zenon
  <1>2. Format!Digits(m, base) = IF m >= 0 THEN g[m] ELSE [i \in 1..Len(g[-m]) |-> "?"]
    BY DEF Format!Digits, Table, DigitsOf
  <1> HIDE DEF g
  <1>3. r = Format!Reverse(g[m])
    BY <1>0, <1>2
  <1>4. g[m] \in Seq(Glyphs)
    BY <1>0, <1>1, TableIsText DEF Text
  <1>5. r \in Seq(Glyphs) /\ Len(r) = Len(g[m])
    BY <1>3, <1>4, Reversed
  <1>6. IsNumber(r, base, Len(g[m]), m)
    BY <1>0, <1>1, <1>3, TableReads
  <1> QED BY <1>5, <1>6 DEF Text

\* The text c is r with the sign of n.
WithSign(c, n, r) == c = (IF n < 0 THEN <<"-">> ELSE <<>>) \o r

\* What a number is padded with.
PadOf(t, zero, blank) == t = IF zero THEN "0" ELSE blank

\* A number is read whatever it is padded with; zeros come before it.
LEMMA PaddedReads ==
  ASSUME NEW base \in {8, 10, 16}, NEW n \in Int, NEW r \in Text,
         IsNumber(r, base, Len(r), IF n < 0 THEN -n ELSE n),
         NEW c, WithSign(c, n, r),
         NEW width \in Int, NEW zero \in BOOLEAN, NEW right \in BOOLEAN,
         zero => n >= 0 /\ ~right, NEW blank, NEW t \in Glyphs, PadOf(t, zero, blank),
         NEW f, f = Format!Padded(c, t, width, right)
  PROVE  ReadsLike(f, base, n, blank) /\ Len(f) >= width
  <1>1. f = Format!Padded(c, t, width, right)
    OBVIOUS
  <1>2. t \in Glyphs
    OBVIOUS
  <1>4. zero => t = "0"
    BY DEF PadOf
  <1>5. ~zero => t = blank
    BY DEF PadOf
  <1>6. c \in Text
    <2>1. CASE n < 0
      BY <2>1, MinusBefore DEF WithSign
    <2>2. CASE ~(n < 0)
      BY <2>2, ConcatEmptySeq DEF Text, WithSign
    <2> QED BY <2>1, <2>2
  <1>7. PICK o : Placed(f, c, t, o) /\ (~right => Len(f) = o + Len(c))
    BY <1>1, <1>2, <1>6, PaddedIsPlaced
  <1>8. Len(f) >= width
    <2>1. Len(f) = IF width > Len(c) THEN width ELSE Len(c)
      BY <1>1, <1>2, <1>6, PaddedIsText
    <2>2. Len(c) \in Nat
      BY <1>6 DEF Text
    <2> QED BY <2>1, <2>2
  <1>9. ReadsLike(f, base, n, blank)
    <2>1. CASE n < 0
      <3>1. c = <<"-">> \o r /\ ~zero /\ IsNumber(r, base, Len(r), -n)
        BY <2>1 DEF WithSign
      <3>2. Len(c) = 1 + Len(r) /\ c[1] = "-" /\ Shifted(c, r, 1, Len(r))
        BY <3>1, MinusBefore
      <3>3. Placed(f, c, blank, o)
        BY <1>5, <1>7, <3>1
      <3> QED BY <2>1, <3>1, <3>2, <3>3, NegativeReads
    <2>2. CASE ~(n < 0)
      <3>1. c = r /\ n \in Nat /\ IsNumber(r, base, Len(r), n)
        BY <2>2, ConcatEmptySeq DEF Text, WithSign
      <3>2. CASE zero
        <4>1. Placed(f, r, "0", o) /\ Len(f) = o + Len(r)
          BY <1>4, <1>7, <3>1, <3>2
        <4> QED BY <3>1, <4>1, ZerosRead
      <3>3. CASE ~zero
        <4>1. Placed(f, r, blank, o)
          BY <1>5, <1>7, <3>1, <3>3
        <4> QED BY <3>1, <4>1, PositiveReads
      <3> QED BY <3>2, <3>3
    <2> QED BY <2>1, <2>2
  <1> QED BY <1>8, <1>9

\* What print_unum writes.
LEMMA UnumReads ==
  ASSUME Format!KprintfAssumption, NEW base \in {8, 10, 16}, NEW n \in 0..Longs,
         NEW width \in Int, NEW zero \in BOOLEAN, NEW right \in BOOLEAN, zero => ~right,
         NEW f, f = Format!print_unum(n, base, width, zero, right)
  PROVE  Format!ReadsAs(f, base, n) /\ Len(f) >= width
  <1> DEFINE blank == " "
             t == IF zero THEN "0" ELSE blank
             r == Format!Reverse(Format!Digits(n, base))
             c == (IF n < 0 THEN <<"-">> ELSE <<>>) \o r
  <1>0. n \in Int /\ ~(n < 0) /\ n >= 0
    BY DEF Format!KprintfAssumption
  <1>1. r \in Text /\ IsNumber(r, base, Len(r), n)
    BY DigitsRead
  <1>2. f = Format!Padded(r, t, width, right)
    BY Zenon DEF Format!print_unum
  <1>8. t \in Glyphs
    BY Zenon DEF Glyphs
  <1>9. ASSUME ReadsLike(f, base, n, blank) PROVE Format!ReadsAs(f, base, n)
    BY <1>9, ReadsAlike, Zenon
  <1>10. PadOf(t, zero, blank)
    BY Zenon DEF PadOf
  <1> HIDE DEF blank, t
  <1> HIDE DEF r
  <1>3. c = r
    BY <1>0, <1>1, ConcatEmptySeq DEF Text
  <1>4. WithSign(c, n, r)
    BY DEF WithSign
  <1> HIDE DEF c
  <1>5. f = Format!Padded(c, t, width, right)
    BY <1>2, <1>3
  <1>6. IsNumber(r, base, Len(r), IF n < 0 THEN -n ELSE n)
    BY <1>0, <1>1
  <1>7. zero => n >= 0 /\ ~right
    BY <1>0
  <1>11. ReadsLike(f, base, n, blank) /\ Len(f) >= width
    BY <1>0, <1>1, <1>4, <1>5, <1>6, <1>7, <1>8, <1>10, PaddedReads
  <1> QED BY <1>9, <1>11

\* What print_num writes.
LEMMA NumReads ==
  ASSUME Format!KprintfAssumption, NEW base \in {8, 10, 16}, NEW n \in -Longs..Longs,
         n # -(Longs \div 2), NEW width \in Int, NEW zero \in BOOLEAN, NEW right \in BOOLEAN,
         zero => n >= 0 /\ ~right, NEW f, f = Format!print_num(n, base, width, zero, right)
  PROVE  Format!ReadsAs(f, base, n) /\ Len(f) >= width
  <1> DEFINE blank == " "
             t == IF zero THEN "0" ELSE blank
             m == IF n < 0 THEN -n ELSE n
             r == Format!Reverse(Format!Digits(m, base))
             c == (IF n < 0 THEN <<"-">> ELSE <<>>) \o r
  <1>0. n \in Int /\ m \in 0..Longs
    BY DEF Format!KprintfAssumption
  <1>1. m = IF n < 0 /\ n # -(Longs \div 2) THEN -n ELSE n
    BY Zenon
  <1>2. f = Format!Padded(c, t, width, right)
    BY <1>1, Zenon DEF Format!print_num
  <1>8. t \in Glyphs
    BY Zenon DEF Glyphs
  <1>9. ASSUME ReadsLike(f, base, n, blank) PROVE Format!ReadsAs(f, base, n)
    BY <1>9, ReadsAlike, Zenon
  <1>10. PadOf(t, zero, blank)
    BY Zenon DEF PadOf
  <1> HIDE DEF blank, t
  <1>3. r \in Text /\ IsNumber(r, base, Len(r), m)
    <2> HIDE DEF m
    <2> QED BY <1>0, DigitsRead
  <1>4. IsNumber(r, base, Len(r), IF n < 0 THEN -n ELSE n)
    BY <1>3
  <1> HIDE DEF r
  <1>5. WithSign(c, n, r)
    BY DEF WithSign
  <1> HIDE DEF c
  <1>11. ReadsLike(f, base, n, blank) /\ Len(f) >= width
    BY <1>0, <1>2, <1>3, <1>4, <1>5, <1>8, <1>10, PaddedReads
  <1> QED BY <1>9, <1>11

\* The number that vkcprintf reads with a value of long_level.
MeantBy(conv, level, arg) ==
  IF conv = "d"
  THEN IF level > 0 THEN Format!Signed(arg, Longs) ELSE Format!Signed(arg % Ints, Ints)
  ELSE IF conv = "x" \/ (conv = "u" /\ level > 0) THEN arg ELSE arg % Ints

\* What Format!NumberReads says of a conversion of the number n.
ReadsRight(conv, n, zero, right, width, prec, field) ==
  (/\ conv \in {"d", "u", "x", "o"}
   /\ n < Longs \div 2 \/ conv = "x"
   /\ n > -(Longs \div 2)
   /\ ~((zero \/ prec # -1) /\ (n < 0 \/ right))) =>
    /\ Len(field) >= (IF prec = -1 THEN width ELSE prec)
    /\ Format!ReadsAs(field, Format!Base(conv), n)

\* The last conversion wrote the number that was read.
ReadsByLevel ==
  ReadsRight(last.conv, MeantBy(last.conv, last.level, last.arg), last.zero, last.right,
             last.prefix, last.precision, last.field)

\* The level is that of the text, but for what an earlier directive left.
LevelOf(level, t, kept) ==
  (Format!HasL(t) => level > 0) /\ (level > 0 => Format!HasL(t) \/ kept)

LevelIInv ==
  /\ earlier \in BOOLEAN /\ LevelOf(long_level, text, earlier)
  /\ last.conv \in {"d", "u", "x", "o"} =>
       last.arg \in Nat /\ LevelOf(last.level, last.text, last.earlier)

NumberIInv == OptionIInv /\ long_level \in Nat /\ ReadsByLevel /\ LevelIInv

\* No conversion.
LEMMA LastReads ==
  ASSUME ReadsByLevel, last' = last
  PROVE  ReadsByLevel'
  BY DEF ReadsByLevel

\* The conversion is one that reads right.
LEMMA ConversionReads ==
  ASSUME NEW c, NEW arg, NEW s,
         ReadsRight(c, MeantBy(c, long_level, arg), zero_padding, right_padding,
                    prefix, precision, s),
         last'.conv = c, last'.arg = arg, last'.field = s, last'.level = long_level,
         last'.prefix = prefix, last'.zero = zero_padding, last'.right = right_padding,
         last'.precision = precision
  PROVE  ReadsByLevel'
  BY Zenon DEF ReadsByLevel

\* A conversion keeps what was shown of the last one, or is shown itself.
LEMMA ConvertReads ==
  ASSUME ReadsByLevel, NEW c, NEW asserts, NEW arg, NEW s, NEW counted,
         Format!Convert(c, asserts, arg, s, counted),
         asserts => ReadsRight(c, MeantBy(c, long_level, arg), zero_padding,
                               right_padding, prefix, precision, s)
  PROVE  ReadsByLevel'
  <1>1. CASE asserts
             /\ last' = [conv |-> c, text |-> text, arg |-> arg, field |-> s,
                         level |-> long_level, prefix |-> prefix, zero |-> zero_padding,
                         right |-> right_padding, precision |-> precision, earlier |-> earlier]
    <2>1. /\ last'.conv = c /\ last'.arg = arg /\ last'.field = s /\ last'.level = long_level
          /\ last'.prefix = prefix /\ last'.zero = zero_padding /\ last'.right = right_padding
          /\ last'.precision = precision
      BY <1>1
    <2>2. ReadsRight(c, MeantBy(c, long_level, arg), zero_padding, right_padding,
                     prefix, precision, s)
      BY <1>1
    <2> QED BY <2>1, <2>2, ConversionReads
  <1>2. CASE last' = last
    BY <1>2, LastReads
  <1>3. \/ asserts
           /\ last' = [conv |-> c, text |-> text, arg |-> arg, field |-> s,
                       level |-> long_level, prefix |-> prefix, zero |-> zero_padding,
                       right |-> right_padding, precision |-> precision, earlier |-> earlier]
        \/ last' = last
    BY Zenon DEF Format!Convert, Format!history
  <1> QED BY <1>1, <1>2, <1>3

\* The types that the conversions of numbers need.
LEMMA NumberTypes ==
  ASSUME NumberIInv
  PROVE  /\ prefix \in Int /\ precision \in Int /\ long_level \in Nat
         /\ zero_padding \in BOOLEAN /\ right_padding \in BOOLEAN /\ ReadsByLevel
  BY DEF NumberIInv, OptionIInv, OptionTypes

\* The conversion d.
LEMMA DecimalReads ==
  ASSUME Format!KprintfAssumption, NumberIInv, NEW c, NEW v \in Args, Format!Decimal(c, v)
  PROVE  ReadsByLevel'
  <1> DEFINE n == IF long_level > 0 THEN Format!Signed(v, Longs) ELSE Format!Signed(v % Ints, Ints)
             a == Format!print_num(n, 10, precision, TRUE, FALSE)
             b == Format!print_num(n, 10, prefix, zero_padding, right_padding)
             s == IF precision # -1 THEN a ELSE b
  <1>0. /\ prefix \in Int /\ precision \in Int /\ long_level \in Nat
        /\ zero_padding \in BOOLEAN /\ right_padding \in BOOLEAN /\ ReadsByLevel
    BY NumberTypes
  <1>1. n \in -Longs..Longs
    BY NumbersFit
  <1>2. c = "d" /\ Format!Convert(c, TRUE, v, s, Len(s))
    BY Zenon DEF Format!Decimal
  <1>3. MeantBy("d", long_level, v) = n
    BY DEF MeantBy
  <1>4. Longs \in Nat /\ Longs \div 2 \in Int
    BY DEF Format!KprintfAssumption
  <1> HIDE DEF n
  <1>5. ReadsRight("d", n, zero_padding, right_padding, prefix, precision, s)
    <2> SUFFICES ASSUME n > -(Longs \div 2),
                        ~((zero_padding \/ precision # -1) /\ (n < 0 \/ right_padding))
                 PROVE  /\ Len(s) >= (IF precision = -1 THEN prefix ELSE precision)
                        /\ Format!ReadsAs(s, 10, n)
      <3>1. Format!Base("d") = 10
        BY DEF Format!Base
      <3> QED BY <3>1, Zenon DEF ReadsRight
    <2>1. n # -(Longs \div 2) /\ (n >= 0 <=> ~(n < 0)) /\ 10 \in {8, 10, 16}
      BY <1>1, <1>4
    <2>2. CASE precision = -1
      <3>1. s = b
        BY <2>2
      <3>2. zero_padding => n >= 0 /\ ~right_padding
        BY <1>0, <2>1
      <3> HIDE DEF s
      <3>3. Format!ReadsAs(b, 10, n) /\ Len(b) >= prefix
        BY <1>0, <1>1, <2>1, <3>2, NumReads
      <3> QED BY <2>2, <3>1, <3>3
    <2>3. CASE precision # -1
      <3>1. s = a
        BY <2>3
      <3>2. n >= 0
        BY <1>0, <2>1, <2>3
      <3> HIDE DEF s
      <3>3. Format!ReadsAs(a, 10, n) /\ Len(a) >= precision
        <4>1. TRUE \in BOOLEAN /\ FALSE \in BOOLEAN /\ (TRUE => n >= 0 /\ ~FALSE)
          BY <3>2
        <4> QED BY <1>0, <1>1, <2>1, <4>1, NumReads
      <3> QED BY <2>3, <3>1, <3>3
    <2> QED BY <2>2, <2>3
  <1> HIDE DEF s
  <1>6. TRUE => ReadsRight(c, MeantBy(c, long_level, v), zero_padding, right_padding,
                           prefix, precision, s)
    BY <1>2, <1>3, <1>5
  <1> QED BY <1>0, <1>2, <1>6, ConvertReads

\* The conversions u, x and o, whose numbers are not negative.
LEMMA OthersRead ==
  ASSUME NEW c \in {"u", "x", "o"}, NumberIInv, Format!KprintfAssumption, NEW n, NEW k,
         NEW base, Format!Base(c) = base, NEW s, NEW arg,
         MeantBy(c, long_level, arg) = n, Format!Convert(c, precision = -1, arg, s, k),
         /\ n < Longs \div 2 \/ c = "x"
         /\ n > -(Longs \div 2)
         /\ zero_padding => ~right_padding
         => Format!ReadsAs(s, base, n) /\ Len(s) >= prefix,
         n >= 0, n \in Int
  PROVE  ReadsByLevel'
  <1>0. zero_padding \in BOOLEAN /\ right_padding \in BOOLEAN /\ ReadsByLevel
    BY NumberTypes
  <1>1. ASSUME precision = -1
        PROVE  ReadsRight(c, n, zero_padding, right_padding, prefix, precision, s)
    BY <1>0, <1>1 DEF ReadsRight
  <1>2. precision = -1 =>
          ReadsRight(c, MeantBy(c, long_level, arg), zero_padding, right_padding,
                     prefix, precision, s)
    BY <1>1
  <1> DEFINE asserts == precision = -1
  <1>3. Format!Convert(c, asserts, arg, s, k) /\
        (asserts => ReadsRight(c, MeantBy(c, long_level, arg), zero_padding,
                               right_padding, prefix, precision, s))
    BY <1>2
  <1> HIDE DEF asserts
  <1> QED BY <1>0, <1>3, ConvertReads

\* The conversions u, x and o.
LEMMA UnsignedReads ==
  ASSUME Format!KprintfAssumption, NumberIInv, NEW c, NEW v \in Args,
         Format!Unsigned(c, v) \/ Format!HexOrOctal(c, v)
  PROVE  ReadsByLevel'
  <1>0. /\ prefix \in Int /\ precision \in Int /\ long_level \in Nat
        /\ zero_padding \in BOOLEAN /\ right_padding \in BOOLEAN
    BY NumberTypes
  <1>1. /\ Ints \in Nat \ {0} /\ Longs \in Nat /\ Ints < Longs /\ v \in 0..Longs - 1
        /\ v \in 0..Longs /\ v \in Int /\ v >= 0 /\ Longs \div 2 \in Int
    BY DEF Format!KprintfAssumption
  <1> DEFINE w == v % Ints
  <1>2. w \in 0..Ints - 1
    BY <1>1, SMT
  <1> HIDE DEF w
  <1>3. w \in 0..Longs /\ w \in -Longs..Longs /\ v \in -Longs..Longs /\ w >= 0 /\ w \in Int
    BY <1>1, <1>2
  <1>4. CASE Format!Unsigned(c, v)
    <2> DEFINE n == IF long_level > 0 THEN v ELSE w
               x == IF long_level > 0 THEN Format!Signed(v, Longs) ELSE v % Ints
               s == Format!print_num(x, 10, prefix, zero_padding, right_padding)
    <2>1. c = "u" /\ Format!Convert(c, precision = -1, v, s, Len(s))
      BY <1>4, Zenon DEF Format!Unsigned
    <2>2. MeantBy(c, long_level, v) = n /\ Format!Base(c) = 10
      BY <2>1 DEF MeantBy, Format!Base, w
    <2>3. n < Longs \div 2 => x = n
      BY DEF Format!Signed, w
    <2>4. n \in -Longs..Longs /\ n >= 0 /\ n \in Int /\ 10 \in {8, 10, 16}
      BY <1>1, <1>3
    <2> HIDE DEF n, x
    <2>5. ASSUME n < Longs \div 2, n > -(Longs \div 2), zero_padding => ~right_padding
          PROVE  Format!ReadsAs(s, 10, n) /\ Len(s) >= prefix
      <3>1. s = Format!print_num(n, 10, prefix, zero_padding, right_padding)
        BY <2>3, <2>5
      <3> HIDE DEF s
      <3>2. n # -(Longs \div 2) /\ (zero_padding => n >= 0 /\ ~right_padding)
        BY <1>1, <2>4, <2>5
      <3> QED BY <1>0, <2>4, <3>1, <3>2, NumReads
    <2>6. c \in {"u", "x", "o"} /\ c # "x"
      BY <2>1
    <2> HIDE DEF s
    <2> QED BY <2>1, <2>2, <2>4, <2>5, <2>6, OthersRead
  <1>5. CASE Format!HexOrOctal(c, v) /\ c = "x"
    <2> DEFINE s == Format!print_unum(v, 16, prefix, zero_padding, right_padding)
    <2>1. Format!Convert(c, precision = -1, v, s, Len(s))
      <3>1. Format!Convert(c, precision = -1, v, IF c = "x" THEN s ELSE
              Format!print_num(v % Ints, 8, prefix, zero_padding, right_padding),
              Len(IF c = "x" THEN s ELSE
              Format!print_num(v % Ints, 8, prefix, zero_padding, right_padding)))
        BY <1>5, Zenon DEF Format!HexOrOctal
      <3> HIDE DEF s
      <3> QED BY <1>5, <3>1
    <2>2. MeantBy(c, long_level, v) = v /\ Format!Base(c) = 16
      BY <1>5 DEF MeantBy, Format!Base
    <2>3. ASSUME zero_padding => ~right_padding
          PROVE  Format!ReadsAs(s, 16, v) /\ Len(s) >= prefix
      <3>1. 16 \in {8, 10, 16}
        OBVIOUS
      <3> QED BY <1>0, <1>1, <2>3, <3>1, UnumReads
    <2>4. c \in {"u", "x", "o"}
      BY <1>5
    <2> HIDE DEF s
    <2> QED BY <1>1, <2>1, <2>2, <2>3, <2>4, OthersRead
  <1>6. CASE Format!HexOrOctal(c, v) /\ c = "o"
    <2> DEFINE s == Format!print_num(v % Ints, 8, prefix, zero_padding, right_padding)
    <2>1. Format!Convert(c, precision = -1, v, s, Len(s))
      <3> DEFINE x == Format!print_unum(v, 16, prefix, zero_padding, right_padding)
      <3>1. Format!Convert(c, precision = -1, v, IF c = "x" THEN x ELSE s,
                           Len(IF c = "x" THEN x ELSE s))
        BY <1>6, Zenon DEF Format!HexOrOctal
      <3> HIDE DEF s, x
      <3> QED BY <1>6, <3>1
    <2> DEFINE n == MeantBy(c, long_level, v)
    <2>2. n = w /\ Format!Base(c) = 8
      BY <1>6 DEF MeantBy, Format!Base, w
    <2>3. s = Format!print_num(w, 8, prefix, zero_padding, right_padding)
      BY DEF w
    <2> HIDE DEF s, n
    <2>4. ASSUME n > -(Longs \div 2), zero_padding => ~right_padding
          PROVE  Format!ReadsAs(s, 8, n) /\ Len(s) >= prefix
      <3>1. n = w /\ 8 \in {8, 10, 16}
        BY <2>2
      <3>2. w # -(Longs \div 2) /\ (zero_padding => w >= 0 /\ ~right_padding)
        BY <1>1, <1>3, <2>4, <3>1
      <3>3. Format!ReadsAs(s, 8, w) /\ Len(s) >= prefix
        BY <1>0, <1>3, <2>3, <3>1, <3>2, NumReads
      <3> QED BY <3>1, <3>3
    <2>5. n >= 0 /\ n \in Int
      BY <1>1, <1>3, <2>2
    <2>6. c \in {"u", "x", "o"} /\ c = "o"
      BY <1>6
    <2>7. MeantBy(c, long_level, v) = n
      BY DEF n
    <2> QED BY <2>1, <2>2, <2>4, <2>5, <2>6, <2>7, OthersRead
  <1> QED BY <1>4, <1>5, <1>6 DEF Format!HexOrOctal

\* A conversion of another kind.
LEMMA NoNumberReads ==
  ASSUME ReadsByLevel, NEW c, c \notin {"d", "u", "x", "o"}, NEW asserts, NEW arg, NEW s,
         NEW counted, Format!Convert(c, asserts, arg, s, counted)
  PROVE  ReadsByLevel'
  <1>1. asserts => ReadsRight(c, MeantBy(c, long_level, arg), zero_padding,
                              right_padding, prefix, precision, s)
    BY DEF ReadsRight
  <1> QED BY <1>1, ConvertReads

\* An l more, or a character that is none.
LEMMA HasLGrows ==
  ASSUME NEW S, NEW t \in Seq(S), NEW c \in S
  PROVE  Format!HasL(Append(t, c)) <=> Format!HasL(t) \/ c = "l"
  <1> DEFINE u == Append(t, c)
             n == Len(t)
  <1>1. n \in Nat /\ Len(u) = n + 1 /\ u[n + 1] = c /\ \A k \in 1..n : u[k] = t[k]
    OBVIOUS
  <1> HIDE DEF u, n
  <1>2. \A k \in 1..n + 1 : k \in 1..n \/ k = n + 1
    BY <1>1
  <1>3. n + 1 \in 1..n + 1 /\ 1..n \subseteq 1..n + 1
    BY <1>1
  <1>4. (\E k \in 1..n + 1 : u[k] = "l") <=> (\E k \in 1..n : t[k] = "l") \/ c = "l"
    BY <1>1, <1>2, <1>3
  <1> QED BY <1>1, <1>4 DEF Format!HasL, u, n

\* A conversion is made with the level of its text, or of an earlier one, and
\* only d leaves none.
LEMMA ConvertLevels ==
  ASSUME LevelIInv, NEW c, NEW asserts, NEW arg, NEW s, NEW counted,
         c \in {"d", "u", "x", "o"} => arg \in Nat,
         Format!Convert(c, asserts, arg, s, counted),
         IF c = "d" THEN asserts /\ long_level' = 0 ELSE long_level' = long_level
  PROVE  LevelIInv'
  <1>1. CASE /\ asserts /\ text' = <<>>
             /\ last' = [conv |-> c, text |-> text, arg |-> arg, field |-> s,
                         level |-> long_level, prefix |-> prefix, zero |-> zero_padding,
                         right |-> right_padding, precision |-> precision, earlier |-> earlier]
             /\ earlier' = (c # "d" /\ (earlier \/ Format!HasL(text)))
    <2>1. /\ last'.conv = c /\ last'.arg = arg /\ last'.level = long_level
          /\ last'.text = text /\ last'.earlier = earlier
      BY <1>1
    <2>2. ~Format!HasL(text')
      BY <1>1 DEF Format!HasL
    <2>3. earlier' \in BOOLEAN
      BY <1>1, Zenon
    <2>5. LevelOf(long_level, text, earlier)
      BY DEF LevelIInv
    <2>4. LevelOf(long_level', text', earlier')
      <3>1. ~(0 > 0)
        OBVIOUS
      <3>2. CASE c = "d"
        BY <2>2, <3>1, <3>2, Zenon DEF LevelOf
      <3>3. CASE c # "d"
        BY <1>1, <2>2, <2>5, <3>3, Zenon DEF LevelOf
      <3> QED BY <3>2, <3>3
    <2> QED BY <2>1, <2>3, <2>4, <2>5 DEF LevelIInv
  <1>2. CASE ~asserts /\ UNCHANGED <<text, last, earlier>>
    BY <1>2 DEF LevelIInv
  <1> QED BY <1>1, <1>2, Zenon DEF Format!Convert, Format!history

\* A character of a directive's text.
LEMMA OptionLevels ==
  ASSUME LevelIInv, text \in Seq(Chars), long_level \in Nat, NEW c \in Chars,
         text' = Append(text, c), UNCHANGED <<last, earlier>>,
         long_level' = IF c = "l" THEN long_level + 1 ELSE long_level
  PROVE  LevelIInv'
  <1>1. Format!HasL(text') <=> Format!HasL(text) \/ c = "l"
    BY HasLGrows
  <1>2. LevelOf(long_level', text', earlier')
    BY <1>1 DEF LevelIInv, LevelOf
  <1> QED BY <1>2 DEF LevelIInv

\* Every step keeps the level that of the text or of an earlier one.
LEMMA LevelStepIInv ==
  ASSUME Format!KprintfAssumption, OptionIInv, long_level \in Nat, LevelIInv,
         [Format!Next]_(Format!vars)
  PROVE  LevelIInv'
  <1>0. text \in Seq(Chars)
    BY DEF OptionIInv, OptionTypes
  <1>1. CASE UNCHANGED <<long_level, text, last, earlier>>
    BY <1>1 DEF LevelIInv
  <1>2. UNCHANGED Format!vars \/ Format!End => UNCHANGED <<long_level, text, last, earlier>>
    BY DEF Format!vars, Format!End, Format!history
  <1>3. \A c \in Chars : Format!Plain(c) \/ Format!Percent(c) \/ Format!Unsupported(c) =>
          UNCHANGED <<long_level, text, last, earlier>>
    BY DEF Format!Plain, Format!Percent, Format!Unsupported, Format!history
  <1>4. ASSUME NEW c \in Chars,
               \/ Format!Digit(c) \/ Format!Minus(c) \/ Format!Long(c) \/ Format!Dot(c)
               \/ Format!parse_precision(c) \/ Format!Star(c)
        PROVE  LevelIInv'
    <2>1. c \in Format!DigitChars => c # "l"
      BY KindsApart
    <2>2. /\ text' = Append(text, c) /\ UNCHANGED <<last, earlier>>
          /\ long_level' = IF c = "l" THEN long_level + 1 ELSE long_level
      BY <1>4, <2>1 DEF Format!Digit, Format!Minus, Format!Long, Format!Dot,
         Format!parse_precision, Format!Star, Format!Option, Format!history
    <2> QED BY <1>0, <2>2, OptionLevels
  <1>5. ASSUME NEW c \in Chars, Format!Character(c) PROVE LevelIInv'
    <2>1. PICK arg, s, counted : Format!Convert(c, TRUE, arg, s, counted)
      BY <1>5, Zenon DEF Format!Character
    <2>2. c \notin {"d", "u", "x", "o"} /\ long_level' = long_level
      BY <1>5 DEF Format!Character
    <2> QED BY <2>1, <2>2, ConvertLevels
  <1>6. ASSUME NEW c \in Chars, NEW a \in Strings, Format!String(c, a) PROVE LevelIInv'
    <2>1. PICK asserts, s, counted : Format!Convert(c, asserts, a, s, counted)
      BY <1>6, Zenon DEF Format!String
    <2>2. c = "s" /\ long_level' = long_level
      BY <1>6, Zenon DEF Format!String
    <2> QED BY <2>1, <2>2, ConvertLevels
  <1>7. \A v \in Args : v \in Nat
    BY DEF Format!KprintfAssumption
  <1>8. ASSUME NEW c \in Chars, NEW v \in Args, Format!Decimal(c, v) PROVE LevelIInv'
    <2>1. PICK s, counted : Format!Convert(c, TRUE, v, s, counted)
      BY <1>8, Zenon DEF Format!Decimal
    <2>2. c = "d" /\ long_level' = 0
      BY <1>8, Zenon DEF Format!Decimal, Format!LevelBack
    <2> QED BY <1>7, <2>1, <2>2, ConvertLevels
  <1>9. ASSUME NEW c \in Chars, NEW v \in Args, Format!Unsigned(c, v) \/ Format!HexOrOctal(c, v)
        PROVE  LevelIInv'
    <2>1. PICK asserts, s, counted : Format!Convert(c, asserts, v, s, counted)
      BY <1>9, Zenon DEF Format!Unsigned, Format!HexOrOctal
    <2>2. c # "d" /\ long_level' = long_level
      <3>1. c \in {"u", "x", "o"} /\ long_level' = long_level
        BY <1>9, Zenon DEF Format!Unsigned, Format!HexOrOctal
      <3> QED BY <3>1
    <2> QED BY <1>7, <2>1, <2>2, ConvertLevels
  <1> QED BY <1>1, <1>2, <1>3, <1>4, <1>5, <1>6, <1>8, <1>9, Zenon DEF Format!Next

\* Every step keeps the invariant.
LEMMA NumberStepIInv ==
  ASSUME Format!KprintfAssumption
  PROVE  NumberIInv /\ [Format!Next]_(Format!vars) => NumberIInv'
  <1> SUFFICES ASSUME NumberIInv, [Format!Next]_(Format!vars)
               PROVE  long_level' \in Nat /\ ReadsByLevel'
    BY OptionStepIInv, LevelStepIInv DEF NumberIInv
  <1>0. long_level \in Nat /\ ReadsByLevel
    BY DEF NumberIInv
  <1>1. CASE UNCHANGED Format!vars
    BY <1>0, <1>1, LastReads DEF Format!vars, Format!history
  <1>2. CASE Format!End
    BY <1>0, <1>2, LastReads DEF Format!End, Format!history
  <1>3. ASSUME NEW c \in Chars,
               \/ Format!Plain(c) \/ Format!Percent(c) \/ Format!Digit(c) \/ Format!Minus(c)
               \/ Format!Dot(c) \/ Format!parse_precision(c) \/ Format!Unsupported(c)
        PROVE  long_level' \in Nat /\ ReadsByLevel'
    <2>1. last' = last /\ long_level' = long_level
      BY <1>3 DEF Format!Plain, Format!Percent, Format!Digit, Format!Minus, Format!Dot,
                  Format!parse_precision, Format!Unsupported, Format!Option, Format!history
    <2> QED BY <1>0, <2>1, LastReads
  <1>4. ASSUME NEW c \in Chars, Format!Long(c) \/ Format!Star(c)
        PROVE  long_level' \in Nat /\ ReadsByLevel'
    <2>1. last' = last /\ (long_level' = long_level \/ long_level' = long_level + 1)
      BY <1>4 DEF Format!Long, Format!Star, Format!Option, Format!history
    <2> QED BY <1>0, <2>1, LastReads
  <1>5. ASSUME NEW c \in Chars, Format!Character(c)
        PROVE  long_level' \in Nat /\ ReadsByLevel'
    <2>1. PICK arg, s, counted : Format!Convert(c, TRUE, arg, s, counted)
      BY <1>5, Zenon DEF Format!Character
    <2>2. c \notin {"d", "u", "x", "o"} /\ long_level' = long_level
      BY <1>5 DEF Format!Character
    <2> QED BY <1>0, <2>1, <2>2, NoNumberReads
  <1>6. ASSUME NEW c \in Chars, NEW a \in Strings, Format!String(c, a)
        PROVE  long_level' \in Nat /\ ReadsByLevel'
    <2>1. PICK asserts, s, counted : Format!Convert(c, asserts, a, s, counted)
      BY <1>6, Zenon DEF Format!String
    <2>2. c = "s" /\ long_level' = long_level
      BY <1>6, Zenon DEF Format!String
    <2>3. c \notin {"d", "u", "x", "o"}
      BY <2>2
    <2> QED BY <1>0, <2>1, <2>2, <2>3, NoNumberReads
  <1>7. ASSUME NEW c \in Chars, NEW v \in Args, Format!Decimal(c, v)
        PROVE  long_level' \in Nat /\ ReadsByLevel'
    <2>1. long_level' = 0
      BY <1>7, Zenon DEF Format!Decimal, Format!LevelBack
    <2> QED BY <1>7, <2>1, DecimalReads
  <1>8. ASSUME NEW c \in Chars, NEW v \in Args, Format!Unsigned(c, v) \/ Format!HexOrOctal(c, v)
        PROVE  long_level' \in Nat /\ ReadsByLevel'
    <2>1. long_level' = long_level
      BY <1>8, Zenon DEF Format!Unsigned, Format!HexOrOctal
    <2> QED BY <1>0, <1>8, <2>1, UnsignedReads
  <1> QED BY <1>1, <1>2, <1>3, <1>4, <1>5, <1>6, <1>7, <1>8, Zenon DEF Format!Next

\* There is no number at first.
LEMMA NumberInit ==
  ASSUME Format!Init
  PROVE  NumberIInv
  <1>1. OptionIInv
    BY OptionInit
  <1>2. long_level \in Nat /\ last = Format!None
    BY DEF Format!Init
  <1>3. last.conv \notin {"d", "u", "x", "o"}
    BY <1>2 DEF Format!None
  <1>4. ReadsByLevel
    BY <1>3 DEF ReadsByLevel, ReadsRight
  <1>5. LevelIInv
    <2>1. text = <<>> /\ long_level = 0 /\ earlier \in BOOLEAN
      BY Zenon DEF Format!Init
    <2>2. ~Format!HasL(<<>>)
      BY DEF Format!HasL
    <2>3. ~(0 > 0)
      OBVIOUS
    <2> QED BY <1>3, <2>1, <2>2, <2>3 DEF LevelIInv, LevelOf
  <1> QED BY <1>1, <1>2, <1>4, <1>5 DEF NumberIInv

\* Where the length is the text's, the number read is the number meant.
LEMMA LevelIsMeant ==
  ASSUME Format!KprintfAssumption, NumberIInv
  PROVE  Format!NumberReads
  <1> DEFINE m == MeantBy(last.conv, last.level, last.arg)
  <1>1. ASSUME last.conv \in {"d", "u", "x", "o"}, Format!LengthIsOwn
        PROVE  Format!Meant = m
    <2>1. /\ last.arg \in Nat /\ Ints \in Nat
          /\ (Format!HasL(last.text) => last.level > 0)
          /\ (last.level > 0 => Format!HasL(last.text) \/ last.earlier)
      BY <1>1 DEF NumberIInv, LevelIInv, LevelOf, Format!KprintfAssumption
    <2>2. last.arg < Ints => last.arg % Ints = last.arg
      BY <2>1
    <2>3. CASE last.conv \in {"d", "u"}
      BY <1>1, <2>1, <2>3 DEF Format!LengthIsOwn, Format!Meant, MeantBy
    <2>4. CASE last.conv \in {"x", "o"}
      BY <1>1, <2>1, <2>2, <2>4 DEF Format!LengthIsOwn, Format!Meant, MeantBy
    <2> QED BY <1>1, <2>3, <2>4
  <1>2. ReadsRight(last.conv, m, last.zero, last.right, last.prefix, last.precision, last.field)
    BY DEF NumberIInv, ReadsByLevel
  <1> HIDE DEF m
  <1> QED BY <1>1, <1>2 DEF Format!NumberReads, ReadsRight

\* For every range of numbers, argument and directive, what print_num and
\* print_unum write is as wide as asked and reads, between the blanks, as the
\* number that the directive's own text says the argument is; left out are the
\* lengths that LengthIsOwn names and the zeros and the two numbers that
\* NumberReads names.
THEOREM NumbersAreRead ==
  ASSUME Format!KprintfAssumption
  PROVE  Format!Spec => []Format!NumberReads
  <1>1. Format!Init => NumberIInv
    BY NumberInit
  <1>2. NumberIInv /\ [Format!Next]_(Format!vars) => NumberIInv'
    BY NumberStepIInv
  <1>3. NumberIInv => Format!NumberReads
    BY LevelIsMeant
  <1> QED BY <1>1, <1>2, <1>3, PTL DEF Format!Spec

-----------------------------------------------------------------------------
(* The same of the composed library.                                       *)

\* A behaviour that is about SHA1 is one of Sha1's.
LEMMA Sha1IsPart == LibrarySpec => []~(chosen = "sha1") \/ H!Spec
  <1>1. LibraryInit => H!Init
    BY DEF LibraryInit
  <1>2. [LibraryNext]_all =>
          /\ chosen = "sha1" => [H!Next]_(H!vars)
          /\ chosen = "sha1" <=> (chosen = "sha1")'
    BY Zenon DEF LibraryNext, all, sha1, H!vars, H!ctx
  <1> QED BY <1>1, <1>2, PTL DEF LibrarySpec, H!Spec

\* However messages are cut into updates, in every behaviour of the library
\* SHA1_Final hashes the message as the standard pads it.
THEOREM DigestsOfLibrary == LibrarySpec => []DigestIsHash
  <1>1. ~(chosen = "sha1") => DigestIsHash
    BY DEF DigestIsHash
  <1>2. H!DigestIsHash => DigestIsHash
    BY DEF DigestIsHash
  <1>3. H!Spec => []H!DigestIsHash
    BY LibraryAssumption, DigestsAreHashes
  <1> QED BY <1>1, <1>2, <1>3, Sha1IsPart, PTL

\* In every behaviour of the library SHA1_HMAC gives RFC 2104's keyed hash.
THEOREM HmacsOfLibrary == LibrarySpec => []HmacIsRight
  <1>1. ~(chosen = "sha1") => HmacIsRight
    BY DEF HmacIsRight
  <1>2. H!HmacIsRight => HmacIsRight
    BY DEF HmacIsRight
  <1>3. H!Spec => []H!HmacIsRight
    BY LibraryAssumption, HmacsAreRight
  <1> QED BY <1>1, <1>2, <1>3, Sha1IsPart, PTL

\* A behaviour that is about formatted output is one of Kprintf's.
LEMMA FormatIsPart == LibrarySpec => []~(chosen = "kprintf") \/ Format!Spec
  <1>1. LibraryInit => Format!Init
    BY DEF LibraryInit
  <1>2. [LibraryNext]_all =>
          /\ chosen = "kprintf" => [Format!Next]_(Format!vars)
          /\ chosen = "kprintf" <=> (chosen = "kprintf")'
    BY Zenon DEF LibraryNext, all, kprintf, Format!vars, Format!opts, Format!sinks, Format!history
  <1> QED BY <1>1, <1>2, PTL DEF LibrarySpec, Format!Spec

\* In every behaviour of the library a directive is written with the options
\* of its own text.
THEOREM OptionsOfLibrary == LibrarySpec => []OwnOptions
  <1>1. ~(chosen = "kprintf") => OwnOptions
    BY DEF OwnOptions
  <1>2. Format!OwnOptions => OwnOptions
    BY DEF OwnOptions
  <1>3. Format!Spec => []Format!OwnOptions
    BY OptionsAreOwn
  <1> QED BY <1>1, <1>2, <1>3, FormatIsPart, PTL

\* In every behaviour of the library the field of a number reads as the number
\* that the directive's own text asks for, the cases NumberReads names left out.
THEOREM NumbersOfLibrary == LibrarySpec => []NumberReads
  <1>1. ~(chosen = "kprintf") => NumberReads
    BY DEF NumberReads
  <1>2. Format!NumberReads => NumberReads
    BY DEF NumberReads
  <1>3. Format!Spec => []Format!NumberReads
    BY LibraryAssumption, NumbersAreRead
  <1> QED BY <1>1, <1>2, <1>3, FormatIsPart, PTL

\* In every behaviour of the library ksnprintf's buffer has the beginning of
\* what vkcprintf writes, whose length is returned.
THEOREM BuffersOfLibrary == LibrarySpec => []BufferIsPrefix
  <1>1. ~(chosen = "kprintf") => BufferIsPrefix
    BY DEF BufferIsPrefix
  <1>2. Format!BufferIsPrefix => BufferIsPrefix
    BY DEF BufferIsPrefix
  <1>3. Format!Spec => []Format!BufferIsPrefix
    BY LibraryAssumption, BufferIsBeginning
  <1> QED BY <1>1, <1>2, <1>3, FormatIsPart, PTL
=============================================================================
