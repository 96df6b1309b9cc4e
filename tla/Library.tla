------------------------------ MODULE Library -------------------------------
(***************************************************************************)
(* The library parts of the kernel: random numbers (Csprng), SHA1 with     *)
(* HMAC, and formatted output.  They share no state: a behaviour is about  *)
(* one of them, which it chooses first, and the others stay in an initial  *)
(* state.                                                                  *)
(***************************************************************************)
EXTENDS Csprng, Sequences

CONSTANTS
  BLOCK_BYTES, LenBytes, SHA1_LEN, MaxMsg, MaxKey,            \* of Sha1
  Chars, Ints, Longs, Args, Strings, Sizes, MaxFmt            \* of Kprintf

VARIABLES
  h, sha1_block, active_len, len, data, todo, digest, stage, sha1_given, key, message, hashed,
  mode, prefix, long_level, zero_padding, right_padding, precision, rc, out, buf, size, fmt,
  text, last, earlier,
  chosen  \* the part this behaviour is about

H == INSTANCE Sha1 WITH block <- sha1_block, given <- sha1_given
Format == INSTANCE Kprintf

ASSUME LibraryAssumption == H!Sha1Assumption /\ Format!KprintfAssumption

sha1 == <<h, sha1_block, active_len, len, data, todo, digest, stage, sha1_given, key, message, hashed>>
kprintf == <<mode, prefix, long_level, zero_padding, right_padding, precision, rc, out, buf, size,
             fmt, text, last, earlier>>
all == <<vars, sha1, kprintf, chosen>>

LibraryInit ==
  /\ chosen \in {"csprng", "sha1", "kprintf"}
  /\ chosen # "kprintf" => size = 0
  /\ Init /\ H!Init /\ Format!Init

LibraryNext ==
  \/ chosen = "csprng" /\ Next /\ UNCHANGED <<sha1, kprintf, chosen>>
  \/ chosen = "sha1" /\ H!Next /\ UNCHANGED <<vars, kprintf, chosen>>
  \/ chosen = "kprintf" /\ Format!Next /\ UNCHANGED <<vars, sha1, chosen>>

LibrarySpec == LibraryInit /\ [][LibraryNext]_all

\* However a message is cut into calls of SHA1_Update, SHA1_Final gives the
\* hash of the padded message.
DigestIsHash == chosen = "sha1" => H!DigestIsHash

\* SHA1_HMAC gives the keyed hash of RFC 2104 for every length of key.
HmacIsRight == chosen = "sha1" => H!HmacIsRight

\* vkcprintf writes every directive with the width, padding and precision of
\* its own text.
OwnOptions == chosen = "kprintf" => Format!OwnOptions

\* The fields that vkcprintf writes for numbers read as the numbers that the
\* directives' own texts ask for, the cases that Kprintf names left out.
NumberReads == chosen = "kprintf" => Format!NumberReads

\* vkcprintf returns the length of what it wrote, and ksnprintf's buffer has
\* the beginning of that.
BufferIsPrefix == chosen = "kprintf" => Format!BufferIsPrefix
=============================================================================
