----------------------------- MODULE MemoryOps -----------------------------
(***************************************************************************)
(* The memory functions of memory.c.  Where both buffers allow it they     *)
(* read whole words, which only aligned addresses can be read as, between  *)
(* a head and a tail of single bytes; the words are compared as numbers.   *)
(***************************************************************************)
EXTENDS Integers, Sequences, SequencesExt, FiniteSetsExt

CONSTANTS WordBytes,   \* bytes of a word (4 in the code)
          ByteValues,  \* number of values of a byte (256 in the code)
          PtrdiffMax   \* the length from which memchr stands for strlen (PTRDIFF_MAX)

ASSUME WordBytesAssumption  == WordBytes \in Nat \ {0}
ASSUME ByteValuesAssumption == ByteValues \in Nat \ {0}
ASSUME PtrdiffMaxAssumption == PtrdiffMax \in Nat

Bytes == 0..(ByteValues - 1)

\* a buffer is given by its misalignment and its contents
Buffers(len) == [addr : 0..(WordBytes - 1), data : [1..len -> Bytes]]

\* Mutant: buffers of different alignment are treated like one
NumLeadingBytesAnyway(addrs, len) ==
  IF len >= WordBytes THEN (WordBytes - Min(addrs)) % WordBytes ELSE len

\* compute_num_leading_bytes, for the misalignments of one buffer or of two
NumLeadingBytes(addrs, len) ==
  IF len >= WordBytes /\ Cardinality(addrs) = 1 THEN (WordBytes - Min(addrs)) % WordBytes ELSE len

\* The accesses compute_alignment plans, first to last: each reads the bytes
\* from .first to .last (numbered from 1)
Chunks(addrs, len) ==
  LET body     == NumLeadingBytes(addrs, len)
      numWords == (len - body) \div WordBytes
      tail     == body + numWords * WordBytes
  IN  [i \in 1..body |-> [first |-> i, last |-> i]] \o
      [w \in 1..numWords |-> [first |-> body + (w - 1) * WordBytes + 1, last |-> body + w * WordBytes]] \o
      [i \in 1..(len - tail) |-> [first |-> tail + i, last |-> tail + i]]

\* The number with these digits, the most significant first
Number(digits) ==
  LET upTo[k \in 0..Len(digits)] == IF k = 0 THEN 0 ELSE ByteValues * upTo[k - 1] + digits[k]
  IN  upTo[Len(digits)]

\* A chunk as a number: little endian as it is read, or after __builtin_bswap32
LittleEndian(data, c) == Number(Reverse(SubSeq(data, c.first, c.last)))

BigEndian(data, c) == Number(SubSeq(data, c.first, c.last))

\* kMemCmpLt, kMemCmpEq or kMemCmpGt
Order(a, b) == IF a < b THEN -42 ELSE IF a > b THEN 42 ELSE 0

\* the first chunk that differs decides
Memcmp(l, r) ==
  LET chunks == Chunks({l.addr, r.addr}, Len(l.data))
      differ == {k \in DOMAIN chunks : BigEndian(l.data, chunks[k]) # BigEndian(r.data, chunks[k])}
  IN  IF differ = {} THEN 0
      ELSE LET c == chunks[Min(differ)] IN Order(BigEndian(l.data, c), BigEndian(r.data, c))

\* the last chunk that differs decides
Memrcmp(l, r) ==
  LET chunks == Chunks({l.addr, r.addr}, Len(l.data))
      differ == {k \in DOMAIN chunks : LittleEndian(l.data, chunks[k]) # LittleEndian(r.data, chunks[k])}
  IN  IF differ = {} THEN 0
      ELSE LET c == chunks[Max(differ)] IN Order(LittleEndian(l.data, c), LittleEndian(r.data, c))

Holding(b, value, chunks) ==
  {k \in DOMAIN chunks : \E i \in chunks[k].first..chunks[k].last : b.data[i] = value}

\* the accesses of memchr: single bytes only where the length is no bound
Traversal(addr, len) ==
  IF len >= PtrdiffMax THEN [i \in 1..len |-> [first |-> i, last |-> i]] ELSE Chunks({addr}, len)

\* the lowest match in the first chunk that has one; 0 is NULL
Memchr(b, value) ==
  LET chunks == Traversal(b.addr, Len(b.data))
      found  == Holding(b, value, chunks)
  IN  IF found = {} THEN 0
      ELSE LET c == chunks[Min(found)] IN Min({i \in c.first..c.last : b.data[i] = value})

\* the highest match in the last chunk that has one
Memrchr(b, value) ==
  LET chunks == Chunks({b.addr}, Len(b.data))
      found  == Holding(b, value, chunks)
  IN  IF found = {} THEN 0
      ELSE LET c == chunks[Max(found)] IN Max({i \in c.first..c.last : b.data[i] = value})

\* what accesses that copy the bytes of from leave in the buffer to
Written(to, from, chunks) ==
  FoldLeft(LAMBDA data, c : [i \in DOMAIN data |-> IF i \in c.first..c.last THEN from[i] ELSE data[i]],
           to, chunks)

Memcpy(dest, src) == Written(dest.data, src.data, Chunks({dest.addr, src.addr}, Len(src.data)))

Memset(dest, value) ==
  Written(dest.data, [i \in DOMAIN dest.data |-> value], Chunks({dest.addr}, Len(dest.data)))

-----------------------------------------------------------------------------
(* The byte-wise definitions of the C library.                             *)

\* 0 or the order at the position among S, chosen by pick, where l and r differ
OrderAt(l, r, pick(_)) ==
  LET differ == {i \in DOMAIN l.data : l.data[i] # r.data[i]}
  IN  IF differ = {} THEN 0 ELSE Order(l.data[pick(differ)], r.data[pick(differ)])

PositionOf(b, value, pick(_)) ==
  LET found == {i \in DOMAIN b.data : b.data[i] = value} IN IF found = {} THEN 0 ELSE pick(found)

\* a word is only read where it is aligned, in every buffer there is
Aligned(addrs, len) ==
  LET chunks == Chunks(addrs, len) IN
  \A k \in DOMAIN chunks, addr \in addrs :
    chunks[k].last > chunks[k].first => (addr + chunks[k].first - 1) % WordBytes = 0

\* for the length that makes a strlen of it, memchr reads nothing behind the
\* byte it finds: the string may end where the memory does
StopsThere(b, value) ==
  LET chunks == Traversal(b.addr, Len(b.data))
      found  == Holding(b, value, chunks)
  IN  Len(b.data) >= PtrdiffMax /\ found # {} =>
        \A k \in 1..Min(found) : chunks[k].last <= Memchr(b, value)

(* For two buffers of one length, whatever their alignments: the functions *)
(* access words only at aligned addresses and do what their byte-wise      *)
(* definitions say, memcmp although it compares words of a little-endian   *)
(* machine, memchr also where it searches without a bound (log.c:49).      *)
IsBytewise(l, r) ==
  /\ Aligned({l.addr, r.addr}, Len(l.data)) /\ Aligned({l.addr}, Len(l.data))
  /\ Memcmp(l, r) = OrderAt(l, r, Min)
  /\ Memrcmp(l, r) = OrderAt(l, r, Max)
  /\ Memcpy(l, r) = r.data
  /\ \A value \in Bytes :
       /\ Memchr(l, value) = PositionOf(l, value, Min) /\ StopsThere(l, value)
       /\ Memrchr(l, value) = PositionOf(l, value, Max)
       /\ Memset(l, value) = [i \in DOMAIN l.data |-> value]

=============================================================================
