---------------------------- MODULE SpiHostFifo ----------------------------
(***************************************************************************)
(* How dif_spi_host.c moves a buffer of any alignment and length through   *)
(* the data FIFOs of the SPI host.  A byte or an aligned word is written   *)
(* at a time; only words can be read, so a queue of two words holds what   *)
(* has been read and not yet been stored.                                  *)
(***************************************************************************)
EXTENDS Integers, Sequences, SequencesExt

CONSTANT FifoWord   \* bytes of an entry of the FIFOs (4 in the code)

ASSUME FifoWordAssumption == FifoWord \in Nat /\ FifoWord >= 2

\* bytes until addr is aligned, and no more than there are
Head2Align(addr, len) ==
  LET ahead == (FifoWord - addr) % FifoWord IN IF len < ahead THEN len ELSE ahead

\* the entries dif_spi_host_fifo_write makes of the bytes of src at addr
FifoWrite(addr, src) ==
  LET head  == Head2Align(addr, Len(src))
      words == (Len(src) - head) \div FifoWord
      tail  == head + words * FifoWord
  IN  [i \in 1..head |-> <<src[i]>>] \o
      [w \in 1..words |-> SubSeq(src, head + (w - 1) * FifoWord + 1, head + w * FifoWord)] \o
      [i \in 1..(Len(src) - tail) |-> <<src[tail + i]>>]

\* what a read stores at a time: a head of bytes, then words, then bytes
StepSizes(addr, len) ==
  LET head  == Head2Align(addr, len)
      words == (len - head) \div FifoWord
  IN  [i \in 1..head |-> 1] \o [w \in 1..words |-> FifoWord] \o
      [i \in 1..(len - head - words * FifoWord) |-> 1]

\* Mutant: a word is fetched although the queue has just enough
StoreFetchEarly(size, at) ==
  LET fetch == Len(at.queue) <= size
      queue == IF fetch THEN at.queue \o Head(at.rx) ELSE at.queue
  IN  [rx      |-> IF fetch THEN Tail(at.rx) ELSE at.rx,
       queue   |-> SubSeq(queue, size + 1, Len(queue)),
       dst     |-> at.dst \o SubSeq(queue, 1, size),
       longest |-> IF Len(queue) > at.longest THEN Len(queue) ELSE at.longest]

\* size bytes are stored; a word is fetched first if the queue is too short
Store(size, at) ==
  LET fetch == Len(at.queue) < size
      queue == IF fetch THEN at.queue \o Head(at.rx) ELSE at.queue
  IN  [rx      |-> IF fetch THEN Tail(at.rx) ELSE at.rx,
       queue   |-> SubSeq(queue, size + 1, Len(queue)),
       dst     |-> at.dst \o SubSeq(queue, 1, size),
       longest |-> IF Len(queue) > at.longest THEN Len(queue) ELSE at.longest]

\* dif_spi_host_fifo_read of len bytes to addr, from a FIFO that holds rx
FifoRead(addr, len, rx) ==
  FoldLeft(LAMBDA at, size : Store(size, at),
           [rx |-> rx, queue |-> <<>>, dst |-> <<>>, longest |-> 0], StepSizes(addr, len))

-----------------------------------------------------------------------------
\* the number of words that hold len bytes
WordsFor(len) == (len + FifoWord - 1) \div FifoWord

(* Whatever the address of the buffer: the bytes written are those of the  *)
(* buffer, in order, words only from aligned addresses; the bytes read are *)
(* the first ones of the FIFO, exactly the words that hold them are taken, *)
(* and the queue of two words never overflows.                             *)
KeepsBytes(addr, src, rx) ==
  LET entries == FifoWrite(addr, src)
      result  == FifoRead(addr, Len(src), rx)
  IN  /\ FlattenSeq(entries) = src
      /\ \A k \in DOMAIN entries :
           Len(entries[k]) > 1 =>
             (addr + Len(FlattenSeq(SubSeq(entries, 1, k - 1)))) % FifoWord = 0
      /\ result.dst = SubSeq(FlattenSeq(rx), 1, Len(src))
      /\ Len(result.rx) = Len(rx) - WordsFor(Len(src))
      /\ result.longest <= 2 * FifoWord

=============================================================================
