---------------------------- MODULE MCAlgorithms ----------------------------
(* The algorithms without state of their own, each on all its inputs.      *)
EXTENDS PrimMaxTree, TickParams, MemoryOps, SpiHostFifo, Ujson, FiniteSets

CONSTANTS MaxLen,      \* longest buffer
          MaxString    \* longest string

Alphabet == {97, Quote, Backslash, 10, 1, 127, 233}

VARIABLE input

TreeCases == [of : {"tree"}, in : TreeInputs]
TickCases == [of : {"tick"}, clockFreq : Freqs, counterFreq : Freqs]
MemoryCases ==
  UNION {[of : {"memory"}, l : Buffers(len), r : Buffers(len)] : len \in 0..MaxLen}
FifoCases == [of : {"fifo"}, addr : 0..(FifoWord - 1), len : 0..(3 * FifoWord)]
StringCases ==
  UNION {[of : {"string"}, str : [1..n -> Alphabet], len : 1..(MaxString + 1), after : {<<>>, <<Quote>>}] :
         n \in 0..MaxString}
IntegerCases ==
  [of : {"integer"}, value : -(2^(IntBits - 1))..(2^IntBits - 1), after : {<<>>, <<44>>, <<Minus, 49>>}]

Init ==
  \/ input \in TreeCases
  \/ input \in TickCases
  \/ input \in MemoryCases
  \/ input \in FifoCases
  \/ input \in StringCases
  \/ input \in IntegerCases

\* an input stays what it is
Next == UNCHANGED input

Spec == Init /\ [][Next]_input

Upto(first, last) == [i \in 1..(last - first + 1) |-> first + i - 1]

(* The interrupt controller's comparison tree computes the selection.      *)
TreeIsWinner == input.of = "tree" => IsWinner(input.in)

(* The timer's parameters are exact for all frequencies, or there are none.*)
TickParamsExact == input.of = "tick" => IsExact(input.clockFreq, input.counterFreq)

(* memcmp, memrcmp, memchr, memrchr, memcpy and memset, which read words,  *)
(* do what their byte-wise definitions say.                                *)
MemoryIsBytewise == input.of = "memory" => IsBytewise(input.l, input.r)

(* The SPI host's FIFO transfers keep every byte and its place.            *)
FifoKeepsBytes ==
  input.of = "fifo" =>
    KeepsBytes(input.addr, Upto(1, input.len),
               [w \in 1..(WordsFor(input.len) + 2) |-> Upto((w - 1) * FifoWord + 1, w * FifoWord)])

(* What ujson writes it reads back, and no more of the text.               *)
UjsonComesBack ==
  /\ input.of = "string" => StringComesBack(input.str, input.len, input.after)
  /\ input.of = "integer" => IntegerComesBack(input.value, input.after)
=============================================================================
