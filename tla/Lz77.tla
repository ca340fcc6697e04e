-------------------------------- MODULE Lz77 --------------------------------
(***************************************************************************)
(* The LZ77 coder that packs the program at build time (tools/lz/lz.c) and *)
(* what its decoder in the boot loader (bdk/libs/compr/lz.c) reads.        *)
(*                                                                         *)
(* A stream starts with the marker symbol.  Then each symbol stands for    *)
(* itself, the marker followed by 0 for the marker, and the marker followed*)
(* by a length and an offset for a string that occurred before.            *)
(*                                                                         *)
(* Base scales the alphabet: a byte holds a digit below Base and a flag.   *)
(***************************************************************************)
EXTENDS Integers, Sequences, FiniteSets, FiniteSetsExt

CONSTANTS Base,            \* 128 in the code
          LZ_MAX_OFFSET    \* 100000 in the code

ASSUME LzAssumption == Base \in Nat /\ Base >= 8 /\ LZ_MAX_OFFSET \in Nat \ {0}

Byte == 0 .. (2 * Base - 1)

-----------------------------------------------------------------------------
\* Numbers: digits from the highest, each but the last with its flag set

NumBytes(x) ==
  IF \E n \in 1 .. 4 : x < Base^n THEN Min({n \in 1 .. 4 : x < Base^n}) ELSE 5

LZ_WriteVarSize(x) ==
  LET n == NumBytes(x)
  IN  [k \in 1 .. n |-> ((x \div Base^(n - k)) % Base) + (IF k < n THEN Base ELSE 0)]

\* Number and size of what is stored in buf[i], buf[i + 1], ...
LZ_ReadVarSize(buf, i) ==
  LET last(n) == buf[i + n - 1] < Base
      size == IF \E n \in 1 .. 4 : last(n) THEN Min({n \in 1 .. 4 : last(n)}) ELSE 5
      value[n \in 0 .. size] == IF n = 0 THEN 0
                                ELSE (value[n - 1] * Base) + (buf[i + n - 1] % Base)
  IN  [value |-> value[size], size |-> size]

-----------------------------------------------------------------------------
\* The coder, LZ_CompressFast

Count(s, b) == Cardinality({i \in DOMAIN s : s[i] = b})

\* Mutant: the most common symbol.
MarkerMostCommon(s) == Min({b \in Byte : \A c \in Byte : Count(s, c) <= Count(s, b)})

\* The least common symbol, the lowest of them.
Marker(s) == Min({b \in Byte : \A c \in Byte : Count(s, b) <= Count(s, c)})

\* How many symbols from the inpos-th on repeat what came offset before: at most
\* the rest of the input, and no further than where the match itself begins.
Length(s, inpos, offset) ==
  LET maxlength == Min({Len(s) - inpos, offset})
  IN  Max({n \in 0 .. maxlength :
             \A i \in 1 .. n : s[inpos + i] = s[inpos - offset + i]})

\* The jump table leads to each earlier place with the same two symbols, the
\* nearest first, and a candidate must be longer than the best one so far.
BestMatch(s, inpos) ==
  LET offsets == {o \in 1 .. inpos : o < LZ_MAX_OFFSET}
      best == Max({3} \cup {Length(s, inpos, o) : o \in offsets})
      found == {o \in offsets : Length(s, inpos, o) = best}
  IN  [length |-> best, offset |-> IF best = 3 THEN 0 ELSE Min(found)]

\* The reference is shorter than the string.
GoodEnough(m) ==
  \/ m.length >= 8
  \/ m.length \in 4 .. 7 /\ m.offset < Base^(m.length - 3)

\* A symbol for itself; a zero tells the marker from a reference.
Literal(symbol, marker) == IF symbol = marker THEN <<marker, 0>> ELSE <<symbol>>

\* The last three symbols are never matched: a string has four or more.
LZ_CompressFast(s) ==
  LET marker == Marker(s)
      code[inpos \in 0 .. Len(s)] ==
        IF inpos = Len(s) THEN <<>>
        ELSE LET m == BestMatch(s, inpos)
             IN IF GoodEnough(m)
                THEN <<marker>> \o LZ_WriteVarSize(m.length) \o LZ_WriteVarSize(m.offset)
                       \o code[inpos + m.length]
                ELSE Literal(s[inpos + 1], marker) \o code[inpos + 1]
  IN  IF s = <<>> THEN <<>> ELSE <<marker>> \o code[0]

\* tools/lz/lz77.c: the two halves of the program are packed on their own.
Packed(image) ==
  LET half == Len(image) \div 2
  IN  <<LZ_CompressFast(SubSeq(image, 1, half)),
        LZ_CompressFast(SubSeq(image, half + 1, Len(image)))>>
=============================================================================
