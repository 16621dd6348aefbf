-------------------------------- MODULE Wire --------------------------------
(***************************************************************************)
(* ByteReader (solvetls/wire/reader.py): big-endian reads over a buffer    *)
(* that fail rather than return less than was asked for.  A reader is the  *)
(* sequence of the bytes it has not read yet, or Malformed after a read    *)
(* has raised ValueError.                                                  *)
(***************************************************************************)
EXTENDS Integers, Sequences, SequencesExt

CONSTANT Malformed

Uint(bytes) == FoldLeft(LAMBDA n, b : 256 * n + b, 0, bytes)

\* What read(n) returns, and what it leaves to be read.
Read(d, n) == IF d = Malformed \/ Len(d) < n THEN Malformed ELSE SubSeq(d, 1, n)
Drop(d, n) ==
  IF d = Malformed \/ Len(d) < n THEN Malformed ELSE SubSeq(d, n + 1, Len(d))

\* read_vector(k), and what it leaves.
Vector(d, k) ==
  IF Read(d, k) = Malformed THEN Malformed ELSE Read(Drop(d, k), Uint(Read(d, k)))
Skip(d, k) ==
  IF Read(d, k) = Malformed THEN Malformed ELSE Drop(Drop(d, k), Uint(Read(d, k)))

\* read_uint16() while has_more().
Uint16s(d) ==
  IF d = Malformed THEN Malformed
  ELSE IF Len(d) % 2 = 1 THEN Malformed
  ELSE [i \in 1 .. Len(d) \div 2 |-> Uint(<<d[2 * i - 1], d[2 * i]>>)]

RECURSIVE Items(_, _, _)

\* While has_more(): a number of k bytes, and a vector whose length takes j.
Items(d, k, j) ==
  IF d = << >> THEN << >>
  ELSE IF Skip(Drop(d, k), j) = Malformed THEN Malformed
  ELSE LET rest == Items(Skip(Drop(d, k), j), k, j)
       IN IF rest = Malformed THEN Malformed
          ELSE <<[type |-> Uint(Read(d, k)), data |-> Vector(Drop(d, k), j)]>> \o rest
=============================================================================
