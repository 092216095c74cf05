---------------------------- MODULE MCEncodings ----------------------------
(***************************************************************************)
(* Bounds for checking Encodings: a byte of two bits, an alphabet of three *)
(* characters, a key type whose varint has two bytes, and an index of five *)
(* bits; the texts 0, 3, 20, 41, -1, 010, 008 and 0xc: numbers that are    *)
(* negative, that are indices, and that are not, in decimal and otherwise, *)
(* and one that is no number because it is taken for an octal one.         *)
(***************************************************************************)
EXTENDS Encodings

Unsigned(notation, digits) ==
  [negative |-> FALSE, notation |-> notation, digits |-> digits]

MCComponent ==
  {Unsigned("decimal", digits) : digits \in {<<0>>, <<3>>, <<2, 0>>, <<4, 1>>}}
    \cup {Unsigned("zero", <<1, 0>>), Unsigned("zero", <<0, 8>>),
          Unsigned("hexadecimal", <<12>>),
          [Unsigned("decimal", <<1>>) EXCEPT !.negative = TRUE]}

MCMaxLength == [bytes |-> 5, text |-> 7, descriptor |-> 4]
=============================================================================
