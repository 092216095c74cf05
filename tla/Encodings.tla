----------------------------- MODULE Encodings -----------------------------
(***************************************************************************)
(* The texts the pod reads and writes: Base58 (utils/base58.go), the DID   *)
(* of a public key (key/sign.go), and the derivation path in a wallet      *)
(* descriptor (utils/descriptor.go).  All of it is pure, so a behaviour    *)
(* only makes an input, one symbol at a time, and every input up to a      *)
(* bound is the state of some behaviour.                                   *)
(*                                                                         *)
(* The sizes of a byte, of the alphabet and of an index are parameters:    *)
(* 256, 58 and 2^32 in the code.                                           *)
(***************************************************************************)
EXTENDS Integers, Sequences, SequencesExt

CONSTANTS
  Byte,         \* the number of bytes
  Radix,        \* the length of the alphabet
  Word,         \* the number of indices
  KeyType,      \* the code of Secp256k1Pub
  Component,    \* the texts of numbers that occur in a path
  MaxLength     \* bound on the length of an input of each kind

\* The text of a number: a sign, a notation, and digits, which the code may
\* take for none.  The notation is that of 10, 010, 0o10, 0b10 or 0x10, and
\* gives the base in which SetString(p, 0) reads the digits.
Base ==
  [decimal |-> 10, zero |-> 8, octal |-> 8, binary |-> 2, hexadecimal |-> 16]

Text == [negative : BOOLEAN, notation : DOMAIN Base, digits : Seq(Nat)]

ASSUME EncodingsAssumption ==
  /\ Byte \in Nat /\ Byte > 2 /\ Byte % 2 = 0
  /\ Radix \in Nat /\ Radix > 1
  /\ Word \in Nat /\ Word > 0 /\ Word % 2 = 0
  /\ KeyType \in Nat \ {0}
  /\ Component \subseteq Text
  /\ MaxLength \in [{"bytes", "text", "descriptor"} -> Nat]

VARIABLES
  kind,     \* what the input is
  input     \* a sequence of bytes, characters or parts of a descriptor
-----------------------------------------------------------------------------
(* Base58.  A character is its index in the alphabet, or -1 if it is not   *)
(* part of it; the alphabet starts with the digit for zero.                *)

LeadingZeros(s) ==
  LET other == SelectInSeq(s, LAMBDA d : d # 0) IN
  SubSeq(s, 1, IF other = 0 THEN Len(s) ELSE other - 1)

\* The digits of x, least significant first, without zeros at the end.
Digits(x, base) ==
  LET digits[n \in 0..x] ==
        IF n = 0 THEN <<>> ELSE <<n % base>> \o digits[n \div base]
  IN digits[x]

\* The number that the digits stand for, most significant first.
Number(digits, base) ==
  LET value[n \in 0..Len(digits)] ==
        IF n = 0 THEN 0 ELSE value[n - 1] * base + digits[n]
  IN value[Len(digits)]

FromBase58(text) ==
  IF \E i \in DOMAIN text : text[i] = -1
  THEN <<>>
  ELSE LeadingZeros(text) \o Reverse(Digits(Number(text, Radix), Byte))

\* Mutation: the zeros in front are forgotten.
ToBase58NoZeros(bytes) == Reverse(Digits(Number(bytes, Byte), Radix))

ToBase58(bytes) ==
  Reverse(Digits(Number(bytes, Byte), Radix) \o LeadingZeros(bytes))
-----------------------------------------------------------------------------
(* DIDs, without the prefix did:key:z, which is fixed.                     *)

\* A varint: seven bits in each byte, least significant first, and a flag in
\* all but the last.
Half == Byte \div 2

PutUvarint(x) ==
  LET groups == Digits(x, Half) IN
  [i \in DOMAIN groups |-> IF i < Len(groups) THEN groups[i] + Half
                                              ELSE groups[i]]

\* The length of the varint that the bytes begin with; 0 if it does not end.
UvarintLength(bytes) == SelectInSeq(bytes, LAMBDA b : b < Half)

Uvarint(bytes) ==
  LET groups == SubSeq(bytes, 1, UvarintLength(bytes)) IN
  Number(Reverse([i \in DOMAIN groups |-> groups[i] % Half]), Half)

DID(publicKey) == ToBase58(PutUvarint(KeyType) \o publicKey)

NoKey == <<-1>>

\* Mutation: the type of the key has a fixed length.
PublicKeyFromDIDFixed(did) ==
  LET encodedBytes == FromBase58(did) IN
  IF Uvarint(encodedBytes) # KeyType THEN NoKey
  ELSE SubSeq(encodedBytes, 2, Len(encodedBytes))

PublicKeyFromDID(did) ==
  LET encodedBytes == FromBase58(did) IN
  IF Uvarint(encodedBytes) # KeyType THEN NoKey
  ELSE SubSeq(encodedBytes, UvarintLength(encodedBytes) + 1, Len(encodedBytes))
-----------------------------------------------------------------------------
(* Derivation paths.  A descriptor is cut into its keys, that of the pod   *)
(* ("[<fingerprint>") and others ("[119dbcab"), each followed by the       *)
(* components of its path: none between two slashes, the text of a number, *)
(* with a suffix h, H or ' or without, or another text.                    *)

Zero == [negative |-> FALSE, notation |-> "decimal", digits |-> <<0>>]

Part(what) == [what |-> what, text |-> Zero, hardened |-> FALSE]

Index(text, hardened) ==
  [what |-> "number", text |-> text, hardened |-> hardened]

Parts ==
  {Part(what) : what \in {"own", "other", "empty", "text"}} \cup
  {Index(text, hardened) : text \in Component, hardened \in BOOLEAN}

IsKey(part) == part.what \in {"own", "other"}

\* The regular expression takes the first "[<fingerprint>" and, since it is
\* greedy, the last "]" of the descriptor.
ExtractGordianKeyDerivationPath(descriptor) ==
  LET own == SelectInSeq(descriptor, LAMBDA part : part.what = "own") IN
  IF own = 0 THEN <<>> ELSE SubSeq(descriptor, own + 1, Len(descriptor))

HardenedKeyStart == Word \div 2

\* Underscores between digits are skipped, and not modelled.
IsNumber(part) ==
  /\ part.what = "number"
  /\ part.text.digits # <<>>
  /\ \A i \in DOMAIN part.text.digits :
       part.text.digits[i] < Base[part.text.notation]

Value(text) == Number(text.digits, Base[text.notation])

\* The sign is lost by Uint64, and all but the low bits by the conversion.
PathIndex(part) ==
  (Value(part.text) +
     (IF part.hardened THEN HardenedKeyStart ELSE 0)) % Word

NoPath == <<-1>>

\* What is left of a path without the empty components.
Components(path) ==
  LET components[n \in 0..Len(path)] ==
        IF n = 0 THEN <<>>
        ELSE IF path[n].what = "empty" THEN components[n - 1]
        ELSE Append(components[n - 1], path[n])
  IN components[Len(path)]

\* Mutation: the offset of a hardened component stays for the next ones.
ParseDerivationPathSticky(path) ==
  LET components == Components(path) IN
  IF \E i \in DOMAIN components : ~ IsNumber(components[i])
  THEN NoPath
  ELSE [i \in DOMAIN components |->
          PathIndex([components[i] EXCEPT
                       !.hardened = \E j \in 1..i : components[j].hardened])]

\* What is between the brackets of two keys is no number.
ParseDerivationPath(path) ==
  LET components == Components(path) IN
  IF \E i \in DOMAIN components : ~ IsNumber(components[i])
  THEN NoPath
  ELSE [i \in DOMAIN components |-> PathIndex(components[i])]
-----------------------------------------------------------------------------
Symbols ==
  [bytes |-> 0..(Byte - 1), text |-> -1..(Radix - 1), descriptor |-> Parts]

Init ==
  /\ kind \in {"bytes", "text", "descriptor"}
  /\ input = <<>>

Next ==
  /\ Len(input) < MaxLength[kind]
  /\ \E symbol \in Symbols[kind] : input' = Append(input, symbol)
  /\ UNCHANGED kind

Spec == Init /\ [][Next]_<<kind, input>>
-----------------------------------------------------------------------------
(* Properties.                                                             *)

\* Bytes and texts over the alphabet correspond one to one, zeros in front and
\* the empty text included; any other text decodes to nothing.
Base58Bijective ==
  /\ kind = "bytes" => FromBase58(ToBase58(input)) = input
  /\ kind = "text" =>
       IF \E i \in DOMAIN input : input[i] = -1
       THEN FromBase58(input) = <<>>
       ELSE ToBase58(FromBase58(input)) = input

\* A DID gives back its key, so that what the pod verifies is signed by the key
\* the DID was made of; and whatever text gives a key is the DID of that key,
\* unless the code of its type is written with more bytes than needed.
DIDIdentifiesKey ==
  /\ kind = "bytes" => PublicKeyFromDID(DID(input)) = input
  /\ kind = "text" =>
       LET publicKey == PublicKeyFromDID(input) IN
       publicKey # NoKey =>
         \/ input = DID(publicKey)
         \/ UvarintLength(FromBase58(input)) > Len(PutUvarint(KeyType))

\* The path as a reader of the descriptor means it: what follows the last key.
Written(descriptor) ==
  Components(SubSeq(descriptor, SelectLastInSeq(descriptor, IsKey) + 1,
                    Len(descriptor)))

\* A number as a path is commonly written, and an index.
IsIndex(text) ==
  /\ ~ text.negative
  /\ text.notation = "decimal"
  /\ Number(text.digits, 10) \in 0..(HardenedKeyStart - 1)

\* A descriptor that create_wallet accepts names the pod's key once and last,
\* and the key is derived along the path that is written there, as long as its
\* numbers are indices in decimal without zeros in front: no part of another
\* key's path gets into it, and a hardened component stays one.
DerivesAsWritten ==
  kind = "descriptor" =>
    LET path == ExtractGordianKeyDerivationPath(input)
        indices == ParseDerivationPath(path)
        written == Written(input)
    IN path # <<>> /\ indices # NoPath =>
         /\ SelectInSeq(input, LAMBDA part : part.what = "own")
              = SelectLastInSeq(input, IsKey)
         /\ Len(indices) = Len(written)
         /\ \A i \in DOMAIN written :
              IsIndex(written[i].text) =>
                /\ indices[i] % HardenedKeyStart
                     = Number(written[i].text.digits, 10)
                /\ indices[i] >= HardenedKeyStart <=> written[i].hardened
=============================================================================
