----------------------------- MODULE KeyToIndex -----------------------------
(***************************************************************************)
(* keyToIndex() of fenglingShm.c: the hash that gives a subdomain its home *)
(* slot in the route table.                                                *)
(*                                                                         *)
(*     if (key == NULL) return -1;                                         *)
(*     index = (int) key[0];                                               *)
(*     for (i = 1; i < len; ++i) index *= 1103515245 + (int) key[i];       *)
(*     index >>= 27;                                                       *)
(*     index &= (MAXROUTE - 1);                                            *)
(*                                                                         *)
(* `int' is a two's complement word and the build wraps.  The width is a   *)
(* constant: the program has WordSize = 2^32, where >> 27 leaves the five  *)
(* top bits, so the model shifts by WordSize \div 32 at any width.         *)
(***************************************************************************)
EXTENDS Integers

CONSTANTS WordSize,     \* the number of values of an int
          Mult,         \* 1103515245 modulo WordSize
          KeyChars      \* the values of a (signed) char of a key

\* What the theorems take for granted of the build.
AnInt == /\ WordSize \in Nat \ {0} /\ WordSize % 32 = 0
         /\ Mult \in Int
         /\ KeyChars \subseteq -128 .. 127

\* The number of slots of the route table (fenglingShm.h).
MAXROUTE == 50

\* The values of an int.
Word == -(WordSize \div 2) .. (WordSize \div 2) - 1

VARIABLES index,        \* the int the loop accumulates
          len           \* characters of the key consumed so far; 0: no key

vars == <<index, len>>

-----------------------------------------------------------------------------
\* Two's complement wrap of an int product.
Wrap(x) == ((x + WordSize \div 2) % WordSize) - WordSize \div 2

\* index >>= 27: an arithmetic shift that keeps the five top bits.
TopBits(w) == w \div (WordSize \div 32)

\* v & (MAXROUTE - 1): 49 is 110001 in binary, so bits 0, 4 and 5 remain.
Mask(v) == (v % 2) + 16 * ((v \div 16) % 2) + 32 * ((v \div 32) % 2)

\* The slot returned once the whole key has been consumed.
Home(w) == Mask(TopBits(w))

\* A key, or NULL: a worker's, when parseHtmlHead finds no name behind "//".
Init == \/ len = 1 /\ index \in KeyChars \cap Word
        \/ len = 0 /\ index = -1

Returned == IF len = 0 THEN index ELSE Home(index)

\* One iteration of the loop, for any next character of the key.
Consume == /\ len > 0
           /\ \E c \in KeyChars : index' = Wrap(index * (Mult + c))
           /\ len' = len + 1

Next == Consume

Spec == Init /\ [][Next]_vars

-----------------------------------------------------------------------------
TypeOK == /\ index \in Word
          /\ len \in Nat

\* Whatever the key, its home slot is one of the two first or of the two last
\* slots of the table: the mask 49 was meant for a power of two, and 46 of the
\* 50 slots are nobody's home.  NULL's is before the table, and Set- and GetFLRoute,
\* which do not look, go on with it.
HomeSlots == /\ len > 0 => Returned \in {0, 1, MAXROUTE - 2, MAXROUTE - 1}
             /\ len = 0 => Returned = -1

=============================================================================
