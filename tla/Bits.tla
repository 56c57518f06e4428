--------------------------------- MODULE Bits ---------------------------------
(***************************************************************************)
(* Words, and the exclusive or and the or of two of them as constants: the *)
(* proofs use only what is assumed of them here, and an instance gives the *)
(* two operators themselves.                                               *)
(***************************************************************************)
EXTENDS Naturals

CONSTANTS
    WordSize,       \* a word is below this power of two
    BitXor(_, _), BitOr(_, _)

Byte == 0..255
Word == 0..(WordSize - 1)

ASSUME WordAssumption == WordSize \in Nat /\ WordSize >= 256

ASSUME XorAssumption ==
    /\ \A a, b \in Word : BitXor(a, b) \in Word /\ BitXor(BitXor(a, b), b) = a
    /\ \A a, b \in Byte : BitXor(a, b) \in Byte
    /\ \A b \in Word : BitXor(0, b) = b

\* Two parts of a byte that have no bit in common.
ASSUME OrAssumption ==
    \A n \in 1..7 : \A high \in 0..(2^(8 - n) - 1), low \in 0..(2^n - 1) :
        /\ BitOr(2^n * high, low) = 2^n * high + low
        /\ BitOr(low, 2^n * high) = 2^n * high + low

\* a ^ b and a | b
ExclusiveOr(a, b) == BitXor(a, b)
InclusiveOr(a, b) == BitOr(a, b)

================================================================================
