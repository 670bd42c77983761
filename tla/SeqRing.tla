------------------------------ MODULE SeqRing ------------------------------
(***************************************************************************)
(* The arithmetic of the 16-bit sequence numbers of the serial reliability *)
(* layer (core/src/serial/reliability.rs).  The program's ring has 2^16    *)
(* points; HalfRing is its 0x8000, so that a small ring can be explored    *)
(* and every ring can be reasoned about.                                   *)
(***************************************************************************)
EXTENDS Integers

CONSTANT HalfRing   \* 0x8000 in the program

ASSUME HalfRingAssumption == HalfRing \in Nat \ {0}

Modulus == 2 * HalfRing
Ring    == 0 .. Modulus - 1

\* u16::wrapping_add and u16::wrapping_sub
WrappingAdd(a, n) == (a + n) % Modulus
WrappingSub(a, b) == (a - b) % Modulus

\* A comparison that forgets that the ring wraps (mutant).
SeqLtPlain(a, b) == a < b

\* a comes strictly before b on the ring.
SeqLt(a, b) == a # b /\ WrappingSub(b, a) < HalfRing

SeqGt(a, b) == SeqLt(b, a)
=============================================================================
