------------------------------ MODULE JsNumbers ------------------------------
(***************************************************************************)
(* How Node-API turns a JavaScript number into a C++ integer: Int32Value   *)
(* and Uint32Value keep the low bits, Int64Value keeps to the limits, and  *)
(* what is no finite number becomes zero.  A fraction is cut off before,   *)
(* so that the numbers here are integers, or NaN.  The widths are          *)
(* constants, with the order that matters: 32 bits are fewer than 64, and  *)
(* there are numbers beyond both.                                          *)
(*                                                                         *)
(* External: the code is Node's.                                           *)
(***************************************************************************)
EXTENDS Integers

CONSTANTS
  W32, W64,   \* the widths of int32_t and int64_t
  NaN         \* a number that is not finite

ASSUME WidthsAssumption ==
  W32 \in Nat \ {0} /\ W64 \in Nat /\ W32 + 1 < W64 /\ NaN \notin Int

\* The laws of exponentiation for the two widths, which the provers do not know.
ASSUME PowersAssumption ==
  /\ \A w \in {W32, W64} : 2^(w - 1) \in Nat \ {0} /\ 2^w = 2 * 2^(w - 1)
  /\ 2^W32 < 2^(W64 - 1)

MaxOf(w) == 2^(w - 1) - 1
MinOf(w) == -(2^(w - 1))
MaxUint32 == 2^W32 - 1

\* The low w bits of n, as a signed integer: a conversion to a narrower type.
Narrow(n, w) == ((n - MinOf(w)) % 2^w) + MinOf(w)

Int32Value(n) == IF n = NaN THEN 0 ELSE Narrow(n, W32)
Uint32Value(n) == IF n = NaN THEN 0 ELSE n % 2^W32
Int64Value(n) ==
  IF n = NaN THEN 0
  ELSE IF n > MaxOf(W64) THEN MaxOf(W64)
  ELSE IF n < MinOf(W64) THEN MinOf(W64)
  ELSE n

\* The numbers up to twice the limits of int64_t.
Numbers == MinOf(W64 + 1) .. MaxOf(W64 + 1) \cup {NaN}
=============================================================================
