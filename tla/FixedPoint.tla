------------------------------ MODULE FixedPoint ------------------------------
(***************************************************************************)
(* The 17.14 fixed-point macros of OS_proj_4/threads/fixed-point.h.  A     *)
(* fixed-point value x is a C int standing for x / F.  The macros are      *)
(* taken as functions of the values of their arguments; their callers      *)
(* (the thread_mlfqs code of thread.c) are not in the sources modelled.    *)
(*                                                                         *)
(* C semantics kept: "/" truncates toward zero (CDiv, not TLA+'s         *)
(* flooring \div).  Values are ints (32 bits), and MULT_FP and DIV_FP     *)
(* widen x to int64_t before multiplying.  TLC's own integers are 32 bits, *)
(* so the inputs checked are those for which every intermediate value of  *)
(* a macro is an int: there the widening changes nothing, and overflow     *)
(* (undefined in C) does not arise.                                        *)
(***************************************************************************)
EXTENDS Integers

P == 17
Q == 14
F == 2^Q

AbsVal(v) == IF v < 0 THEN -v ELSE v

\* C's integer division: the quotient truncated toward zero (b # 0).
CDiv(a, b) ==
    IF (a >= 0) = (b > 0) THEN AbsVal(a) \div AbsVal(b)
    ELSE -(AbsVal(a) \div AbsVal(b))

CONVERT_TO_FP(n) == n * F
CONVERT_TO_INT_ZERO(x) == CDiv(x, F)

\* Mutant: no negative branch; (x + F/2) / F for every x.
CONVERT_TO_INT_NEAREST_POS(x) == CDiv(x + F \div 2, F)

CONVERT_TO_INT_NEAREST(x) ==
    IF x >= 0 THEN CDiv(x + F \div 2, F)
    ELSE CDiv(x - F \div 2, F)

ADD_FP(x, y) == x + y
SUB_FP(x, y) == x - y
ADD_INT(x, n) == x + n * F
SUB_INT(x, n) == x - n * F
MULT_FP(x, y) == CDiv(x * y, F)
MULT_INT(x, n) == x * n
DIV_FP(x, y) == CDiv(x * F, y)
DIV_INT(x, n) == CDiv(x, n)

-----------------------------------------------------------------------------
(* Exact arithmetic, as the reference the macros are checked against.      *)

MaxInt == 2^30 + (2^30 - 1)
MinInt == -MaxInt - 1

\* q is a / b rounded toward zero.
IsTrunc(q, a, b) ==
    /\ AbsVal(q * b) <= AbsVal(a)
    /\ AbsVal(a) - AbsVal(q * b) < AbsVal(b)
    /\ q # 0 => (q > 0) = ((a > 0) = (b > 0))

\* r is the integer nearest to x / F, halves rounded away from zero.
IsNearest(r, x) ==
    LET d == 2 * AbsVal(x - r * F)
    IN  d <= F /\ (d = F => AbsVal(r * F) > AbsVal(x))

\* Fixed-point inputs: zero, the halves and wholes around it of both signs,
\* up to magnitudes whose products are still ints.
FPInputs ==
    {0, 1, -1, F \div 2 - 1, F \div 2, -(F \div 2), -(F \div 2) - 1, F, -F,
     2 * F + F \div 2, -(2 * F + F \div 2), 2 * F + 3, -(2 * F + 3)}

\* Magnitudes at the edge of what CONVERT_TO_INT_NEAREST takes without
\* overflow (the negative one a step inside, so that the checks' own
\* arithmetic stays clear of INT_MIN).
EdgeInputs == {MaxInt - F \div 2, MinInt + F \div 2 + 1}

\* Integer inputs; 2^P - 1 is the largest magnitude CONVERT_TO_FP represents
\* of either sign (-2^P gives INT_MIN).
IntInputs == {0, 1, -1, 7, -7}
WideInputs == {2^P - 1, -(2^P - 1)}

\* Wherever the exact result is an int, every macro gives the exact result
\* rounded as C rounds: conversions round toward zero, or to nearest with
\* halves away from zero, for negative values as well as positive ones; a
\* conversion to fixed point and back is the identity up to the largest
\* magnitudes; and MULT_FP, DIV_FP and DIV_INT truncate the exact product
\* or quotient toward zero.
FixedPointExact ==
    /\ \A x \in FPInputs \cup EdgeInputs :
          /\ IsTrunc(CONVERT_TO_INT_ZERO(x), x, F)
          /\ IsNearest(CONVERT_TO_INT_NEAREST(x), x)
    /\ \A n \in IntInputs \cup WideInputs :
          /\ CONVERT_TO_INT_ZERO(CONVERT_TO_FP(n)) = n
          /\ CONVERT_TO_INT_NEAREST(CONVERT_TO_FP(n)) = n
    /\ \A x, y \in FPInputs :
          /\ ADD_FP(x, y) = x + y
          /\ SUB_FP(x, y) = x - y
          /\ IsTrunc(MULT_FP(x, y), x * y, F)
          /\ y # 0 => IsTrunc(DIV_FP(x, y), x * F, y)
    /\ \A x \in FPInputs, n \in IntInputs :
          /\ ADD_INT(x, n) = x + n * F
          /\ SUB_INT(x, n) = x - n * F
          /\ MULT_INT(x, n) = x * n
          /\ n # 0 => IsTrunc(DIV_INT(x, n), x, n)
=============================================================================
