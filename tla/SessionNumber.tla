--------------------------- MODULE SessionNumber ---------------------------
(***************************************************************************)
(* Session.GetInt64 and GetInt (core/session.go) on the numbers a session   *)
(* can hold: Go integers and floats, and the JSON literals that a store     *)
(* gives back.  A literal is its digits, not its characters; 63 bits and 19 *)
(* decimal digits become MaxInt and IntDigits.                             *)
(***************************************************************************)
EXTENDS Integers, Sequences

LOCAL INSTANCE SequencesExt

CONSTANTS MaxInt,    \* the largest int64
          MaxNative, \* the largest int
          IntDigits, \* decimal digits of MaxInt
          Digit,     \* the digits of the literals of this instance
          MaxExponent

ASSUME NumberAssumption ==
  /\ {MaxInt, MaxNative, IntDigits, MaxExponent} \subseteq Nat
  /\ MaxNative <= MaxInt
  /\ 10 ^ (IntDigits - 1) <= MaxInt /\ MaxInt < 10 ^ IntDigits
  /\ Digit \subseteq 0 .. 9

Min64 == -MaxInt - 1

\* Up to n digits; the whole part of a JSON literal has no leading zero.
DigitsUpTo(n) == UNION {[1 .. k -> Digit] : k \in 0 .. n}
Whole == {<<0>>} \cup {d \in DigitsUpTo(IntDigits + 1) : d # <<>> /\ d[1] # 0}

\* plain: neither point nor exponent is written.
Literal ==
  {n \in [kind : {"json"}, negative : BOOLEAN, whole : Whole, point : DigitsUpTo(IntDigits),
          exponent : -MaxExponent .. MaxExponent, plain : BOOLEAN] :
     n.plain => n.point = <<>> /\ n.exponent = 0}

\* Go numbers: signed, unsigned up to twice the range, floats in halves.
GoNumber ==
       [kind : {"int"}, value : Min64 .. MaxInt]
  \cup [kind : {"uint"}, value : 0 .. 2 * MaxInt + 1]
  \cup [kind : {"float"}, halves : 2 * Min64 - 3 .. 2 * MaxInt + 3]

Number == Literal \cup GoNumber

-----------------------------------------------------------------------------
ValueOf(digits) == FoldLeft(LAMBDA acc, d : 10 * acc + d, 0, digits)

\* strconv.ParseInt: zero (and an error) for what is out of range.
ParseInt(negative, digits) ==
  LET v == IF negative THEN -ValueOf(digits) ELSE ValueOf(digits) IN
    IF v \in Min64 .. MaxInt THEN v ELSE 0

Zeros(n) == [i \in 1 .. n |-> 0]

TrimLeft(digits) ==
  LET nonzero == {i \in DOMAIN digits : digits[i] # 0} IN
    IF nonzero = {} THEN <<>>
    ELSE SubSeq(digits, CHOOSE i \in nonzero : \A j \in nonzero : i <= j, Len(digits))

\* Mutant: whatever the exponent cuts off is dropped.
CutTruncating(digits, n) == IF n > Len(digits) THEN <<>> ELSE SubSeq(digits, 1, Len(digits) - n)

\* The digits without the last n, which must be zeros; <<>> when they are not.
Cut(digits, n) ==
  IF n > Len(digits) THEN <<>>
  ELSE IF \A i \in Len(digits) - n + 1 .. Len(digits) : digits[i] = 0
    THEN SubSeq(digits, 1, Len(digits) - n)
    ELSE <<>>

\* The general path: digits and exponent only, never a float.
Normalized(n) ==
  LET text     == Len(n.whole) + (IF n.point = <<>> THEN 0 ELSE 1 + Len(n.point))
      digits   == TrimLeft(n.whole \o n.point)
      exponent == n.exponent - Len(n.point)
      kept     == IF exponent < 0 THEN Cut(digits, -exponent) ELSE digits
      more     == IF exponent < 0 THEN 0 ELSE exponent
  IN  IF n.exponent > text + IntDigits \/ n.exponent < -text THEN 0
      ELSE IF kept = <<>> \/ Len(kept) + more > IntDigits THEN 0
      ELSE ParseInt(n.negative, kept \o Zeros(more))

\* math.Trunc(result) = result, and the range, whose upper end is excluded.
Float64(halves) ==
  IF halves % 2 # 0 \/ halves < 2 * Min64 \/ halves >= 2 * (MaxInt + 1)
    THEN 0 ELSE halves \div 2

GetInt64(n) ==
  CASE n.kind = "json" ->
         IF n.plain /\ ParseInt(n.negative, n.whole) # 0 THEN ParseInt(n.negative, n.whole)
                                                         ELSE Normalized(n)
    [] n.kind = "int" -> n.value
    [] n.kind = "uint" -> IF n.value > MaxInt THEN 0 ELSE n.value
    [] n.kind = "float" -> Float64(n.halves)

\* int(value) wraps around where an int is narrower; a value it changes is 0.
Wrapped(v) ==
  LET size == 2 * (MaxNative + 1) IN ((v + MaxNative + 1) % size) - MaxNative - 1

GetInt(n) == IF Wrapped(GetInt64(n)) = GetInt64(n) THEN GetInt64(n) ELSE 0

-----------------------------------------------------------------------------
(* The number itself: coefficient times ten to the shift, halves, or a value. *)

Magnitude(v) == IF v < 0 THEN -v ELSE v

\* The integer v is the number n, in integers only.
Denotes(n, v) ==
  CASE n.kind = "json" ->
         LET c     == ValueOf(n.whole \o n.point)
             shift == n.exponent - Len(n.point)
             u     == Magnitude(v)
         IN  /\ v # 0 => (v < 0) = n.negative
             /\ IF shift < 0 THEN u * 10 ^ (-shift) = c
                ELSE u % 10 ^ shift = 0 /\ u \div 10 ^ shift = c
    [] n.kind = "float" -> 2 * v = n.halves
    [] OTHER -> v = n.value

\* What the getter of integers between low and high is to return.
Exact(n, v, low, high) ==
  \/ v \in low .. high /\ Denotes(n, v)
  \/ v = 0 /\ \A u \in low .. high : ~Denotes(n, u)
=============================================================================
