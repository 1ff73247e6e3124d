-------------------------------- MODULE Arith --------------------------------
(***************************************************************************)
(* Arithmetic (glom.c: coerce_operands, do_op, arithmefy): an expression's *)
(* operands are taken one after the other, and integers that overflow are  *)
(* refused.                                                                *)
(*                                                                         *)
(* Floating point numbers are whole here, and what rounding does to others *)
(* is left out; what they are beside the integers and as bits is not.      *)
(***************************************************************************)
EXTENDS Integers

CONSTANTS
  ES_INT_MAX,  \* the largest integer
  FloatMax     \* bound: the largest floating point number

ASSUME ArithAssumption == ES_INT_MAX \in Nat /\ FloatMax \in Nat

ES_INT_MIN == -ES_INT_MAX - 1
es_int_t == ES_INT_MIN .. ES_INT_MAX
es_float_t == -FloatMax .. FloatMax

VARIABLES
  accum,    \* what the operands so far come to, or how they fail
  exact,    \* history: what they should come to
  chance    \* history: one of the steps that do_op does not check was taken

arithvars == <<accum, exact, chance>>

Operator == {"+", "-", "*", "/", "%"}
Comparison == {"<", "<=", "=", "!=", ">=", ">"}

Num(t, v) == [t |-> t, v |-> v]
Failure == Num("fail", 0)
Trap == Num("SIGFPE", 0)
Nothing == Num("none", 0)

\* An operand is a number in the text of the expression or a list of words,
\* of which one that says a number is as good.
Numeral == [t : {"nInt"}, v : es_int_t] \cup [t : {"nFloat"}, v : es_float_t]
Operand == Numeral \cup [t : {"digits", "decimal"}, v : es_float_t]
                   \cup {Num("empty", 0), Num("word", 0), Num("null", 0), Num("list", 0)}

\* strtoll, and strtod if that stops before the end of the word. ERANGE is
\* still in errno then.
Converted(o) ==
  CASE o \in Numeral -> o
    [] o.t = "digits" /\ o.v \in es_int_t -> Num("nInt", o.v)
    [] o.t = "decimal" /\ o.v \in es_int_t -> Num("nFloat", o.v)
    [] o.t = "empty" -> Num("nInt", 0)
    [] OTHER -> Failure

-----------------------------------------------------------------------------
\* C's division, which truncates, and its remainder.
Abs(n) == IF n < 0 THEN -n ELSE n
Quotient(a, b) == IF (a < 0) = (b < 0) THEN Abs(a) \div Abs(b) ELSE -(Abs(a) \div Abs(b))
Remainder(a, b) == a - b * Quotient(a, b)

Wrapped(n) ==
  LET width == ES_INT_MAX - ES_INT_MIN + 1
  IN ((n - ES_INT_MIN) % width) + ES_INT_MIN

\* Mutant: the check of a product with a negative number is the positive one's.
OverflowsSigned(op, a, b) ==
  CASE op = "+" -> a + b \notin es_int_t
    [] op = "-" -> \/ a > 0 /\ b < ES_INT_MIN + a
                   \/ a < 0 /\ b > ES_INT_MAX + a + 1
    [] op = "*" -> b # 0 /\ (a > Quotient(ES_INT_MAX, b) \/ a < Quotient(ES_INT_MIN, b))
    [] op = "/" -> a = ES_INT_MIN /\ b = -1
    [] op = "%" -> FALSE

\* The checks before each operation on integers.
Overflows(op, a, b) ==
  CASE op = "+" -> \/ a > 0 /\ b > ES_INT_MAX - a
                   \/ a < 0 /\ b < ES_INT_MIN - a
    [] op = "-" -> \/ a > 0 /\ b < ES_INT_MIN + a
                   \/ a < 0 /\ b > ES_INT_MAX + a + 1
    [] op = "*" -> \/ b > 0 /\ (a > Quotient(ES_INT_MAX, b) \/ a < Quotient(ES_INT_MIN, b))
                   \/ b < 0 /\ (a < Quotient(ES_INT_MAX, b) \/ a > Quotient(ES_INT_MIN, b))
    [] op = "/" -> a = ES_INT_MIN /\ b = -1
    [] op = "%" -> FALSE

\* The check of a product with -1 divides the least integer by it.
Traps(op, a, b) == op = "*" /\ b = -1 /\ a >= -ES_INT_MAX

Computed(op, a, b) ==
  CASE op = "+" -> a + b
    [] op = "-" -> a - b
    [] op = "*" -> a * b
    [] op = "/" -> Quotient(a, b)
    [] op = "%" -> Remainder(a, b)

do_op(op, t, a, b) ==
  IF op \in {"/", "%"} /\ b = 0 THEN Failure
  ELSE IF t = "nFloat" THEN Num(t, Computed(op, a, b))
  ELSE IF Traps(op, a, b) THEN Trap
  ELSE IF Overflows(op, a, b) THEN Failure
  ELSE Num(t, Wrapped(Computed(op, a, b)))

\* Both operands are of the type that either needs.
coerce_operands(x, y) == IF "nFloat" \in {x.t, y.t} THEN "nFloat" ELSE "nInt"

\* A floating point number's bits as an integer: those of the negative ones
\* begin with a one, and grow as the numbers do not.
Bits(f) == IF f >= 0 THEN f ELSE -FloatMax - 1 - f

Truth(b) == IF b THEN 1 ELSE 0
Holds(cmp, a, b) ==
  CASE cmp = "<" -> a < b
    [] cmp = "<=" -> a <= b
    [] cmp = "=" -> a = b
    [] cmp = "!=" -> a # b
    [] cmp = ">=" -> a >= b
    [] cmp = ">" -> a > b

\* The two comparisons of floats that compare lhs.i and rhs.i.
ByBits(cmp, t) == t = "nFloat" /\ cmp \in {"<", ">"}
Compared(cmp, t, a, b) ==
  IF ByBits(cmp, t) THEN IF cmp = "<" THEN Bits(a) <= Bits(b) ELSE Bits(a) >= Bits(b)
  ELSE Holds(cmp, a, b)

-----------------------------------------------------------------------------
ArithInit == accum = Nothing /\ exact = Nothing /\ chance = FALSE

\* The first operand of an expression.
Start(o) ==
  /\ accum = Nothing
  /\ accum' = Converted(o)
  /\ exact' = IF o.t = "decimal" THEN Num("nFloat", o.v) ELSE Converted(o)
  /\ chance' = (o.t = "decimal" /\ o.v \notin es_int_t)

IsNumber(x) == x.t \in {"nInt", "nFloat"}

\* What the operation should come to. A quotient of floats that is not whole
\* is not computed.
Exactly(op, t, a, b) ==
  IF op \in {"/", "%"} /\ b = 0 THEN Failure
  ELSE IF t = "nInt" /\ Computed(op, a, b) \notin es_int_t THEN Failure
  ELSE Num(t, Computed(op, a, b))

\* An expression is followed up to the first step that is not checked.
Goes(val) == ~chance /\ IsNumber(accum) /\ IsNumber(val)

\* The next operand, of nOp ...
Operate(op, o) ==
  LET val == Converted(o)
      t == coerce_operands(accum, val)
  IN /\ Goes(val)
     /\ op = "/" /\ t = "nFloat" /\ val.v # 0 => accum.v % Abs(val.v) = 0
     /\ accum' = do_op(op, t, accum.v, val.v)
     /\ exact' = Exactly(op, t, exact.v, val.v)
     /\ accum'.t = "nFloat" => accum'.v \in es_float_t
     /\ chance' = \/ t = "nInt" /\ Traps(op, accum.v, val.v)
                  \/ t = "nInt" /\ op = "-" /\ accum.v - val.v = ES_INT_MAX + 1

\* ... or of nCmp, which ends it.
Compare(cmp, o) ==
  LET val == Converted(o)
      t == coerce_operands(accum, val)
  IN /\ Goes(val)
     /\ accum' = Num("nCmp", Truth(Compared(cmp, t, accum.v, val.v)))
     /\ exact' = Num("nCmp", Truth(Holds(cmp, exact.v, val.v)))
     /\ chance' = ByBits(cmp, t)

ArithNext ==
  \E o \in Operand :
    \/ Start(o)
    \/ \E op \in Operator : Operate(op, o)
    \/ \E cmp \in Comparison : Compare(cmp, o)

ArithSpec == ArithInit /\ [][ArithNext]_arithvars

-----------------------------------------------------------------------------
\* An expression has its value, whatever integers and floats it mixes, or an
\* error where there is none or no integer for it. (test/tests/arithmetic.es:
\* "Tests that arithmetic expressions result in the correct value"; do_op,
\* arithmefy)
ArithmeticIsExact == accum = exact

\* It does but for what is not checked: an operand with a fraction whose whole
\* part is no integer, a product with -1, a difference that is one more than
\* the largest integer, and whether floats are less or greater.
ArithmeticAsChecked == chance \/ ArithmeticIsExact
=============================================================================
