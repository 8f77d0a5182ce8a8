------------------------------ MODULE Integer64 ------------------------------
(***************************************************************************)
(* The 64-bit numbers Lua computes with (Classes/common/Integer64.h), in a *)
(* width of W bits: two objects a and b, the operators and methods Lua     *)
(* applies to them, and the autorelease that frees them with the frame     *)
(* while Lua may still hold them.  Overflow wraps, as the builds compile   *)
(* it; a quotient that does not fit traps.                                 *)
(***************************************************************************)
EXTENDS Integers, Sequences

CONSTANTS W,          \* 64 in the code
          Numbers,    \* what Lua makes objects of
          MaxMethods, \* bound: methods called that change an object
          MaxExponent \* bound: exponents whose power is multiplied out to compare

VARIABLES
    m_val, alive,   \* the objects' values; those not freed
    methods,
    answer          \* the frame's last operation: its operands as they were and its result

vars == <<m_val, alive, methods, answer>>

Cells == {"a", "b"}

Power2[n \in Nat] == IF n = 0 THEN 1 ELSE 2 * Power2[n - 1]

Half == Power2[W - 1]
Size == Power2[W]
Least == -Half
Int64 == Least .. Half - 1

\* The width is a whole number of digits in base 16.
IntegerAssumption ==
    /\ W \in Nat \ {0} /\ W % 4 = 0
    /\ Numbers \subseteq Int64
    /\ MaxMethods \in Nat /\ MaxExponent \in Nat

Ops == {"add", "sub", "mul", "div", "mod", "unm", "pow", "lshift", "rshift",
        "eq", "lt", "le", "less", "lessex", "more", "moreex",
        "set", "addfun", "subfun", "tostring", "none"}
Faults == {"none", "error", "trap", "null", "nothing"}

Answer(op, x, y, r) == [op |-> op, x |-> x, y |-> y, r |-> r, fault |-> "none"]
Fault(op, x, y, f) == [op |-> op, x |-> x, y |-> y, r |-> 0, fault |-> f]

TypeOK ==
    /\ m_val \in [Cells -> Int64]
    /\ alive \subseteq Cells
    /\ methods \in 0 .. MaxMethods
    /\ answer \in [op : Ops, x : Int64, y : Int64, r : Int64, fault : Faults]

Init ==
    /\ m_val \in [Cells -> Numbers]
    /\ alive = Cells
    /\ methods = 0
    /\ answer = Answer("none", 0, 0, 0)

-----------------------------------------------------------------------------
Wrap(n) == ((n + Half) % Size) - Half

Magnitude(n) == IF n < 0 THEN -n ELSE n

\* C's quotient rounds towards zero.
Quotient(x, y) ==
    LET q == Magnitude(x) \div Magnitude(y)
    IN  IF (x < 0) = (y < 0) THEN q ELSE -q
Remainder(x, y) == x - y * Quotient(x, y)

\* Variant: the odd factor is dropped.
pow64_Even(a, b) ==
    LET pow[n \in Nat \ {0}] ==
            [x \in Int64 |-> IF n = 1 THEN x ELSE pow[n \div 2][Wrap(x * x)]]
    IN  pow[b][a]

pow64(a, b) ==
    LET pow[n \in Nat \ {0}] ==
            [x \in Int64 |->
                IF n = 1 THEN x
                ELSE LET p == pow[n \div 2][Wrap(x * x)]
                     IN  IF n % 2 = 1 THEN Wrap(p * x) ELSE p]
    IN  pow[b][a]

\* What is freed reads as zero.
toint64(c) == IF c \in alive THEN m_val[c] ELSE 0

Raises(op, x, y) == answer' = Fault(op, x, y, "error")

Add(x, y) == answer' = Answer("add", x, y, Wrap(x + y))
Sub(x, y) == answer' = Answer("sub", x, y, Wrap(x - y))
Mul(x, y) == answer' = Answer("mul", x, y, Wrap(x * y))

Unm(x, y) == answer' = Answer("unm", x, y, Wrap(-x))

Div(x, y) ==
    \/ y = 0 /\ Raises("div", x, y)
    \/ x = Least /\ y = -1 /\ answer' = Fault("div", x, y, "trap")
    \/ /\ y # 0 /\ ~(x = Least /\ y = -1)
       /\ answer' = Answer("div", x, y, Quotient(x, y))

Mod(x, y) ==
    \/ y = 0 /\ Raises("mod", x, y)
    \/ x = Least /\ y = -1 /\ answer' = Fault("mod", x, y, "trap")
    \/ /\ y # 0 /\ ~(x = Least /\ y = -1)
       /\ answer' = Answer("mod", x, y, Remainder(x, y))

Pow(x, y) ==
    \/ y < 0 /\ Raises("pow", x, y)
    \/ y = 0 /\ answer' = Answer("pow", x, y, 1)
    \/ y > 0 /\ answer' = Answer("pow", x, y, pow64(x, y))

\* A count outside the width is undefined: it is taken modulo the width by the
\* processors, or shifts everything out.
Counts(y) == IF y \in 0 .. W - 1 THEN {y} ELSE {y % W, W}
Lshift(x, y) == \E n \in Counts(y) :
    answer' = Answer("lshift", x, y, IF n = W THEN 0 ELSE Wrap((x % Power2[W - n]) * Power2[n]))
Rshift(x, y) == \E n \in Counts(y) : answer' = Answer("rshift", x, y, x \div Power2[n])

\* The operators make a new object, which is not followed further.
Operator(c, d) ==
    /\ LET x == toint64(c) y == toint64(d) IN
         \/ Add(x, y) \/ Sub(x, y) \/ Mul(x, y) \/ Div(x, y) \/ Mod(x, y)
         \/ Unm(x, y) \/ Pow(x, y) \/ Lshift(x, y) \/ Rshift(x, y)
    /\ UNCHANGED <<m_val, alive, methods>>

Holds(op, x, y) ==
    CASE op = "eq" -> x = y
      [] op \in {"lt", "less"} -> x < y
      [] op \in {"le", "lessex"} -> x <= y
      [] op = "more" -> x > y
      [] op = "moreex" -> x >= y

\* The methods return nothing for an object that is freed.
Compare(op, c, d) ==
    /\ answer' = IF c \notin alive /\ op \in {"less", "lessex", "more", "moreex"}
                 THEN Fault(op, 0, toint64(d), "nothing")
                 ELSE Answer(op, toint64(c), toint64(d),
                             IF Holds(op, toint64(c), toint64(d)) THEN 1 ELSE 0)
    /\ UNCHANGED <<m_val, alive, methods>>

\* add and sub of an object; d is freed if it is no object any more.
Method(op, c, d) ==
    /\ methods < MaxMethods /\ c \in alive
    /\ LET y == toint64(d) r == Wrap(IF op = "addfun" THEN m_val[c] + y ELSE m_val[c] - y) IN
         /\ m_val' = [m_val EXCEPT ![c] = r]
         /\ answer' = Answer(op, m_val[c], y, r)
    /\ methods' = methods + 1
    /\ UNCHANGED alive

\* setvalue takes an object or a number, and writes without a check.
setvalue(c, d) ==
    /\ methods < MaxMethods
    /\ methods' = methods + 1
    /\ IF c \in alive
       THEN /\ m_val' = [m_val EXCEPT ![c] = toint64(d)]
            /\ answer' = Answer("set", m_val[c], toint64(d), toint64(d))
       ELSE answer' = Fault("set", 0, toint64(d), "null") /\ UNCHANGED m_val
    /\ UNCHANGED alive

\* Lua's tostring, which has the digits from sprintf, reads without a check.
tostringfun(c) ==
    /\ answer' = IF c \in alive THEN Answer("tostring", m_val[c], 0, m_val[c])
                 ELSE Fault("tostring", 0, 0, "null")
    /\ UNCHANGED <<m_val, alive, methods>>

\* Every object is autoreleased where it is made.
FrameEnds ==
    /\ alive' = {}
    /\ answer' = Answer("none", 0, 0, 0)
    /\ UNCHANGED <<m_val, methods>>

Next ==
    /\ answer.fault \in {"none", "error", "nothing"}
    /\ \/ FrameEnds
       \/ \E c \in Cells : tostringfun(c)
       \/ \E c, d \in Cells : \/ Operator(c, d) \/ setvalue(c, d)
                              \/ \E op \in {"addfun", "subfun"} : Method(op, c, d)
                              \/ \E op \in {"eq", "lt", "le", "less", "lessex", "more", "moreex"} :
                                    Compare(op, c, d)

Spec == Init /\ [][Next]_vars

-----------------------------------------------------------------------------
\* getstring: the digits, most significant first, and the sign.

\* Variant: the loop stops one digit early.
Decimals_Short(n) ==
    LET decimals[m \in Int] ==
            IF Quotient(m, 100) = 0 THEN <<Remainder(m, 10)>>
            ELSE decimals[Quotient(m, 10)] \o <<Remainder(m, 10)>>
    IN  decimals[n]

Decimals(n) ==
    LET decimals[m \in Int] ==
            IF Quotient(m, 10) = 0 THEN <<Remainder(m, 10)>>
            ELSE decimals[Quotient(m, 10)] \o <<Remainder(m, 10)>>
    IN  decimals[n]

decimal(n) == [neg |-> n < 0, digits |-> Decimals(IF n < 0 THEN Wrap(-n) ELSE n)]

\* bits at a time from the top; what is left below the last whole digit is not shown.
digits(n, bits) ==
    [k \in 1 .. W \div bits |-> (n \div Power2[W - bits * k]) % Power2[bits]]

\* The number a reader makes of digits.
Value(s, base) ==
    LET value[i \in 0 .. Len(s)] == IF i = 0 THEN 0 ELSE value[i - 1] * base + s[i]
    IN  value[Len(s)]

\* x multiplied y times.
Power(x, y) ==
    LET power[i \in Nat] == IF i = 0 THEN 1 ELSE Wrap(power[i - 1] * x)
    IN  power[y]

\* An operator's result is that of arithmetic modulo 2^64, over every pair of
\* operands and any change made to them before (the operators and methods).
ArithmeticIsModular ==
    answer.fault = "none" =>
        LET x == answer.x y == answer.y r == answer.r IN
        CASE answer.op \in {"add", "addfun"} -> (r - (x + y)) % Size = 0
          [] answer.op \in {"sub", "subfun"} -> (r - (x - y)) % Size = 0
          [] answer.op = "mul"    -> (r - x * y) % Size = 0
          [] answer.op = "unm"    -> (r + x) % Size = 0
          [] answer.op = "pow"    ->
                y <= MaxExponent => r = Power(x, y)
          [] answer.op = "lshift" ->
                y \in 0 .. W - 1 => (r - x * Power2[y]) % Size = 0
          [] OTHER -> TRUE

\* Quotient and remainder go together: with the rounding C has, x = q*y + r, and
\* the remainder has the sign of x (toLua_Integer64_div, toLua_Integer64_mod).
DivisionTruncates ==
    answer.fault = "none" /\ answer.op \in {"div", "mod"} =>
        LET x == answer.x y == answer.y
            rest == IF answer.op = "mod" THEN answer.r ELSE x - answer.r * y
        IN  /\ (x - rest) % Magnitude(y) = 0
            /\ Magnitude(rest) < Magnitude(y)
            /\ (rest > 0 => x > 0) /\ (rest < 0 => x < 0)

\* A string names the number it was made from: in base 10 but for the smallest
\* number, which has no opposite, in bases 2 and 16 always, and in base 8 without
\* its last bit, because 64 is no multiple of 3 (toLua_Integer64_tostring).
StringsReadBack ==
    \A c \in Cells :
        LET n == toint64(c) IN
        /\ n # Least =>
             /\ Value(decimal(n).digits, 10) = Magnitude(n)
             /\ decimal(n).neg = (n < 0)
        /\ \A bits \in {1, 4} : Wrap(Value(digits(n, bits), Power2[bits])) = n
        /\ Value(digits(n, 3), 8) = (n % Size) \div Power2[W % 3]

\* A number that Lua keeps beyond the frame faults nowhere but in setvalue and in
\* tostring, and it is never taken for the number it was (toint64, the methods,
\* setvalue, tostringfun).
FreedIsZero ==
    /\ answer.fault = "null" => answer.op \in {"set", "tostring"}
    /\ alive = {} => answer.x = 0 /\ answer.y = 0

=============================================================================
