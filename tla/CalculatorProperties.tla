------------------------- MODULE CalculatorProperties -------------------------
(* What src/calculator.c computes, from the meaning of an expression.          *)
EXTENDS Calculator

\* Only spaces are between place k and a digit before it.
afterDigit(expr, k) ==
    \E d \in 1 .. k - 1 : isdigit(expr[d]) /\ \A j \in d + 1 .. k - 1 : isspace(expr[j])

\* Every * and / comes after a number, a number ends the expression, and no
\* space is inside a number.
WellFormed(expr) ==
    /\ afterDigit(expr, Len(expr) + 1)
    /\ \A k \in DOMAIN expr : \/ isspace(expr[k])
                              \/ isdigit(expr[k])
                              \/ expr[k] \in {"+", "-"}
                              \/ expr[k] \in {"*", "/"} /\ afterDigit(expr, k)
    /\ \A j, k \in DOMAIN expr : j + 1 < k /\ isdigit(expr[j]) /\ isdigit(expr[k])
          => \E m \in j + 1 .. k - 1 : ~isspace(expr[m])

Error == LLONG_MAX + 1
inWord(m) == IF m \in LLONG_MIN .. LLONG_MAX THEN m ELSE Error
combine(op, a, b) ==
    IF a = Error \/ b = Error \/ (op = "/" /\ b = 0) THEN Error
    ELSE inWord(applied(op, a, b))

\* The operators of S with a number before them, between two places.
operators(expr, S, lo, hi) == {k \in lo .. hi : expr[k] \in S /\ afterDigit(expr, k)}

\* The place where an expression splits: at the last + or -, or at the last * or
\* / when there is none of them; 0 in a number.
cut(expr, lo, hi) ==
    LET sums     == operators(expr, {"+", "-"}, lo, hi)
        products == operators(expr, {"*", "/"}, lo, hi)
    IN  IF sums # {} THEN Max(sums) ELSE IF products # {} THEN Max(products) ELSE 0

\* The digits and signs between two places as a number.
number(expr, lo, hi) ==
    LET v[k \in lo - 1 .. hi] ==
            IF k < lo THEN 0
            ELSE IF isdigit(expr[k]) THEN 10 * v[k - 1] + digit(expr[k]) ELSE v[k - 1]
        minus == Cardinality({k \in lo .. hi : expr[k] = "-"})
    IN  IF v[hi] > LLONG_MAX THEN Error ELSE IF minus % 2 = 0 THEN v[hi] ELSE -v[hi]

\* The value of a well-formed expression; Error when a number on the way is none
\* of the word.
Meaning(expr) ==
    LET m[r \in (1 .. Len(expr) + 1) \X (0 .. Len(expr))] ==
            LET k == cut(expr, r[1], r[2])
            IN  IF k = 0 THEN number(expr, r[1], r[2])
                ELSE combine(expr[k], m[<<r[1], k - 1>>], m[<<k + 1, r[2]>>])
    IN  m[<<1, Len(expr)>>]

\* The calculator prints the value of the expression; it exits with an error only
\* for a division by zero or a number that the word does not hold, and it refuses
\* only what is not well formed.  So the arena never runs out of bytes either.
CalculatesMeaning ==
    /\ result.kind = "number" =>
         /\ WellFormed(expression)
         /\ result.value = Meaning(expression) /\ result.value # Error
    /\ result.kind = "invalid" => ~WellFormed(expression)
    /\ pc = "failed" => WellFormed(expression) /\ Meaning(expression) = Error

\* The stacks, which are pushed without a test, never hold more than two
\* operators, the lower of the two binding less, and three values, however long
\* the expression is.
StacksStayLow ==
    /\ Len(ops) <= 2 /\ Len(values) <= 3
    /\ Len(ops) = 2 => precedence(ops[1]) < precedence(ops[2])

=============================================================================
