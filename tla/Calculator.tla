------------------------------ MODULE Calculator ------------------------------
(* The calculator of src/calculator.c: it reads an expression, checks its      *)
(* syntax, evaluates it with a stack of values and a stack of operators that  *)
(* it takes from an arena, and asks whether to go on.                        *)
EXTENDS Integers, SequencesExt

CONSTANTS
    LLONG_MAX,            \* bound: the program's is 2^63 - 1
    ARENA_CAPACITY_BYTES, STACK_MAX_DEPTH,
    BUFFER,               \* of fgets, 1024
    Lines                 \* what is typed, sequences of characters

Numerals == <<"0", "1", "2", "3", "4", "5", "6", "7", "8", "9">>
Operators == {"+", "-", "*", "/"}
Characters == ToSet(Numerals) \cup Operators \cup {" ", "c", "C", "x"}
LLONG_MIN == -LLONG_MAX - 1

ASSUME CalculatorAssumption ==
    /\ LLONG_MAX \in Nat /\ LLONG_MAX >= 9
    /\ ARENA_CAPACITY_BYTES \in Nat /\ STACK_MAX_DEPTH \in Nat /\ BUFFER \in Nat \ {0}
    \* the longest line and the two stacks, each in whole pointers: of 4096 bytes
    \* the program needs 1024 + 2048 + 256
    /\ 8 * ((BUFFER + 7) \div 8) + 8 * STACK_MAX_DEPTH + 8 * ((STACK_MAX_DEPTH + 7) \div 8)
         <= ARENA_CAPACITY_BYTES
    /\ Lines \subseteq Seq(Characters)

VARIABLES
    expression, tail,     \* the line as far as the buffer holds it, and the rest
    i,                    \* the next character
    state,                \* EXPECT_OPERAND or EXPECT_OPERATOR
    values, ops,          \* the two stacks
    used,                 \* bytes of the arena
    pc,                   \* "prompt", "evaluating", "choice", "end", "failed"; "spin":
                          \* waiting for a newline after the end of the input
    result                \* what was printed last: its kind, and the number

machine == <<expression, tail, i, state, values, ops>>
vars == <<machine, used, pc, result>>

nothing == [kind |-> "nothing", value |-> 0]
isspace(ch) == ch = " "
isdigit(ch) == ch \in ToSet(Numerals)
digit(ch) == CHOOSE d \in 0 .. 9 : Numerals[d + 1] = ch

Init ==
    /\ expression = <<>> /\ tail = <<>>
    /\ i = 1
    /\ state = "EXPECT_OPERAND"
    /\ values = <<>> /\ ops = <<>>
    /\ used = 0
    /\ pc = "prompt"
    /\ result = nothing

-----------------------------------------------------------------------------
\* Rounded up to the size of a pointer; NULL is stood for by -1.
arena_alloc(u, size) ==
    LET sum == u + 8 * ((size + 7) \div 8)
    IN  IF u = -1 \/ sum > ARENA_CAPACITY_BYTES THEN -1 ELSE sum

\* A finite automaton over the characters; "space" is a number that a space has
\* ended, which the code sees as EXPECT_OPERATOR after the digits are skipped.
after(s, ch) ==
    CASE isspace(ch) -> IF s = "number" THEN "space" ELSE s
      [] isdigit(ch) -> IF s = "space" THEN "invalid" ELSE IF s = "invalid" THEN s ELSE "number"
      [] ch \in {"+", "-"} -> IF s = "invalid" THEN s ELSE "operand"
      [] ch \in {"*", "/"} -> IF s \in {"number", "space"} THEN "operand" ELSE "invalid"
      [] OTHER -> "invalid"
isExpressionSyntaxValid(expr) ==
    LET s[k \in 0 .. Len(expr)] == IF k = 0 THEN "operand" ELSE after(s[k - 1], expr[k])
    IN  s[Len(expr)] \in {"number", "space"}

\* fgets leaves what the buffer cannot take to the next read.
readLine(l) ==
    LET room  == Min({BUFFER - 1, Len(l)})
        expr  == SubSeq(l, 1, room)
        first == arena_alloc(0, room + 1)   \* the arena is reset first
        all   == arena_alloc(arena_alloc(first, 8 * STACK_MAX_DEPTH), STACK_MAX_DEPTH)
    IN  /\ pc = "prompt"
        /\ expression' = expr /\ tail' = SubSeq(l, room + 1, Len(l))
        /\ \/ /\ first # -1 /\ ~isExpressionSyntaxValid(expr)
              /\ used' = first
              /\ pc' = "choice"
              /\ result' = [kind |-> "invalid", value |-> 0]
           \/ /\ first # -1 /\ isExpressionSyntaxValid(expr)
              /\ used' = all
              /\ pc' = IF all = -1 THEN "failed" ELSE "evaluating"
              /\ UNCHANGED result
           \/ /\ first = -1   \* strcpy to NULL
              /\ pc' = "failed"
              /\ UNCHANGED <<used, result>>
        /\ UNCHANGED <<i, state, values, ops>>

inputEnds ==
    /\ pc = "prompt"
    /\ pc' = "end"
    /\ UNCHANGED <<machine, used, result>>

-----------------------------------------------------------------------------
char == expression[i]
more == i <= Len(expression)

precedence(op) == IF op \in {"+", "-"} THEN 1 ELSE IF op \in {"*", "/"} THEN 2 ELSE 0

\* Division of C, towards zero.
over(a, b) ==
    LET q == (IF a < 0 THEN -a ELSE a) \div (IF b < 0 THEN -b ELSE b)
    IN  IF (a < 0) = (b < 0) THEN q ELSE -q

\* applyOp exits with an error.
\* Mutant: the least number may be divided by -1.
overflowsNot(op, val1, val2) ==
    CASE op = "+" -> val1 + val2 \notin LLONG_MIN .. LLONG_MAX
      [] op = "-" -> val1 - val2 \notin LLONG_MIN .. LLONG_MAX
      [] op = "*" -> val1 * val2 \notin LLONG_MIN .. LLONG_MAX
      [] op = "/" -> val2 = 0
overflows(op, val1, val2) ==
    CASE op = "+" -> \/ val2 > 0 /\ val1 > LLONG_MAX - val2
                     \/ val2 < 0 /\ val1 < LLONG_MIN - val2
      [] op = "-" -> \/ val2 > 0 /\ val1 < LLONG_MIN + val2
                     \/ val2 < 0 /\ val1 > LLONG_MAX + val2
      [] op = "*" -> \/ val1 > 0 /\ val2 > 0 /\ val1 > over(LLONG_MAX, val2)
                     \/ val1 < 0 /\ val2 < 0 /\ val1 < over(LLONG_MAX, val2)
                     \/ val1 > 0 /\ val2 < 0 /\ val2 < over(LLONG_MIN, val1)
                     \/ val1 < 0 /\ val2 > 0 /\ val1 < over(LLONG_MIN, val2)
      [] op = "/" -> val2 = 0 \/ (val1 = LLONG_MIN /\ val2 = -1)

applied(op, val1, val2) ==
    CASE op = "+" -> val1 + val2
      [] op = "-" -> val1 - val2
      [] op = "*" -> val1 * val2
      [] op = "/" -> over(val1, val2)

skipSpace ==
    /\ pc = "evaluating" /\ more /\ isspace(char)
    /\ i' = i + 1
    /\ UNCHANGED <<expression, tail, state, values, ops, used, pc, result>>

\* A chain of signs, with spaces, and the digits behind it, up to the first
\* that makes the number too large.
readOperand ==
    LET first == Min({k \in i .. Len(expression) : isdigit(expression[k])})
        end   == Max({k \in first .. Len(expression) :
                        \A j \in first .. k : isdigit(expression[j])})
        minus == Cardinality({k \in i .. first : expression[k] = "-"})
        num[k \in first - 1 .. end] ==
            IF k < first THEN 0
            ELSE IF num[k - 1] = -1
                    \/ num[k - 1] > (LLONG_MAX - digit(expression[k])) \div 10
                 THEN -1 ELSE 10 * num[k - 1] + digit(expression[k])
    IN  /\ pc = "evaluating" /\ more /\ ~isspace(char) /\ state = "EXPECT_OPERAND"
        /\ IF num[end] = -1
           THEN pc' = "failed" /\ UNCHANGED <<i, state, values>>
           ELSE /\ values' = Append(values, IF minus % 2 = 0 THEN num[end] ELSE -num[end])
                /\ i' = end + 1
                /\ state' = "EXPECT_OPERATOR"
                /\ UNCHANGED pc
        /\ UNCHANGED <<expression, tail, ops, used, result>>

\* The operator on top of the stack is applied before the next one is pushed.
\* Mutant: only if it binds stronger.
goesFirstStrict == precedence(Last(ops)) > precedence(char)
goesFirst == precedence(Last(ops)) >= precedence(char)

reduce ==
    LET n    == Len(values)
        val1 == values[n - 1]
        val2 == values[n]
    IN  /\ pc = "evaluating" /\ ops # <<>>
        /\ IF more THEN ~isspace(char) /\ state = "EXPECT_OPERATOR" /\ goesFirst ELSE TRUE
        /\ IF overflows(Last(ops), val1, val2)
           THEN pc' = "failed" /\ UNCHANGED <<values, ops>>
           ELSE /\ values' = Append(SubSeq(values, 1, n - 2), applied(Last(ops), val1, val2))
                /\ ops' = Front(ops)
                /\ UNCHANGED pc
        /\ UNCHANGED <<expression, tail, i, state, used, result>>

pushOperator ==
    /\ pc = "evaluating" /\ more /\ ~isspace(char) /\ state = "EXPECT_OPERATOR"
    /\ ops # <<>> => ~goesFirst
    /\ ops' = Append(ops, char)
    /\ i' = i + 1
    /\ state' = "EXPECT_OPERAND"
    /\ UNCHANGED <<expression, tail, values, used, pc, result>>

printResult ==
    /\ pc = "evaluating" /\ ~more /\ ops = <<>>
    /\ result' = [kind |-> "number", value |-> values[1]]
    /\ pc' = "choice"
    /\ UNCHANGED <<machine, used>>

-----------------------------------------------------------------------------
\* The first character of what is left of the line, or of what is typed now; the
\* rest of that line is read away, for ever if the input ends before a newline.
answer(ch) ==
    LET left == SelectSeq(tail, LAMBDA k : ~isspace(k))
        choice == IF left = <<>> THEN ch ELSE left[1]
    IN  /\ pc = "choice"
        /\ \/ pc' = "spin" /\ UNCHANGED <<machine, used, result>>
           \/ choice \notin {"c", "C"} /\ pc' = "end" /\ UNCHANGED <<machine, used, result>>
           \/ /\ choice \in {"c", "C"} /\ pc' = "prompt"
              /\ expression' = <<>> /\ tail' = <<>> /\ i' = 1 /\ state' = "EXPECT_OPERAND"
              /\ values' = <<>> /\ ops' = <<>> /\ result' = nothing
              /\ UNCHANGED used

Next ==
    \/ \E l \in Lines : readLine(l)
    \/ inputEnds
    \/ skipSpace \/ readOperand \/ reduce \/ pushOperator \/ printResult
    \/ \E ch \in Characters \ {" "} : answer(ch)

Spec == Init /\ [][Next]_vars

=============================================================================
