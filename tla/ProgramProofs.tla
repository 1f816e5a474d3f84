---------------------------- MODULE ProgramProofs -----------------------------
(* The theorems about four small programs: the calculator, for every line and *)
(* any width of its numbers, the student report, for every number of          *)
(* students, the image processing, for every matrix of any size that is       *)
(* taken, and the inventory, for any products and an array of any size.       *)
EXTENDS CalculatorProperties, StudentReport, SonarImage, Inventory, ProofBasics

-----------------------------------------------------------------------------
(* Characters.                                                               *)

\* A digit is none of the other characters an expression may have.
LEMMA Digits ==
    ASSUME NEW ch
    PROVE  /\ isdigit(ch) <=> ch \in {"0", "1", "2", "3", "4", "5", "6", "7", "8", "9"}
           /\ isdigit(ch) => /\ ~isspace(ch) /\ ch \notin Operators
                             /\ digit(ch) \in 0 .. 9
           /\ isspace(ch) => ch \notin Operators
<1>1. ToSet(Numerals) = {"0", "1", "2", "3", "4", "5", "6", "7", "8", "9"}
  <2>1. DOMAIN Numerals = 1 .. 10
    BY DEF Numerals
  <2>2. \A k \in 1 .. 10 : Numerals[k] \in {"0", "1", "2", "3", "4", "5", "6", "7", "8", "9"}
    BY DEF Numerals
  <2>3. /\ Numerals[1] = "0" /\ Numerals[2] = "1" /\ Numerals[3] = "2" /\ Numerals[4] = "3"
        /\ Numerals[5] = "4" /\ Numerals[6] = "5" /\ Numerals[7] = "6" /\ Numerals[8] = "7"
        /\ Numerals[9] = "8" /\ Numerals[10] = "9"
    BY DEF Numerals
  <2> QED BY <2>1, <2>2, <2>3 DEF ToSet
<1>2. ASSUME isdigit(ch) PROVE digit(ch) \in 0 .. 9
  <2>1. \E k \in DOMAIN Numerals : Numerals[k] = ch
    BY <1>2 DEF isdigit, ToSet
  <2>2. DOMAIN Numerals = 1 .. 10
    BY DEF Numerals
  <2>3. PICK k \in 1 .. 10 : Numerals[k] = ch
    BY <2>1, <2>2
  <2>4. k - 1 \in 0 .. 9 /\ Numerals[(k - 1) + 1] = ch
    BY <2>3
  <2>5. \E d \in 0 .. 9 : Numerals[d + 1] = ch
    BY <2>4
  <2> QED BY <2>5 DEF digit
<1> QED BY <1>1, <1>2 DEF isdigit, isspace, Operators

-----------------------------------------------------------------------------
(* The syntax check.                                                         *)

SyntaxStates == {"operand", "number", "space", "invalid"}

\* The states of the automaton, each after the characters before it.
LEMMA SyntaxRuns ==
    ASSUME NEW expr \in Seq(Characters)
    PROVE  \E s \in [0 .. Len(expr) -> SyntaxStates] :
             /\ s[0] = "operand"
             /\ \A k \in 1 .. Len(expr) : s[k] = after(s[k - 1], expr[k])
             /\ isExpressionSyntaxValid(expr) <=> s[Len(expr)] \in {"number", "space"}
<1> DEFINE N == Len(expr)
           next(p) == IF p[1] \in 1 .. N THEN after(p[2], expr[p[1]]) ELSE p[2]
           G == [p \in Int \X SyntaxStates |-> next(p)]
           body(F) == [k \in 0 .. N |-> IF k = 0 THEN "operand" ELSE after(F[k - 1], expr[k])]
           s == CHOOSE F : F = body(F)
<1>1. N \in Nat
  BY LenProperties
<1>2. \A ch : \A t \in SyntaxStates : after(t, ch) \in SyntaxStates
  BY DEF SyntaxStates, after
<1>3. G \in [Int \X SyntaxStates -> SyntaxStates]
  <2> SUFFICES ASSUME NEW p \in Int \X SyntaxStates PROVE next(p) \in SyntaxStates
    OBVIOUS
  <2> QED BY <1>2
<1>4. \A k \in 1 .. N, t \in SyntaxStates : G[<<k, t>>] = after(t, expr[k])
  BY <1>1
<1> HIDE DEF G, N
<1>5. PICK F \in [0 .. N -> SyntaxStates] : recursFrom(F, 0, N, "operand", G)
  <2>1. "operand" \in SyntaxStates
    BY DEF SyntaxStates
  <2>2. 0 \in Int /\ N \in Int
    BY <1>1
  <2> QED BY <1>3, <2>1, <2>2, IntervalRecursion
<1>6. \A k \in 0 .. N : F[k] = IF k = 0 THEN "operand" ELSE G[<<k, F[k - 1]>>]
  BY <1>5 DEF recursFrom
<1>7. F = body(F)
  <2>1. ASSUME NEW k \in 0 .. N, k # 0 PROVE G[<<k, F[k - 1]>>] = after(F[k - 1], expr[k])
    <3>1. k \in 1 .. N /\ k - 1 \in 0 .. N
      BY <1>1, <2>1
    <3> QED BY <1>4, <1>5, <3>1
  <2>2. \A k \in 0 .. N : F[k] = IF k = 0 THEN "operand" ELSE after(F[k - 1], expr[k])
    BY <1>6, <2>1
  <2> QED BY <2>2
<1>8. s = body(s)
  <2> HIDE DEF body
  <2> QED BY <1>7
<1>9. isExpressionSyntaxValid(expr) <=> s[Len(expr)] \in {"number", "space"}
  BY DEF isExpressionSyntaxValid, N
<1> HIDE DEF s
<1>10. s[0] = "operand" /\ \A k \in 1 .. N : s[k] = after(s[k - 1], expr[k])
  BY <1>1, <1>8
<1>11. \A k \in 0 .. N : s[k] \in SyntaxStates
  <2> DEFINE T == {k \in Nat : k <= N => s[k] \in SyntaxStates}
  <2>1. 0 \in T
    BY <1>10 DEF SyntaxStates
  <2>2. ASSUME NEW k \in Nat, k \in T PROVE k + 1 \in T
    <3> SUFFICES ASSUME k + 1 <= N PROVE s[k + 1] \in SyntaxStates
      OBVIOUS
    <3>1. s[k] \in SyntaxStates /\ k + 1 \in 1 .. N /\ (k + 1) - 1 = k
      BY <1>1, <2>2
    <3> QED BY <1>2, <1>10, <3>1
  <2> HIDE DEF T
  <2>3. Nat \subseteq T
    BY <2>1, <2>2, InductiveSet
  <2> QED BY <1>1, <2>3 DEF T
<1>12. s = [k \in 0 .. N |-> s[k]]
  BY <1>8
<1>13. s \in [0 .. N -> SyntaxStates]
  BY <1>11, <1>12
<1> QED BY <1>9, <1>10, <1>13 DEF N

\* A digit before the next place.
LEMMA AfterNext ==
    ASSUME NEW expr \in Seq(Characters), NEW k \in 1 .. Len(expr)
    PROVE  afterDigit(expr, k + 1) <=>
             isdigit(expr[k]) \/ (isspace(expr[k]) /\ afterDigit(expr, k))
<1>0. Len(expr) \in Nat
  BY LenProperties
<1>1. ASSUME isdigit(expr[k]) PROVE afterDigit(expr, k + 1)
  <2>1. k \in 1 .. (k + 1) - 1 /\ k + 1 .. (k + 1) - 1 = {}
    BY <1>0
  <2> QED BY <1>1, <2>1 DEF afterDigit
<1>2. ASSUME isspace(expr[k]), afterDigit(expr, k) PROVE afterDigit(expr, k + 1)
  <2>1. PICK d \in 1 .. k - 1 : isdigit(expr[d]) /\ \A j \in d + 1 .. k - 1 : isspace(expr[j])
    BY <1>2 DEF afterDigit
  <2>2. d \in 1 .. (k + 1) - 1
    BY <1>0, <2>1
  <2>3. \A j \in d + 1 .. (k + 1) - 1 : isspace(expr[j])
    BY <1>0, <1>2, <2>1
  <2> QED BY <2>1, <2>2, <2>3 DEF afterDigit
<1>3. ASSUME afterDigit(expr, k + 1), ~isdigit(expr[k])
      PROVE  isspace(expr[k]) /\ afterDigit(expr, k)
  <2>1. PICK d \in 1 .. (k + 1) - 1 :
          isdigit(expr[d]) /\ \A j \in d + 1 .. (k + 1) - 1 : isspace(expr[j])
    BY <1>3 DEF afterDigit
  <2>2. d \in 1 .. k - 1 /\ k \in d + 1 .. (k + 1) - 1
    BY <1>0, <1>3, <2>1
  <2>3. \A j \in d + 1 .. k - 1 : isspace(expr[j])
    BY <1>0, <2>1, <2>2
  <2> QED BY <2>1, <2>2, <2>3 DEF afterDigit
<1> QED BY <1>1, <1>2, <1>3

\* A number that is divided: two digits, and between them spaces only.
divided(expr, j, k) ==
    /\ j + 1 < k /\ isdigit(expr[j]) /\ isdigit(expr[k])
    /\ \A c \in j + 1 .. k - 1 : isspace(expr[c])

\* What may be at a place.
fits(expr, k) ==
    \/ isspace(expr[k])
    \/ isdigit(expr[k])
    \/ expr[k] \in {"+", "-"}
    \/ expr[k] \in {"*", "/"} /\ afterDigit(expr, k)

\* Nothing is wrong up to place k.
fine(expr, k) ==
    /\ \A j \in 1 .. k : fits(expr, j)
    /\ \A b \in 1 .. k : \A a \in 1 .. b : ~divided(expr, a, b)

\* What a state of the automaton says of the characters before it.
LEMMA SyntaxMeans ==
    ASSUME NEW expr \in Seq(Characters),
           NEW s \in [0 .. Len(expr) -> SyntaxStates], s[0] = "operand",
           \A k \in 1 .. Len(expr) : s[k] = after(s[k - 1], expr[k])
    PROVE  \A k \in 0 .. Len(expr) :
             /\ s[k] = "invalid" <=> ~fine(expr, k)
             /\ s[k] \in {"number", "space"} => afterDigit(expr, k + 1)
             /\ s[k] = "operand" => ~afterDigit(expr, k + 1)
             /\ s[k] = "number" => k > 0 /\ isdigit(expr[k])
             /\ s[k] = "space" => k > 0 /\ isspace(expr[k])
<1> DEFINE N == Len(expr)
           says(k) == /\ s[k] = "invalid" <=> ~fine(expr, k)
                      /\ s[k] \in {"number", "space"} => afterDigit(expr, k + 1)
                      /\ s[k] = "operand" => ~afterDigit(expr, k + 1)
                      /\ s[k] = "number" => k > 0 /\ isdigit(expr[k])
                      /\ s[k] = "space" => k > 0 /\ isspace(expr[k])
           T == {k \in Nat : k <= N => says(k)}
<1>0. N \in Nat
  BY LenProperties
<1>1. 0 \in T
  <2>1. fine(expr, 0)
    BY DEF fine
  <2>2. ~afterDigit(expr, 0 + 1)
    BY DEF afterDigit
  <2> QED BY <2>1, <2>2
<1>2. ASSUME NEW k \in Nat, k \in T PROVE k + 1 \in T
  <2> SUFFICES ASSUME k + 1 <= N PROVE says(k + 1)
    OBVIOUS
  <2> DEFINE c == k + 1
             ch == expr[c]
  <2>1. says(k) /\ c \in 1 .. N /\ c - 1 = k /\ k \in 0 .. N /\ c > 0
    BY <1>0, <1>2
  <2>2. s[c] = after(s[k], ch)
    BY <2>1
  <2>3. s[k] \in SyntaxStates
    BY <2>1
  <2>4. afterDigit(expr, c + 1) <=> isdigit(ch) \/ (isspace(ch) /\ afterDigit(expr, c))
    BY <2>1, AfterNext
  <2>5. fine(expr, c) <=> /\ fine(expr, k) /\ fits(expr, c)
                          /\ \A a \in 1 .. c : ~divided(expr, a, c)
    <3>1. 1 .. c = (1 .. k) \cup {c}
      OBVIOUS
    <3> QED BY <3>1 DEF fine
  <2>6. (\E a \in 1 .. c : divided(expr, a, c)) <=>
          isdigit(ch) /\ k > 0 /\ isspace(expr[k]) /\ afterDigit(expr, c)
    <3>1. ASSUME NEW a \in 1 .. c, divided(expr, a, c)
          PROVE  isdigit(ch) /\ k > 0 /\ isspace(expr[k]) /\ afterDigit(expr, c)
      <4>1. /\ a + 1 < c /\ isdigit(expr[a]) /\ isdigit(ch)
            /\ \A j \in a + 1 .. c - 1 : isspace(expr[j])
        BY <3>1 DEF divided
      <4>2. k \in a + 1 .. c - 1 /\ k > 0 /\ a \in 1 .. c - 1
        BY <4>1
      <4> QED BY <4>1, <4>2 DEF afterDigit
    <3>2. ASSUME isdigit(ch), k > 0, isspace(expr[k]), afterDigit(expr, c)
          PROVE  \E a \in 1 .. c : divided(expr, a, c)
      <4>1. PICK a \in 1 .. c - 1 :
              isdigit(expr[a]) /\ \A j \in a + 1 .. c - 1 : isspace(expr[j])
        BY <3>2 DEF afterDigit
      <4>2. a # k
        BY <3>2, <4>1, Digits
      <4>3. a \in 1 .. c /\ a + 1 < c
        BY <4>1, <4>2
      <4> QED BY <3>2, <4>1, <4>3 DEF divided
    <3> QED BY <3>1, <3>2
  <2>7. /\ isdigit(ch) => ~isspace(ch) /\ ch \notin {"+", "-", "*", "/"}
        /\ isspace(ch) => ch \notin {"+", "-", "*", "/"}
    BY Digits DEF Operators
  <2>8. fits(expr, c) <=> isspace(ch) \/ isdigit(ch) \/ ch \in {"+", "-"}
                          \/ (ch \in {"*", "/"} /\ afterDigit(expr, c))
    BY DEF fits
  <2>9. k > 0 /\ isdigit(expr[k]) => ~isspace(expr[k])
    BY Digits
  <2>10. /\ s[k] = "invalid" <=> ~fine(expr, k)
         /\ s[k] \in {"number", "space"} => afterDigit(expr, c)
         /\ s[k] = "operand" => ~afterDigit(expr, c)
         /\ s[k] = "number" => k > 0 /\ isdigit(expr[k])
         /\ s[k] = "space" => k > 0 /\ isspace(expr[k])
    BY <2>1
  <2> HIDE DEF says, T, c, ch
  <2>11. ASSUME isspace(ch) PROVE says(c)
    <3>1. s[c] = IF s[k] = "number" THEN "space" ELSE s[k]
      BY <2>2, <2>7, <2>11 DEF after
    <3>2. fine(expr, c) <=> fine(expr, k)
      BY <2>5, <2>6, <2>7, <2>8, <2>11
    <3>3. afterDigit(expr, c + 1) <=> afterDigit(expr, c)
      BY <2>4, <2>7, <2>11
    <3>4. expr[c] = ch
      BY DEF ch
    <3> QED BY <2>1, <2>3, <2>10, <2>11, <3>1, <3>2, <3>3, <3>4 DEF says, SyntaxStates
  <2>12. ASSUME isdigit(ch) PROVE says(c)
    <3>1. s[c] = IF s[k] = "space" THEN "invalid" ELSE IF s[k] = "invalid" THEN s[k] ELSE "number"
      BY <2>2, <2>7, <2>12 DEF after
    <3>2. fine(expr, c) <=> fine(expr, k) /\ ~(k > 0 /\ isspace(expr[k]) /\ afterDigit(expr, c))
      BY <2>5, <2>6, <2>8, <2>12
    <3>3. afterDigit(expr, c + 1)
      BY <2>4, <2>12
    <3>4. expr[c] = ch
      BY DEF ch
    <3> QED BY <2>1, <2>3, <2>9, <2>10, <2>12, <3>1, <3>2, <3>3, <3>4 DEF says, SyntaxStates
  <2>13. ASSUME ch \in {"+", "-"} PROVE says(c)
    <3>1. s[c] = IF s[k] = "invalid" THEN s[k] ELSE "operand"
      BY <2>2, <2>7, <2>13 DEF after
    <3>2. fine(expr, c) <=> fine(expr, k)
      BY <2>5, <2>6, <2>7, <2>8, <2>13
    <3>3. ~afterDigit(expr, c + 1)
      BY <2>4, <2>7, <2>13
    <3> QED BY <2>3, <2>10, <3>1, <3>2, <3>3 DEF says, SyntaxStates
  <2>14. ASSUME ch \in {"*", "/"} PROVE says(c)
    <3>1. s[c] = IF s[k] \in {"number", "space"} THEN "operand" ELSE "invalid"
      BY <2>2, <2>7, <2>14 DEF after
    <3>2. fine(expr, c) <=> fine(expr, k) /\ afterDigit(expr, c)
      BY <2>5, <2>6, <2>7, <2>8, <2>14
    <3>3. ~afterDigit(expr, c + 1)
      BY <2>4, <2>7, <2>14
    <3> QED BY <2>3, <2>10, <3>1, <3>2, <3>3 DEF says, SyntaxStates
  <2>15. ASSUME ~isspace(ch), ~isdigit(ch), ch \notin {"+", "-", "*", "/"} PROVE says(c)
    <3>1. s[c] = "invalid"
      BY <2>2, <2>15 DEF after
    <3>2. ~fine(expr, c)
      BY <2>5, <2>8, <2>15
    <3> QED BY <3>1, <3>2 DEF says
  <2>16. says(c)
    BY <2>11, <2>12, <2>13, <2>14, <2>15
  <2> QED BY <2>16 DEF c
<1> HIDE DEF T
<1>3. Nat \subseteq T
  BY <1>1, <1>2, InductiveSet
<1> QED BY <1>0, <1>3 DEF T

\* The syntax check accepts the expressions that are well formed, and no others.
LEMMA SyntaxCorrect ==
    ASSUME NEW expr \in Seq(Characters)
    PROVE  isExpressionSyntaxValid(expr) <=> WellFormed(expr)
<1> DEFINE N == Len(expr)
<1>0. N \in Nat /\ DOMAIN expr = 1 .. N /\ N \in 0 .. N
  BY LenProperties
<1>1. PICK s \in [0 .. Len(expr) -> SyntaxStates] :
             /\ s[0] = "operand"
             /\ \A k \in 1 .. Len(expr) : s[k] = after(s[k - 1], expr[k])
             /\ isExpressionSyntaxValid(expr) <=> s[Len(expr)] \in {"number", "space"}
  BY SyntaxRuns
<1>2. /\ s[N] = "invalid" <=> ~fine(expr, N)
      /\ s[N] \in {"number", "space"} => afterDigit(expr, N + 1)
      /\ s[N] = "operand" => ~afterDigit(expr, N + 1)
  BY <1>0, <1>1, SyntaxMeans
<1>3. s[N] \in SyntaxStates
  BY <1>0, <1>1
<1>4. WellFormed(expr) <=> fine(expr, N) /\ afterDigit(expr, N + 1)
  <2>1. (\A j, k \in DOMAIN expr : j + 1 < k /\ isdigit(expr[j]) /\ isdigit(expr[k])
            => \E m \in j + 1 .. k - 1 : ~isspace(expr[m]))
        <=> \A b \in 1 .. N : \A a \in 1 .. b : ~divided(expr, a, b)
    <3>1. \A j, k \in 1 .. N : j + 1 < k => j \in 1 .. k
      BY <1>0
    <3>2. \A b \in 1 .. N : \A a \in 1 .. b : a \in 1 .. N
      BY <1>0
    <3> QED BY <1>0, <3>1, <3>2 DEF divided
  <2>2. (\A k \in DOMAIN expr : \/ isspace(expr[k])
                                \/ isdigit(expr[k])
                                \/ expr[k] \in {"+", "-"}
                                \/ expr[k] \in {"*", "/"} /\ afterDigit(expr, k))
        <=> \A j \in 1 .. N : fits(expr, j)
    BY <1>0 DEF fits
  <2> QED BY <2>1, <2>2 DEF WellFormed, fine
<1> QED BY <1>1, <1>2, <1>3, <1>4 DEF SyntaxStates

-----------------------------------------------------------------------------
(* Where an expression splits.                                               *)

\* The operators that add, and those that multiply.
adds(expr, k) == expr[k] \in {"+", "-"} /\ afterDigit(expr, k)
multiplies(expr, k) == expr[k] \in {"*", "/"} /\ afterDigit(expr, k)

lastSum(expr, lo, hi, k) ==
    /\ k \in lo .. hi /\ adds(expr, k)
    /\ \A j \in k + 1 .. hi : ~adds(expr, j)
lastProduct(expr, lo, hi, k) ==
    /\ k \in lo .. hi /\ multiplies(expr, k)
    /\ \A j \in k + 1 .. hi : ~multiplies(expr, j)
    /\ \A j \in lo .. hi : ~adds(expr, j)
noOperator(expr, lo, hi) ==
    \A j \in lo .. hi : ~adds(expr, j) /\ ~multiplies(expr, j)

LEMMA CutIs ==
    ASSUME NEW expr, NEW lo \in Nat \ {0}, NEW hi \in Nat
    PROVE  /\ \A k : lastSum(expr, lo, hi, k) => cut(expr, lo, hi) = k
           /\ \A k : lastProduct(expr, lo, hi, k) => cut(expr, lo, hi) = k
           /\ noOperator(expr, lo, hi) => cut(expr, lo, hi) = 0
           /\ \/ lastSum(expr, lo, hi, cut(expr, lo, hi))
              \/ lastProduct(expr, lo, hi, cut(expr, lo, hi))
              \/ noOperator(expr, lo, hi)
<1> DEFINE sums     == operators(expr, {"+", "-"}, lo, hi)
           factors == operators(expr, {"*", "/"}, lo, hi)
           c        == cut(expr, lo, hi)
<1>1. c = IF sums # {} THEN Max(sums) ELSE IF factors # {} THEN Max(factors) ELSE 0
  BY DEF cut
<1>2. \A k : k \in sums <=> k \in lo .. hi /\ adds(expr, k)
  BY DEF operators, adds
<1>3. \A k : k \in factors <=> k \in lo .. hi /\ multiplies(expr, k)
  BY DEF operators, multiplies
<1>4. sums \subseteq lo .. hi /\ factors \subseteq lo .. hi /\ lo \in Int /\ hi \in Int
  BY DEF operators
<1> HIDE DEF sums, factors, c
<1>5. sums # {} => Max(sums) \in sums /\ \A y \in sums : y <= Max(sums)
  BY <1>4, MinMax
<1>6. factors # {} => Max(factors) \in factors /\ \A y \in factors : y <= Max(factors)
  BY <1>4, MinMax
<1>7. ASSUME NEW k, lastSum(expr, lo, hi, k) PROVE c = k
  <2>1. k \in sums /\ \A j \in k + 1 .. hi : j \notin sums
    BY <1>2, <1>7 DEF lastSum
  <2>2. k <= Max(sums) /\ Max(sums) \in sums /\ Max(sums) \in lo .. hi /\ k \in lo .. hi
    BY <1>4, <1>5, <2>1
  <2>3. ~(k < Max(sums))
    BY <2>1, <2>2
  <2> QED BY <1>1, <2>1, <2>2, <2>3
<1>8. ASSUME NEW k, lastProduct(expr, lo, hi, k) PROVE c = k
  <2>1. k \in factors /\ \A j \in k + 1 .. hi : j \notin factors
    BY <1>3, <1>8 DEF lastProduct
  <2>2. sums = {}
    BY <1>2, <1>4, <1>8 DEF lastProduct
  <2>3. /\ k <= Max(factors) /\ Max(factors) \in factors
        /\ Max(factors) \in lo .. hi /\ k \in lo .. hi
    BY <1>4, <1>6, <2>1
  <2>4. ~(k < Max(factors))
    BY <2>1, <2>3
  <2> QED BY <1>1, <2>1, <2>2, <2>3, <2>4
<1>9. ASSUME noOperator(expr, lo, hi) PROVE c = 0
  <2>1. sums = {} /\ factors = {}
    BY <1>2, <1>3, <1>9 DEF noOperator
  <2> QED BY <1>1, <2>1
<1>10. CASE sums # {}
  <2>1. c \in sums /\ c \in lo .. hi /\ \A y \in sums : y <= c
    BY <1>1, <1>4, <1>5, <1>10
  <2>2. \A j \in c + 1 .. hi : j \notin sums
    BY <2>1
  <2>3. \A j \in c + 1 .. hi : j \in lo .. hi
    BY <2>1
  <2>4. lastSum(expr, lo, hi, c)
    BY <1>2, <2>1, <2>2, <2>3 DEF lastSum
  <2> QED BY <1>7, <1>8, <1>9, <2>4 DEF c
<1>11. CASE sums = {} /\ factors # {}
  <2>1. c \in factors /\ c \in lo .. hi /\ \A y \in factors : y <= c
    BY <1>1, <1>4, <1>6, <1>11
  <2>2. \A j \in c + 1 .. hi : j \notin factors
    BY <2>1
  <2>3. \A j \in c + 1 .. hi : j \in lo .. hi
    BY <2>1
  <2>4. lastProduct(expr, lo, hi, c)
    BY <1>2, <1>3, <1>11, <2>1, <2>2, <2>3 DEF lastProduct
  <2> QED BY <1>7, <1>8, <1>9, <2>4 DEF c
<1>12. CASE sums = {} /\ factors = {}
  <2>1. noOperator(expr, lo, hi)
    BY <1>2, <1>3, <1>12 DEF noOperator
  <2> QED BY <1>7, <1>8, <1>9, <2>1 DEF c
<1> QED BY <1>10, <1>11, <1>12

-----------------------------------------------------------------------------
(* The meaning of an expression and of its parts.                            *)

parts(expr) == (1 .. Len(expr) + 1) \X (0 .. Len(expr))

\* The value of the expression between two places.
part(expr, lo, hi) ==
    (CHOOSE m : m = [r \in (1 .. Len(expr) + 1) \X (0 .. Len(expr)) |->
                       LET k == cut(expr, r[1], r[2])
                       IN  IF k = 0 THEN number(expr, r[1], r[2])
                           ELSE combine(expr[k], m[<<r[1], k - 1>>], m[<<k + 1, r[2]>>])])
        [<<lo, hi>>]

\* Values are numbers of the word, or Error.
LEMMA CombineType ==
    ASSUME NEW op, NEW a, NEW b PROVE combine(op, a, b) \in Int
<1>1. LLONG_MAX \in Nat
  BY CalculatorAssumption
<1>2. Error \in Int /\ \A m : inWord(m) \in Int
  BY <1>1 DEF Error, inWord, LLONG_MIN
<1> QED BY <1>2 DEF combine

\* The recursion ends: the parts are shorter than the whole.
LEMMA PartSplits ==
    ASSUME NEW expr \in Seq(Characters),
           NEW lo \in 1 .. Len(expr) + 1, NEW hi \in 0 .. Len(expr)
    PROVE  part(expr, lo, hi) =
             IF cut(expr, lo, hi) = 0 THEN number(expr, lo, hi)
             ELSE combine(expr[cut(expr, lo, hi)], part(expr, lo, cut(expr, lo, hi) - 1),
                          part(expr, cut(expr, lo, hi) + 1, hi))
<1> DEFINE N == Len(expr)
           R == (1 .. Len(expr) + 1) \X (0 .. Len(expr))
           V == Int \cup {number(expr, r[1], r[2]) : r \in R}
           F == [R -> V]
           here(r) == cut(expr, r[1], r[2])
           at(r, g) == IF here(r) = 0 THEN number(expr, r[1], r[2])
                       ELSE combine(expr[here(r)], g[<<r[1], here(r) - 1>>],
                                    g[<<here(r) + 1, r[2]>>])
           all(g) == [r \in R |-> at(r, g)]
           zero == [r \in R |-> 0]
           G == [p \in Nat \X F |-> all(p[2])]
           M == CHOOSE m : m = all(m)
<1>1. N \in Nat
  BY LenProperties
<1>2. \A g : all(g) \in F
  <2> SUFFICES ASSUME NEW g, NEW r \in R PROVE at(r, g) \in V
    OBVIOUS
  <2> QED BY CombineType
<1>3. G \in [Nat \X F -> F]
  <2> HIDE DEF F, all
  <2> QED BY <1>2
<1>4. \A m \in Nat, g \in F : G[<<m, g>>] = all(g)
  <2> HIDE DEF F, all
  <2> QED OBVIOUS
<1>5. zero \in F
  OBVIOUS
<1> HIDE DEF G, zero, F, all
<1>6. PICK f \in [Nat -> F] : recurs(f, zero, G)
  BY <1>3, <1>5, RecursiveFunction
<1>7. \A m \in Nat : f[m + 1] = all(f[m])
  BY <1>4, <1>6 DEF recurs
<1>8. \A r \in R : /\ r[1] \in 1 .. N + 1 /\ r[2] \in 0 .. N
                   /\ here(r) # 0 => /\ here(r) \in r[1] .. r[2]
                                     /\ <<r[1], here(r) - 1>> \in R
                                     /\ <<here(r) + 1, r[2]>> \in R
  <2> SUFFICES ASSUME NEW r \in R
               PROVE  /\ r[1] \in 1 .. N + 1 /\ r[2] \in 0 .. N
                      /\ here(r) # 0 => /\ here(r) \in r[1] .. r[2]
                                        /\ <<r[1], here(r) - 1>> \in R
                                        /\ <<here(r) + 1, r[2]>> \in R
    OBVIOUS
  <2>1. r[1] \in 1 .. N + 1 /\ r[2] \in 0 .. N
    OBVIOUS
  <2>2. r[1] \in Nat \ {0} /\ r[2] \in Nat
    BY <1>1, <2>1
  <2>3. here(r) # 0 => here(r) \in r[1] .. r[2]
    <3> DEFINE a == r[1]
               b == r[2]
               c == cut(expr, a, b)
    <3>1. a \in Nat \ {0} /\ b \in Nat
      BY <2>2
    <3> HIDE DEF a, b
    <3>2. /\ noOperator(expr, a, b) => c = 0
          /\ lastSum(expr, a, b, c) \/ lastProduct(expr, a, b, c) \/ noOperator(expr, a, b)
      BY <3>1, CutIs
    <3>3. c # 0 => c \in a .. b
      BY <3>2 DEF lastSum, lastProduct
    <3> QED BY <3>3 DEF a, b
  <2>4. ASSUME here(r) # 0 PROVE here(r) - 1 \in 0 .. N /\ here(r) + 1 \in 1 .. N + 1
    BY <1>1, <2>1, <2>3, <2>4
  <2> HIDE DEF here
  <2> QED BY <2>1, <2>3, <2>4
<1> HIDE DEF here, R, at
<1>9. \A g : \A r \in R : all(g)[r] = at(r, g)
  BY DEF all
<1> DEFINE T == {m \in Nat : \A r \in R : r[2] - r[1] < m => f[m + 2][r] = f[m + 1][r]}
<1>10. \A m \in Nat, r \in R : f[m + 1][r] = at(r, f[m])
  BY <1>7, <1>9
<1>11. 0 \in T
  <2> SUFFICES ASSUME NEW r \in R, r[2] - r[1] < 0 PROVE f[0 + 2][r] = f[0 + 1][r]
    OBVIOUS
  <2>1. here(r) = 0
    <3>1. /\ r[1] \in 1 .. N + 1 /\ r[2] \in 0 .. N
          /\ here(r) # 0 => here(r) \in r[1] .. r[2]
      BY <1>8
    <3> QED BY <1>1, <3>1
  <2>2. f[1 + 1][r] = at(r, f[1]) /\ f[0 + 1][r] = at(r, f[0])
    BY <1>10
  <2>3. at(r, f[1]) = at(r, f[0])
    BY <2>1 DEF at
  <2> QED BY <2>2, <2>3
<1>12. ASSUME NEW m \in Nat, m \in T PROVE m + 1 \in T
  <2> SUFFICES ASSUME NEW r \in R, r[2] - r[1] < m + 1
               PROVE  f[(m + 1) + 2][r] = f[(m + 1) + 1][r]
    OBVIOUS
  <2>1. /\ f[(m + 1) + 2][r] = at(r, f[m + 2])
        /\ f[(m + 1) + 1][r] = at(r, f[m + 1])
    <3>1. /\ m + 2 \in Nat /\ (m + 2) + 1 = (m + 1) + 2
          /\ m + 1 \in Nat
      OBVIOUS
    <3> QED BY <1>10, <3>1
  <2>2. ASSUME here(r) # 0
        PROVE  /\ f[m + 2][<<r[1], here(r) - 1>>] = f[m + 1][<<r[1], here(r) - 1>>]
               /\ f[m + 2][<<here(r) + 1, r[2]>>] = f[m + 1][<<here(r) + 1, r[2]>>]
    <3> DEFINE a == <<r[1], here(r) - 1>>
               b == <<here(r) + 1, r[2]>>
    <3>1. /\ here(r) \in r[1] .. r[2] /\ a \in R /\ b \in R
          /\ r[1] \in 1 .. N + 1 /\ r[2] \in 0 .. N
      BY <1>8, <2>2
    <3>2. a[2] - a[1] < m /\ b[2] - b[1] < m
      BY <1>1, <3>1
    <3> HIDE DEF a, b
    <3>3. f[m + 2][a] = f[m + 1][a] /\ f[m + 2][b] = f[m + 1][b]
      BY <1>12, <3>1, <3>2
    <3> QED BY <3>3 DEF a, b
  <2>3. at(r, f[m + 2]) = at(r, f[m + 1])
    BY <2>2 DEF at
  <2> QED BY <2>1, <2>3
<1> HIDE DEF T
<1>13. N \in T
  BY <1>1, <1>11, <1>12, InductiveSet
<1>14. f[N + 1] = all(f[N + 1])
  <2>1. ASSUME NEW r \in R PROVE r[2] - r[1] < N
    <3>1. r[1] \in 1 .. N + 1 /\ r[2] \in 0 .. N
      BY <1>8
    <3> QED BY <1>1, <3>1
  <2>2. \A r \in R : f[N + 2][r] = f[N + 1][r]
    BY <1>13, <2>1 DEF T
  <2>3. f[N + 2] = all(f[N + 1])
    <3>1. N + 1 \in Nat /\ (N + 1) + 1 = N + 2
      BY <1>1
    <3> QED BY <1>7, <3>1
  <2>4. f[N + 1] \in F /\ f[N + 2] \in F
    BY <1>1, <1>6
  <2>5. f[N + 1] = f[N + 2]
    BY <2>2, <2>4 DEF F
  <2> QED BY <2>3, <2>5
<1>15. M = all(M)
  BY <1>14
<1>16. \A a, b : part(expr, a, b) = M[<<a, b>>]
  BY DEF part, M, all, at, here, R
<1> HIDE DEF M
<1> DEFINE r == <<lo, hi>>
<1>17. r \in R /\ r[1] = lo /\ r[2] = hi
  BY DEF R
<1>18. M[r] = at(r, M)
  BY <1>9, <1>15, <1>17
<1>19. here(r) = cut(expr, lo, hi)
  BY DEF here
<1> QED BY <1>16, <1>17, <1>18, <1>19 DEF at

LEMMA MeaningIsPart ==
    ASSUME NEW expr PROVE Meaning(expr) = part(expr, 1, Len(expr))
BY DEF Meaning, part

-----------------------------------------------------------------------------
(* Numbers.                                                                  *)

\* What is read of a number up to each place.
readsDigits(expr, lo, hi, v) ==
    \A k \in lo - 1 .. hi :
        v[k] = IF k < lo THEN 0
               ELSE IF isdigit(expr[k]) THEN 10 * v[k - 1] + digit(expr[k]) ELSE v[k - 1]

minusSigns(expr, lo, hi) == Cardinality({k \in lo .. hi : expr[k] = "-"})

LEMMA NumberRuns ==
    ASSUME NEW expr \in Seq(Characters), NEW lo \in Nat \ {0}, NEW hi \in Nat
    PROVE  \E v \in [lo - 1 .. hi -> Nat] :
             /\ readsDigits(expr, lo, hi, v)
             /\ number(expr, lo, hi) =
                  IF v[hi] > LLONG_MAX THEN Error
                  ELSE IF minusSigns(expr, lo, hi) % 2 = 0 THEN v[hi] ELSE -v[hi]
<1> DEFINE next(p) == IF isdigit(expr[p[1]]) THEN 10 * p[2] + digit(expr[p[1]]) ELSE p[2]
           G == [p \in Int \X Nat |-> next(p)]
           a == lo - 1
           body(F) == [k \in lo - 1 .. hi |->
                         IF k < lo THEN 0
                         ELSE IF isdigit(expr[k]) THEN 10 * F[k - 1] + digit(expr[k]) ELSE F[k - 1]]
           v == CHOOSE F : F = body(F)
<1>1. G \in [Int \X Nat -> Nat]
  <2> SUFFICES ASSUME NEW p \in Int \X Nat PROVE next(p) \in Nat
    OBVIOUS
  <2> QED BY Digits
<1>2. \A k \in Int, m \in Nat :
        G[<<k, m>>] = IF isdigit(expr[k]) THEN 10 * m + digit(expr[k]) ELSE m
  OBVIOUS
<1>3. a \in Int /\ hi \in Int /\ 0 \in Nat
  OBVIOUS
<1> HIDE DEF G, a
<1>4. PICK F \in [a .. hi -> Nat] : recursFrom(F, a, hi, 0, G)
  BY <1>1, <1>3, IntervalRecursion
<1>5. \A k \in a .. hi : F[k] = IF k = a THEN 0 ELSE G[<<k, F[k - 1]>>]
  BY <1>4 DEF recursFrom
<1>6. F = body(F)
  <2>1. ASSUME NEW k \in lo - 1 .. hi
        PROVE  F[k] = IF k < lo THEN 0
                      ELSE IF isdigit(expr[k]) THEN 10 * F[k - 1] + digit(expr[k]) ELSE F[k - 1]
    <3>1. CASE k < lo
      <4>1. k = a /\ k \in a .. hi
        BY <3>1 DEF a
      <4> QED BY <1>5, <3>1, <4>1
    <3>2. CASE ~(k < lo)
      <4>1. k \in a .. hi /\ k # a /\ k - 1 \in a .. hi /\ k \in Int
        BY <3>2 DEF a
      <4>2. F[k] = G[<<k, F[k - 1]>>] /\ F[k - 1] \in Nat
        BY <1>4, <1>5, <4>1
      <4> QED BY <1>2, <3>2, <4>1, <4>2
    <3> QED BY <3>1, <3>2
  <2>2. F = [k \in lo - 1 .. hi |-> F[k]]
    BY <1>4 DEF a
  <2> QED BY <2>1, <2>2
<1>7. v = body(v)
  <2> HIDE DEF body
  <2> QED BY <1>6
<1>8. number(expr, lo, hi) = IF v[hi] > LLONG_MAX THEN Error
                             ELSE IF minusSigns(expr, lo, hi) % 2 = 0 THEN v[hi] ELSE -v[hi]
  BY DEF number, minusSigns
<1> HIDE DEF v
<1>9. \A k \in lo - 1 .. hi :
        v[k] = IF k < lo THEN 0
               ELSE IF isdigit(expr[k]) THEN 10 * v[k - 1] + digit(expr[k]) ELSE v[k - 1]
  BY <1>7
<1>10. \A k \in lo - 1 .. hi : v[k] \in Nat
  <2> DEFINE T == {m \in Nat : lo - 1 + m <= hi => v[lo - 1 + m] \in Nat}
  <2>1. 0 \in T
    <3> SUFFICES ASSUME lo - 1 + 0 <= hi PROVE v[lo - 1 + 0] \in Nat
      OBVIOUS
    <3>1. lo - 1 \in lo - 1 .. hi /\ lo - 1 < lo /\ lo - 1 + 0 = lo - 1
      OBVIOUS
    <3> QED BY <1>9, <3>1
  <2>2. ASSUME NEW m \in Nat, m \in T PROVE m + 1 \in T
    <3> SUFFICES ASSUME lo - 1 + (m + 1) <= hi PROVE v[lo - 1 + (m + 1)] \in Nat
      OBVIOUS
    <3> DEFINE k == lo - 1 + (m + 1)
    <3>1. k \in lo - 1 .. hi /\ ~(k < lo) /\ k - 1 = lo - 1 + m
      OBVIOUS
    <3>2. v[k - 1] \in Nat
      BY <2>2, <3>1
    <3>3. v[k] = IF isdigit(expr[k]) THEN 10 * v[k - 1] + digit(expr[k]) ELSE v[k - 1]
      BY <1>9, <3>1
    <3>4. isdigit(expr[k]) => digit(expr[k]) \in Nat
      BY Digits
    <3>5. v[k] \in Nat
      BY <3>2, <3>3, <3>4
    <3> QED BY <3>5
  <2> HIDE DEF T
  <2>3. Nat \subseteq T
    BY <2>1, <2>2, InductiveSet
  <2> SUFFICES ASSUME NEW k \in lo - 1 .. hi PROVE v[k] \in Nat
    OBVIOUS
  <2>4. k - (lo - 1) \in Nat /\ lo - 1 + (k - (lo - 1)) = k /\ k <= hi
    OBVIOUS
  <2> QED BY <2>3, <2>4 DEF T
<1>11. v = [k \in lo - 1 .. hi |-> v[k]]
  BY <1>7
<1>12. v \in [lo - 1 .. hi -> Nat]
  BY <1>10, <1>11
<1> QED BY <1>8, <1>9, <1>12 DEF readsDigits

\* Two readings agree as far as both go.
LEMMA SameDigits ==
    ASSUME NEW expr \in Seq(Characters), NEW lo \in Nat \ {0}, NEW hi \in Nat, NEW hh \in Nat,
           hi <= hh, NEW v, readsDigits(expr, lo, hi, v), NEW w, readsDigits(expr, lo, hh, w)
    PROVE  \A k \in lo - 1 .. hi : v[k] = w[k]
<1> DEFINE T == {m \in Nat : lo - 1 + m <= hi => v[lo - 1 + m] = w[lo - 1 + m]}
<1>1. 0 \in T
  <2> SUFFICES ASSUME lo - 1 + 0 <= hi PROVE v[lo - 1 + 0] = w[lo - 1 + 0]
    OBVIOUS
  <2>1. lo - 1 \in lo - 1 .. hi /\ lo - 1 \in lo - 1 .. hh /\ lo - 1 < lo /\ lo - 1 + 0 = lo - 1
    OBVIOUS
  <2> QED BY <2>1 DEF readsDigits
<1>2. ASSUME NEW m \in Nat, m \in T PROVE m + 1 \in T
  <2> SUFFICES ASSUME lo - 1 + (m + 1) <= hi PROVE v[lo - 1 + (m + 1)] = w[lo - 1 + (m + 1)]
    OBVIOUS
  <2> DEFINE k == lo - 1 + (m + 1)
  <2>1. k \in lo - 1 .. hi /\ k \in lo - 1 .. hh /\ ~(k < lo) /\ k - 1 = lo - 1 + m
    OBVIOUS
  <2>2. v[k - 1] = w[k - 1]
    BY <1>2, <2>1
  <2> QED BY <2>1, <2>2 DEF readsDigits
<1> HIDE DEF T
<1>3. Nat \subseteq T
  BY <1>1, <1>2, InductiveSet
<1> SUFFICES ASSUME NEW k \in lo - 1 .. hi PROVE v[k] = w[k]
  OBVIOUS
<1>4. k - (lo - 1) \in Nat /\ lo - 1 + (k - (lo - 1)) = k /\ k <= hi
  OBVIOUS
<1> QED BY <1>3, <1>4 DEF T

\* A space behind a number adds nothing to it.
LEMMA NumberTrailing ==
    ASSUME NEW expr \in Seq(Characters), NEW lo \in Nat \ {0}, NEW hi \in Nat,
           lo <= hi + 1, isspace(expr[hi + 1])
    PROVE  number(expr, lo, hi + 1) = number(expr, lo, hi)
<1>0. hi + 1 \in Nat
  OBVIOUS
<1>1. PICK v \in [lo - 1 .. hi -> Nat] :
        /\ readsDigits(expr, lo, hi, v)
        /\ number(expr, lo, hi) =
             IF v[hi] > LLONG_MAX THEN Error
             ELSE IF minusSigns(expr, lo, hi) % 2 = 0 THEN v[hi] ELSE -v[hi]
  BY NumberRuns
<1>2. PICK w \in [lo - 1 .. hi + 1 -> Nat] :
        /\ readsDigits(expr, lo, hi + 1, w)
        /\ number(expr, lo, hi + 1) =
             IF w[hi + 1] > LLONG_MAX THEN Error
             ELSE IF minusSigns(expr, lo, hi + 1) % 2 = 0 THEN w[hi + 1] ELSE -w[hi + 1]
  BY <1>0, NumberRuns
<1>3. w[hi + 1] = w[hi]
  <2>1. hi + 1 \in lo - 1 .. hi + 1 /\ ~(hi + 1 < lo) /\ (hi + 1) - 1 = hi
    OBVIOUS
  <2>2. ~isdigit(expr[hi + 1])
    BY Digits
  <2> QED BY <1>2, <2>1, <2>2 DEF readsDigits
<1>4. v[hi] = w[hi]
  <2>1. hi <= hi + 1 /\ hi \in lo - 1 .. hi
    OBVIOUS
  <2> DEFINE hh == hi + 1
  <2>2. readsDigits(expr, lo, hi, v) /\ readsDigits(expr, lo, hh, w) /\ hi <= hh /\ hh \in Nat
    BY <1>1, <1>2
  <2> HIDE DEF hh
  <2>3. \A k \in lo - 1 .. hi : v[k] = w[k]
    BY <2>2, SameDigits
  <2> QED BY <2>1, <2>3
<1>5. minusSigns(expr, lo, hi + 1) = minusSigns(expr, lo, hi)
  <2>1. expr[hi + 1] # "-"
    BY DEF isspace
  <2>2. {k \in lo .. hi + 1 : expr[k] = "-"} = {k \in lo .. hi : expr[k] = "-"}
    <3>1. \A k \in lo .. hi + 1 : k # hi + 1 => k \in lo .. hi
      OBVIOUS
    <3>2. \A k \in lo .. hi : k \in lo .. hi + 1
      OBVIOUS
    <3> QED BY <2>1, <3>1, <3>2
  <2> QED BY <2>2 DEF minusSigns
<1> QED BY <1>1, <1>2, <1>3, <1>4, <1>5

\* A space behind an expression adds nothing to it.
LEMMA PartTrailing ==
    ASSUME NEW expr \in Seq(Characters), NEW hi \in 0 .. Len(expr) - 1, isspace(expr[hi + 1])
    PROVE  \A lo \in 1 .. hi + 1 : part(expr, lo, hi + 1) = part(expr, lo, hi)
<1> DEFINE N == Len(expr)
           T == {m \in Nat : \A lo \in 1 .. hi + 1 :
                   hi - lo < m => part(expr, lo, hi + 1) = part(expr, lo, hi)}
<1>0. N \in Nat
  BY LenProperties
<1>1. ~adds(expr, hi + 1) /\ ~multiplies(expr, hi + 1)
  BY Digits DEF adds, multiplies, Operators
<1>2. ASSUME NEW lo \in 1 .. hi + 1
      PROVE  /\ cut(expr, lo, hi + 1) = cut(expr, lo, hi)
             /\ cut(expr, lo, hi) # 0 => cut(expr, lo, hi) \in lo .. hi
  <2> DEFINE c == cut(expr, lo, hi)
  <2>1. lo \in Nat \ {0} /\ hi \in Nat /\ hi + 1 \in Nat
    BY <1>0
  <2>2. \A k \in lo .. hi + 1 : k = hi + 1 \/ k \in lo .. hi
    BY <1>0
  <2>3. CASE lastSum(expr, lo, hi, c)
    <3>1. lastSum(expr, lo, hi + 1, c)
      <4>1. \A j \in c + 1 .. hi + 1 : j = hi + 1 \/ j \in c + 1 .. hi
        BY <2>1, <2>3 DEF lastSum
      <4>2. c \in lo .. hi /\ c \in lo .. hi + 1
        BY <2>1, <2>3 DEF lastSum
      <4> QED BY <1>1, <2>3, <4>1, <4>2 DEF lastSum
    <3>2. c \in lo .. hi
      BY <2>3 DEF lastSum
    <3> HIDE DEF c
    <3> QED BY <2>1, <3>1, <3>2, CutIs DEF c
  <2>4. CASE lastProduct(expr, lo, hi, c)
    <3>1. lastProduct(expr, lo, hi + 1, c)
      <4>1. \A j \in c + 1 .. hi + 1 : j = hi + 1 \/ j \in c + 1 .. hi
        BY <2>1, <2>4 DEF lastProduct
      <4>2. c \in lo .. hi /\ c \in lo .. hi + 1
        BY <2>1, <2>4 DEF lastProduct
      <4> QED BY <1>1, <2>2, <2>4, <4>1, <4>2 DEF lastProduct
    <3>2. c \in lo .. hi
      BY <2>4 DEF lastProduct
    <3> HIDE DEF c
    <3> QED BY <2>1, <3>1, <3>2, CutIs DEF c
  <2>5. CASE noOperator(expr, lo, hi)
    <3>1. noOperator(expr, lo, hi + 1)
      BY <1>1, <2>2, <2>5 DEF noOperator
    <3> QED BY <2>1, <2>5, <3>1, CutIs
  <2> QED BY <2>1, <2>3, <2>4, <2>5, CutIs
<1>3. ASSUME NEW lo \in 1 .. hi + 1, cut(expr, lo, hi) = 0
      PROVE  part(expr, lo, hi + 1) = part(expr, lo, hi)
  <2>1. /\ lo \in 1 .. N + 1 /\ hi \in 0 .. N /\ hi + 1 \in 0 .. N
        /\ lo \in Nat \ {0} /\ hi \in Nat /\ lo <= hi + 1
    BY <1>0
  <2>2. part(expr, lo, hi + 1) = number(expr, lo, hi + 1) /\ part(expr, lo, hi) = number(expr, lo, hi)
    BY <1>2, <1>3, <2>1, PartSplits
  <2> QED BY <2>1, <2>2, NumberTrailing
<1>4. 0 \in T
  <2> SUFFICES ASSUME NEW lo \in 1 .. hi + 1, hi - lo < 0
               PROVE  part(expr, lo, hi + 1) = part(expr, lo, hi)
    OBVIOUS
  <2>1. cut(expr, lo, hi) = 0
    BY <1>0, <1>2
  <2> QED BY <1>3, <2>1
<1>5. ASSUME NEW m \in Nat, m \in T PROVE m + 1 \in T
  <2> SUFFICES ASSUME NEW lo \in 1 .. hi + 1, hi - lo < m + 1
               PROVE  part(expr, lo, hi + 1) = part(expr, lo, hi)
    OBVIOUS
  <2> DEFINE c == cut(expr, lo, hi)
  <2>1. CASE c = 0
    BY <1>3, <2>1
  <2>2. CASE c # 0
    <3>1. c \in lo .. hi /\ cut(expr, lo, hi + 1) = c
      BY <1>2, <2>2
    <3>2. /\ lo \in 1 .. N + 1 /\ hi \in 0 .. N /\ hi + 1 \in 0 .. N
      BY <1>0
    <3>3. /\ part(expr, lo, hi + 1) =
               combine(expr[c], part(expr, lo, c - 1), part(expr, c + 1, hi + 1))
          /\ part(expr, lo, hi) = combine(expr[c], part(expr, lo, c - 1), part(expr, c + 1, hi))
      BY <2>2, <3>1, <3>2, PartSplits
    <3>4. c + 1 \in 1 .. hi + 1 /\ hi - (c + 1) < m
      BY <1>0, <3>1
    <3> HIDE DEF c
    <3>5. part(expr, c + 1, hi + 1) = part(expr, c + 1, hi)
      BY <1>5, <3>4
    <3> QED BY <3>3, <3>5
  <2> QED BY <2>1, <2>2
<1> HIDE DEF T
<1>6. Nat \subseteq T
  BY <1>4, <1>5, InductiveSet
<1> SUFFICES ASSUME NEW lo \in 1 .. hi + 1
             PROVE  part(expr, lo, hi + 1) = part(expr, lo, hi)
  OBVIOUS
<1>7. hi - lo < hi + 1 /\ hi + 1 \in Nat
  BY <1>0
<1> QED BY <1>6, <1>7 DEF T

\* Nor do several.
LEMMA PartsTrailing ==
    ASSUME NEW expr \in Seq(Characters), NEW hi \in 0 .. Len(expr), NEW hh \in hi .. Len(expr),
           \A j \in hi + 1 .. hh : isspace(expr[j]), NEW lo \in 1 .. hi + 1
    PROVE  part(expr, lo, hh) = part(expr, lo, hi)
<1> DEFINE T == {m \in Nat : hi + m <= hh => part(expr, lo, hi + m) = part(expr, lo, hi)}
<1>0. Len(expr) \in Nat
  BY LenProperties
<1>1. 0 \in T
  BY <1>0
<1>2. ASSUME NEW m \in Nat, m \in T PROVE m + 1 \in T
  <2> SUFFICES ASSUME hi + (m + 1) <= hh
               PROVE  part(expr, lo, hi + (m + 1)) = part(expr, lo, hi)
    OBVIOUS
  <2> DEFINE e == hi + m
  <2>1. /\ e \in 0 .. Len(expr) - 1 /\ e + 1 \in hi + 1 .. hh /\ lo \in 1 .. e + 1
        /\ e <= hh /\ hi + (m + 1) = e + 1
    BY <1>0, <1>2
  <2>2. part(expr, lo, e) = part(expr, lo, hi)
    BY <1>2, <2>1
  <2> HIDE DEF e
  <2>3. part(expr, lo, e + 1) = part(expr, lo, e)
    BY <2>1, PartTrailing
  <2> QED BY <2>1, <2>2, <2>3
<1> HIDE DEF T
<1>3. Nat \subseteq T
  BY <1>1, <1>2, InductiveSet
<1>4. hh - hi \in Nat /\ hi + (hh - hi) = hh
  BY <1>0
<1> QED BY <1>0, <1>3, <1>4 DEF T

-----------------------------------------------------------------------------
(* Arithmetic.                                                               *)

\* A quotient is a number of times that the divisor goes into the dividend.
LEMMA Quotient ==
    ASSUME NEW K \in Nat, NEW y \in Nat \ {0}
    PROVE  /\ K \div y \in Nat
           /\ y * (K \div y) <= K
           /\ K < y * (K \div y) + y
OBVIOUS

LEMMA Products ==
    ASSUME NEW x \in Nat, NEW y \in Nat, NEW z \in Nat
    PROVE  /\ x * y \in Nat /\ x * y = y * x
           /\ x <= z => x * y <= z * y
           /\ (x + 1) * y = x * y + y
OBVIOUS

\* The test before a multiplication looks at a quotient, and finds out about the
\* product.
LEMMA QuotientTest ==
    ASSUME NEW K \in Nat, NEW x \in Nat, NEW y \in Nat \ {0}
    PROVE  x > K \div y <=> x * y > K
<1> DEFINE q == K \div y
<1>1. q \in Nat /\ y * q <= K /\ K < y * q + y
  BY Quotient
<1> HIDE DEF q
<1>2. ASSUME x > q PROVE x * y > K
  <2>1. q + 1 \in Nat /\ q + 1 <= x /\ y \in Nat
    BY <1>1, <1>2
  <2> DEFINE p == q + 1
  <2>2. p \in Nat /\ p <= x
    BY <2>1
  <2> HIDE DEF p
  <2>3. p * y <= x * y /\ p * y \in Nat /\ x * y \in Nat
    BY <2>1, <2>2, Products
  <2>4. (q + 1) * y = q * y + y /\ q * y = y * q
    BY <1>1, Products
  <2>5. p * y = y * q + y
    BY <2>4 DEF p
  <2>6. y * q \in Nat
    BY <1>1, Products
  <2> QED BY <1>1, <2>3, <2>5, <2>6
<1>3. ASSUME ~(x > q) PROVE ~(x * y > K)
  <2>1. x <= q /\ y \in Nat
    BY <1>1, <1>3
  <2>2. x * y <= q * y /\ q * y = y * q /\ x * y \in Nat /\ q * y \in Nat
    BY <1>1, <2>1, Products
  <2> QED BY <1>1, <2>2
<1> QED BY <1>2, <1>3 DEF q

Word == LLONG_MIN .. LLONG_MAX

LEMMA Overflow ==
    ASSUME NEW a \in Word, NEW b \in Word, NEW op \in Operators
    PROVE  /\ overflows(op, a, b) <=> \/ op = "/" /\ b = 0
                                      \/ applied(op, a, b) \notin Word
           /\ ~(op = "/" /\ b = 0) => applied(op, a, b) \in Int
<1> DEFINE M == LLONG_MAX
<1>1. M \in Nat /\ LLONG_MIN = -M - 1 /\ a \in Int /\ b \in Int /\ M >= 9
  BY CalculatorAssumption DEF Word, LLONG_MIN
<1>2. /\ a <= M /\ -M - 1 <= a /\ b <= M /\ -M - 1 <= b
      /\ \A m \in Int : m \in Word <=> m <= M /\ -M - 1 <= m
  BY <1>1 DEF Word
<1>3. CASE op = "+"
  <2>1. applied(op, a, b) = a + b
    BY <1>3 DEF applied
  <2>2. overflows(op, a, b) <=> \/ b > 0 /\ a > M - b
                                \/ b < 0 /\ a < -M - 1 - b
    BY <1>1, <1>3 DEF overflows
  <2> QED BY <1>1, <1>2, <1>3, <2>1, <2>2
<1>4. CASE op = "-"
  <2>1. applied(op, a, b) = a - b
    BY <1>4 DEF applied
  <2>2. overflows(op, a, b) <=> \/ b > 0 /\ a < -M - 1 + b
                                \/ b < 0 /\ a > M + b
    BY <1>1, <1>4 DEF overflows
  <2> QED BY <1>1, <1>2, <1>4, <2>1, <2>2
<1>5. CASE op = "*"
  <2>1. applied(op, a, b) = a * b /\ a * b \in Int
    BY <1>1, <1>5 DEF applied
  <2>2. overflows(op, a, b) <=> \/ a > 0 /\ b > 0 /\ a > over(M, b)
                                \/ a < 0 /\ b < 0 /\ a < over(M, b)
                                \/ a > 0 /\ b < 0 /\ b < over(LLONG_MIN, a)
                                \/ a < 0 /\ b > 0 /\ a < over(LLONG_MIN, b)
    BY <1>1, <1>5 DEF overflows
  <2>3. CASE a > 0 /\ b > 0
    <3>1. over(M, b) = M \div b
      BY <1>1, <2>3 DEF over
    <3>2. a \in Nat /\ b \in Nat \ {0}
      BY <1>1, <2>3
    <3>3. a > M \div b <=> a * b > M
      BY <1>1, <3>2, QuotientTest
    <3>4. a * b \in Nat
      BY <3>2, Products
    <3>5. a * b \notin Word <=> a * b > M
      BY <1>1, <1>2, <3>4
    <3> QED BY <1>1, <1>5, <2>1, <2>2, <2>3, <3>1, <3>3, <3>5
  <2>4. CASE a < 0 /\ b < 0
    <3> DEFINE x == -a
               y == -b
    <3>1. over(M, b) = -(M \div y)
      BY <1>1, <2>4 DEF over
    <3>2. x \in Nat /\ y \in Nat \ {0} /\ a * b = x * y
      BY <1>1, <2>4
    <3>3. a = -x
      BY <1>1
    <3> HIDE DEF x, y
    <3>4. x > M \div y <=> x * y > M
      BY <1>1, <3>2, QuotientTest
    <3>5. x * y \in Nat
      BY <3>2, Products
    <3>6. a * b \notin Word <=> a * b > M
      BY <1>1, <1>2, <3>2, <3>5
    <3>7. M \div y \in Nat
      BY <1>1, <3>2, Quotient
    <3>8. a < over(M, b) <=> x > M \div y
      BY <3>1, <3>2, <3>3, <3>7
    <3> QED BY <1>1, <1>5, <2>1, <2>2, <2>4, <3>2, <3>4, <3>6, <3>8
  <2>5. CASE a > 0 /\ b < 0
    <3> DEFINE y == -b
               K == M + 1
    <3>1. over(LLONG_MIN, a) = -(K \div a)
      BY <1>1, <2>5 DEF over
    <3>2. a \in Nat \ {0} /\ y \in Nat /\ a * b = -(y * a) /\ K \in Nat
      BY <1>1, <2>5
    <3>3. b = -y /\ -M - 1 = -K
      BY <1>1
    <3> HIDE DEF y, K
    <3>4. y > K \div a <=> y * a > K
      BY <1>1, <3>2, QuotientTest
    <3>5. y * a \in Nat
      BY <3>2, Products
    <3>6. a * b \notin Word <=> y * a > K
      BY <1>1, <1>2, <3>2, <3>3, <3>5
    <3>7. K \div a \in Nat
      BY <1>1, <3>2, Quotient
    <3>8. b < over(LLONG_MIN, a) <=> y > K \div a
      BY <3>1, <3>2, <3>3, <3>7
    <3> QED BY <1>1, <1>5, <2>1, <2>2, <2>5, <3>2, <3>4, <3>6, <3>8
  <2>6. CASE a < 0 /\ b > 0
    <3> DEFINE x == -a
               K == M + 1
    <3>1. over(LLONG_MIN, b) = -(K \div b)
      BY <1>1, <2>6 DEF over
    <3>2. b \in Nat \ {0} /\ x \in Nat /\ a * b = -(x * b) /\ K \in Nat
      BY <1>1, <2>6
    <3>3. a = -x /\ -M - 1 = -K
      BY <1>1
    <3> HIDE DEF x, K
    <3>4. x > K \div b <=> x * b > K
      BY <1>1, <3>2, QuotientTest
    <3>5. x * b \in Nat
      BY <3>2, Products
    <3>6. a * b \notin Word <=> x * b > K
      BY <1>1, <1>2, <3>2, <3>3, <3>5
    <3>7. K \div b \in Nat
      BY <1>1, <3>2, Quotient
    <3>8. a < over(LLONG_MIN, b) <=> x > K \div b
      BY <3>1, <3>2, <3>3, <3>7
    <3> QED BY <1>1, <1>5, <2>1, <2>2, <2>6, <3>2, <3>4, <3>6, <3>8
  <2>7. CASE a = 0 \/ b = 0
    <3>1. a * b = 0
      BY <1>1, <2>7
    <3> QED BY <1>1, <1>2, <1>5, <2>1, <2>2, <2>7, <3>1
  <2> QED BY <1>1, <2>3, <2>4, <2>5, <2>6, <2>7
<1>6. CASE op = "/"
  <2>1. applied(op, a, b) = over(a, b)
    BY <1>6 DEF applied
  <2>2. overflows(op, a, b) <=> b = 0 \/ (a = -M - 1 /\ b = -1)
    BY <1>1, <1>6 DEF overflows
  <2>3. CASE b = 0
    BY <1>6, <2>1, <2>2, <2>3
  <2>4. CASE b # 0
    <3> DEFINE x == IF a < 0 THEN -a ELSE a
               y == IF b < 0 THEN -b ELSE b
               q == x \div y
    <3>1. over(a, b) = IF (a < 0) = (b < 0) THEN q ELSE -q
      BY DEF over
    <3>2. /\ x \in Nat /\ y \in Nat \ {0} /\ x <= M + 1
          /\ x = M + 1 <=> a = -M - 1
          /\ y = 1 <=> b = 1 \/ b = -1
      BY <1>1, <1>2, <2>4
    <3> HIDE DEF x, y
    <3>3. q \in Nat /\ y * q <= x /\ x < y * q + y
      BY <3>2, Quotient
    <3> HIDE DEF q
    <3>4. CASE y = 1
      <4>1. q = x
        BY <3>2, <3>3, <3>4
      <4>2. CASE b = -1
        <5>1. over(a, b) = -a
          BY <1>1, <3>1, <4>1, <4>2 DEF x
        <5> QED BY <1>1, <1>2, <1>6, <2>1, <2>2, <4>2, <5>1
      <4>3. CASE b = 1
        <5>1. over(a, b) = a
          BY <1>1, <3>1, <4>1, <4>3 DEF x
        <5> QED BY <1>1, <1>2, <1>6, <2>1, <2>2, <4>3, <5>1
      <4> QED BY <3>2, <3>4, <4>2, <4>3
    <3>5. CASE y # 1
      <4>1. y \in Nat /\ 2 <= y /\ 2 \in Nat
        BY <3>2, <3>5
      <4>2. 2 * q <= y * q /\ y * q \in Nat
        BY <3>3, <4>1, Products
      <4>3. q <= M
        BY <1>1, <3>2, <3>3, <4>2
      <4>4. over(a, b) \in Int /\ over(a, b) <= M /\ -M - 1 <= over(a, b)
        BY <1>1, <3>1, <3>3, <4>3
      <4> QED BY <1>1, <1>2, <1>6, <2>1, <2>2, <2>4, <3>2, <3>5, <4>4
    <3> QED BY <3>4, <3>5
  <2> QED BY <2>3, <2>4
<1> QED BY <1>3, <1>4, <1>5, <1>6 DEF Operators

\* What the evaluation does with two values is what the meaning does.
LEMMA CombineIs ==
    ASSUME NEW a \in Word, NEW b \in Word, NEW op \in Operators
    PROVE  /\ overflows(op, a, b) <=> combine(op, a, b) = Error
           /\ ~overflows(op, a, b) => /\ combine(op, a, b) = applied(op, a, b)
                                      /\ applied(op, a, b) \in Word
           /\ Error \notin Word
<1>1. Error \notin Word
  BY CalculatorAssumption DEF Error, Word
<1>2. combine(op, a, b) = IF op = "/" /\ b = 0 THEN Error ELSE inWord(applied(op, a, b))
  BY <1>1 DEF combine
<1>3. inWord(applied(op, a, b)) = IF applied(op, a, b) \in Word THEN applied(op, a, b) ELSE Error
  BY DEF inWord, Word
<1> QED BY <1>1, <1>2, <1>3, Overflow

LEMMA ErrorSpreads ==
    ASSUME NEW op, NEW a PROVE combine(op, Error, a) = Error /\ combine(op, a, Error) = Error
BY DEF combine

\* A part that is an operand of its own: operators or the ends of lo..hi are on
\* both sides, and none of them binds stronger than the weakest one inside.
binds(expr, k) == adds(expr, k) \/ multiplies(expr, k)
operand(expr, lo, hi, a, b) ==
    /\ lo <= a /\ a <= b + 1 /\ b <= hi
    /\ a = lo \/ binds(expr, a - 1)
    /\ b = hi \/ binds(expr, b + 1)
    /\ (\E j \in a .. b : adds(expr, j)) => a = lo /\ (b = hi \/ adds(expr, b + 1))
    /\ (\E j \in a .. b : multiplies(expr, j)) => a = lo \/ adds(expr, a - 1)

LEMMA NotBoth ==
    ASSUME NEW expr, NEW k PROVE ~(adds(expr, k) /\ multiplies(expr, k))
BY DEF adds, multiplies

\* An operand without a value leaves the whole without one.
LEMMA Spoils ==
    ASSUME NEW expr \in Seq(Characters), NEW a \in 1 .. Len(expr) + 1, NEW b \in 0 .. Len(expr),
           part(expr, a, b) = Error
    PROVE  \A lo \in 1 .. Len(expr) + 1, hi \in 0 .. Len(expr) :
             operand(expr, lo, hi, a, b) => part(expr, lo, hi) = Error
<1> DEFINE N == Len(expr)
           T == {m \in Nat : \A lo \in 1 .. N + 1, hi \in 0 .. N :
                   hi - lo < m /\ operand(expr, lo, hi, a, b) => part(expr, lo, hi) = Error}
<1>0. N \in Nat
  BY LenProperties
<1>1. ASSUME NEW lo \in 1 .. N + 1, NEW hi \in 0 .. N, operand(expr, lo, hi, a, b),
             \A l \in 1 .. N + 1, h \in 0 .. N :
               h - l < hi - lo /\ operand(expr, l, h, a, b) => part(expr, l, h) = Error
      PROVE  part(expr, lo, hi) = Error
  <2> DEFINE c == cut(expr, lo, hi)
  <2>0. lo \in Nat \ {0} /\ hi \in Nat /\ a \in Int /\ b \in Int /\ lo <= a /\ a <= b + 1 /\ b <= hi
    BY <1>0, <1>1 DEF operand
  <2>1. CASE noOperator(expr, lo, hi)
    <3>1. a = lo
      <4>1. a # lo => a - 1 \in lo .. hi
        BY <2>0
      <4> QED BY <1>1, <2>1, <4>1 DEF noOperator, operand, binds
    <3>2. b = hi
      <4>1. b # hi => b + 1 \in lo .. hi
        BY <2>0
      <4> QED BY <1>1, <2>1, <4>1 DEF noOperator, operand, binds
    <3> QED BY <3>1, <3>2
  <2>2. CASE lastSum(expr, lo, hi, c) \/ lastProduct(expr, lo, hi, c)
    <3>1. c \in lo .. hi /\ c \in Int /\ c # 0 /\ binds(expr, c)
      BY <2>0, <2>2 DEF lastSum, lastProduct, binds
    <3>2. part(expr, lo, hi) = combine(expr[c], part(expr, lo, c - 1), part(expr, c + 1, hi))
      BY <1>0, <3>1, PartSplits
    <3> HIDE DEF c
    <3>3. CASE c \in a .. b /\ lastSum(expr, lo, hi, c)
      <4>1. a = lo /\ (b = hi \/ adds(expr, b + 1))
        BY <1>1, <3>3 DEF operand, lastSum
      <4>2. b # hi => b + 1 \in c + 1 .. hi
        BY <2>0, <3>3
      <4> QED BY <3>3, <4>1, <4>2 DEF lastSum
    <3>4. CASE c \in a .. b /\ lastProduct(expr, lo, hi, c)
      <4>1. a = lo \/ adds(expr, a - 1)
        BY <1>1, <3>4 DEF operand, lastProduct
      <4>2. a # lo => a - 1 \in lo .. hi
        BY <2>0
      <4>3. a = lo
        BY <3>4, <4>1, <4>2 DEF lastProduct
      <4>4. b # hi => b + 1 \in c + 1 .. hi /\ b + 1 \in lo .. hi
        BY <2>0, <3>4
      <4>5. b = hi
        BY <1>1, <3>4, <4>4 DEF lastProduct, operand, binds
      <4> QED BY <4>3, <4>5
    <3>5. CASE c > b
      <4> DEFINE h == c - 1
      <4>1. h \in 0 .. N /\ h - lo < hi - lo /\ h \in Int /\ b <= h /\ h + 1 = c
        BY <1>0, <2>0, <3>1, <3>5
      <4>2. \A j \in a .. b : j \in lo .. hi
        BY <2>0
      <4>3. CASE b = h
        <5>1. operand(expr, lo, h, a, b)
          BY <1>1, <2>0, <4>1, <4>3 DEF operand
        <5> QED BY <1>1, <3>2, <4>1, <5>1, ErrorSpreads
      <4>4. CASE b # h
        <5>1. operand(expr, lo, h, a, b)
          BY <1>1, <2>0, <4>1, <4>4, <3>1 DEF operand
        <5> QED BY <1>1, <3>2, <4>1, <5>1, ErrorSpreads
      <4> QED BY <4>3, <4>4
    <3>6. CASE c < a
      <4> DEFINE l == c + 1
      <4>1. l \in 1 .. N + 1 /\ hi - l < hi - lo /\ l \in Int /\ l <= a /\ l - 1 = c
        BY <1>0, <2>0, <3>1, <3>6
      <4>2. a # lo
        BY <2>0, <3>1, <3>6
      <4>3. operand(expr, l, hi, a, b)
        BY <1>1, <2>0, <4>1, <4>2 DEF operand
      <4> QED BY <1>1, <3>2, <4>1, <4>3, ErrorSpreads
    <3> QED BY <2>0, <2>2, <3>1, <3>3, <3>4, <3>5, <3>6
  <2> QED BY <2>0, <2>1, <2>2, CutIs
<1>2. 0 \in T
  <2> SUFFICES ASSUME NEW lo \in 1 .. N + 1, NEW hi \in 0 .. N,
                      hi - lo < 0, operand(expr, lo, hi, a, b)
               PROVE  part(expr, lo, hi) = Error
    OBVIOUS
  <2>1. lo \in Int /\ hi \in Int /\ a \in Int /\ b \in Int /\ lo <= a /\ a <= b + 1 /\ b <= hi
    BY <1>0 DEF operand
  <2>2. noOperator(expr, lo, hi) /\ lo \in Nat \ {0} /\ hi \in Nat
    BY <1>0, <2>1 DEF noOperator
  <2>3. a = lo /\ b = hi
    <3>1. CASE hi < lo
      BY <2>1, <3>1
    <3> QED BY <2>1, <3>1
  <2> QED BY <2>3
<1>3. ASSUME NEW m \in Nat, m \in T PROVE m + 1 \in T
  <2> SUFFICES ASSUME NEW lo \in 1 .. N + 1, NEW hi \in 0 .. N,
                      hi - lo < m + 1, operand(expr, lo, hi, a, b)
               PROVE  part(expr, lo, hi) = Error
    OBVIOUS
  <2>1. ASSUME NEW l \in 1 .. N + 1, NEW h \in 0 .. N,
               h - l < hi - lo, operand(expr, l, h, a, b)
        PROVE  part(expr, l, h) = Error
    <3>1. h - l < m
      BY <1>0, <2>1
    <3> QED BY <1>3, <2>1, <3>1
  <2> QED BY <1>1, <2>1
<1> HIDE DEF T
<1>4. Nat \subseteq T
  BY <1>2, <1>3, InductiveSet
<1> SUFFICES ASSUME NEW lo \in 1 .. N + 1, NEW hi \in 0 .. N, operand(expr, lo, hi, a, b)
             PROVE  part(expr, lo, hi) = Error
  OBVIOUS
<1>5. hi - lo < N + 1 /\ N + 1 \in Nat
  BY <1>0
<1> QED BY <1>4, <1>5 DEF T

-----------------------------------------------------------------------------
(* Reading a number.                                                         *)

\* What the evaluation has read of the digits, -1 from the one that is too many.
readDigits(expr, first, end) ==
    CHOOSE num : num = [k \in first - 1 .. end |->
        IF k < first THEN 0
        ELSE IF num[k - 1] = -1
                \/ num[k - 1] > (LLONG_MAX - digit(expr[k])) \div 10
             THEN -1 ELSE 10 * num[k - 1] + digit(expr[k])]

LEMMA DigitsRead ==
    ASSUME NEW expr \in Seq(Characters), NEW first \in Nat \ {0}, NEW end \in Nat,
           \A k \in first .. end : isdigit(expr[k])
    PROVE  /\ first <= end + 1 => readDigits(expr, first, end)[first - 1] = 0
           /\ \A k \in first .. end :
                readDigits(expr, first, end)[k] =
                  IF readDigits(expr, first, end)[k - 1] = -1
                     \/ readDigits(expr, first, end)[k - 1] > (LLONG_MAX - digit(expr[k])) \div 10
                  THEN -1 ELSE 10 * readDigits(expr, first, end)[k - 1] + digit(expr[k])
<1> DEFINE step(m, k) == IF m = -1 \/ m > (LLONG_MAX - digit(expr[k])) \div 10
                         THEN -1 ELSE 10 * m + digit(expr[k])
           next(p) == IF p[1] \in first .. end THEN step(p[2], p[1]) ELSE p[2]
           G == [p \in Int \X Int |-> next(p)]
           a == first - 1
           body(F) == [k \in first - 1 .. end |-> IF k < first THEN 0 ELSE step(F[k - 1], k)]
           v == CHOOSE F : F = body(F)
<1>0. v = readDigits(expr, first, end)
  BY DEF readDigits
<1>1. G \in [Int \X Int -> Int]
  <2> SUFFICES ASSUME NEW p \in Int \X Int PROVE next(p) \in Int
    OBVIOUS
  <2>1. p[1] \in first .. end => digit(expr[p[1]]) \in Int
    BY Digits
  <2>2. p[2] \in Int
    OBVIOUS
  <2> QED BY <2>1, <2>2
<1>2. \A k \in Int, m \in Int : k \in first .. end => G[<<k, m>>] = step(m, k)
  OBVIOUS
<1>3. a \in Int /\ end \in Int /\ 0 \in Int
  OBVIOUS
<1> HIDE DEF G, a, step
<1>4. PICK F \in [a .. end -> Int] : recursFrom(F, a, end, 0, G)
  BY <1>1, <1>3, IntervalRecursion
<1>5. \A k \in a .. end : F[k] = IF k = a THEN 0 ELSE G[<<k, F[k - 1]>>]
  BY <1>4 DEF recursFrom
<1>6. F = body(F)
  <2>1. ASSUME NEW k \in first - 1 .. end
        PROVE  F[k] = IF k < first THEN 0 ELSE step(F[k - 1], k)
    <3>1. CASE k < first
      <4>1. k = a /\ k \in a .. end
        BY <3>1 DEF a
      <4> QED BY <1>5, <3>1, <4>1
    <3>2. CASE ~(k < first)
      <4>1. k \in a .. end /\ k # a /\ k - 1 \in a .. end /\ k \in Int /\ k \in first .. end
        BY <3>2 DEF a
      <4>2. F[k] = G[<<k, F[k - 1]>>] /\ F[k - 1] \in Int
        BY <1>4, <1>5, <4>1
      <4> QED BY <1>2, <3>2, <4>1, <4>2
    <3> QED BY <3>1, <3>2
  <2>2. F = [k \in first - 1 .. end |-> F[k]]
    BY <1>4 DEF a
  <2> QED BY <2>1, <2>2
<1>7. v = body(v)
  <2> HIDE DEF body
  <2> QED BY <1>6
<1> HIDE DEF v
<1>8. \A k \in first - 1 .. end : v[k] = IF k < first THEN 0 ELSE step(v[k - 1], k)
  BY <1>7
<1>9. first <= end + 1 => v[first - 1] = 0
  <2>1. first <= end + 1 => first - 1 \in first - 1 .. end /\ first - 1 < first
    OBVIOUS
  <2> QED BY <1>8, <2>1
<1>10. \A k \in first .. end : v[k] = step(v[k - 1], k)
  <2>1. \A k \in first .. end : k \in first - 1 .. end /\ ~(k < first)
    OBVIOUS
  <2> QED BY <1>8, <2>1
<1> QED BY <1>0, <1>9, <1>10 DEF step

\* Between lo and first are no digits, from there to the end there is nothing else.
hasDigits(expr, lo, first, end) ==
    /\ expr \in Seq(Characters)
    /\ lo \in Nat \ {0} /\ first \in Nat \ {0} /\ end \in Nat /\ lo <= first /\ first <= end
    /\ \A k \in lo .. first - 1 : ~isdigit(expr[k])
    /\ \A k \in first .. end : isdigit(expr[k])

\* The digits are read to a number, or found to be none of the word.
LEMMA ReadNumber ==
    ASSUME NEW expr, NEW lo, NEW first, NEW end, hasDigits(expr, lo, first, end),
           NEW read, read = readDigits(expr, first, end)[end]
    PROVE  /\ read = -1 => number(expr, lo, end) = Error
           /\ read # -1 =>
                /\ number(expr, lo, end) =
                     IF minusSigns(expr, lo, end) % 2 = 0 THEN read ELSE -read
                /\ number(expr, lo, end) \in Word
<1> USE DEF hasDigits
<1> DEFINE u == readDigits(expr, first, end)
<1>0. LLONG_MAX \in Nat /\ LLONG_MAX >= 9 /\ LLONG_MIN = -LLONG_MAX - 1
  BY CalculatorAssumption DEF LLONG_MIN
<1>1. PICK v \in [lo - 1 .. end -> Nat] :
        /\ readsDigits(expr, lo, end, v)
        /\ number(expr, lo, end) =
             IF v[end] > LLONG_MAX THEN Error
             ELSE IF minusSigns(expr, lo, end) % 2 = 0 THEN v[end] ELSE -v[end]
  BY NumberRuns
<1>2. /\ u[first - 1] = 0
      /\ \A k \in first .. end :
           u[k] = IF u[k - 1] = -1 \/ u[k - 1] > (LLONG_MAX - digit(expr[k])) \div 10
                  THEN -1 ELSE 10 * u[k - 1] + digit(expr[k])
  <2>1. first <= end + 1
    OBVIOUS
  <2> QED BY <2>1, DigitsRead
<1> HIDE DEF u
<1>3. \A k \in lo - 1 .. end :
        v[k] = IF k < lo THEN 0
               ELSE IF isdigit(expr[k]) THEN 10 * v[k - 1] + digit(expr[k]) ELSE v[k - 1]
  BY <1>1 DEF readsDigits
<1>4. v[first - 1] = 0
  <2> DEFINE T == {m \in Nat : lo - 1 + m < first => v[lo - 1 + m] = 0}
  <2>1. 0 \in T
    <3>1. lo - 1 \in lo - 1 .. end /\ lo - 1 < lo /\ lo - 1 + 0 = lo - 1
      OBVIOUS
    <3> QED BY <1>3, <3>1
  <2>2. ASSUME NEW m \in Nat, m \in T PROVE m + 1 \in T
    <3> SUFFICES ASSUME lo - 1 + (m + 1) < first PROVE v[lo - 1 + (m + 1)] = 0
      OBVIOUS
    <3> DEFINE k == lo - 1 + (m + 1)
    <3>1. /\ k \in lo - 1 .. end /\ ~(k < lo) /\ k - 1 = lo - 1 + m
          /\ k \in lo .. first - 1 /\ lo - 1 + m < first
      OBVIOUS
    <3>2. v[k - 1] = 0
      BY <2>2, <3>1
    <3>3. ~isdigit(expr[k])
      BY <3>1
    <3> QED BY <1>3, <3>1, <3>2, <3>3
  <2> HIDE DEF T
  <2>3. Nat \subseteq T
    BY <2>1, <2>2, InductiveSet
  <2>4. first - lo \in Nat /\ lo - 1 + (first - lo) = first - 1 /\ first - 1 < first
    OBVIOUS
  <2> QED BY <2>3, <2>4 DEF T
<1> DEFINE says(k) == \/ u[k] = v[k] /\ v[k] \in 0 .. LLONG_MAX
                      \/ u[k] = -1 /\ v[k] > LLONG_MAX
           T == {m \in Nat : first - 1 + m <= end => says(first - 1 + m)}
<1>5. 0 \in T
  BY <1>0, <1>2, <1>4
<1>6. ASSUME NEW m \in Nat, m \in T PROVE m + 1 \in T
  <2> SUFFICES ASSUME first - 1 + (m + 1) <= end PROVE says(first - 1 + (m + 1))
    OBVIOUS
  <2> DEFINE k == first - 1 + (m + 1)
  <2>1. /\ k \in first .. end /\ k - 1 = first - 1 + m /\ k \in lo - 1 .. end /\ ~(k < lo)
        /\ k - 1 \in lo - 1 .. end
    OBVIOUS
  <2>2. says(k - 1)
    BY <1>6, <2>1
  <2> HIDE DEF k
  <2>3. digit(expr[k]) \in 0 .. 9 /\ isdigit(expr[k])
    BY <2>1, Digits
  <2> DEFINE d == digit(expr[k])
             w == v[k - 1]
             K == LLONG_MAX - d
  <2>4. v[k] = 10 * w + d
    BY <1>3, <2>1, <2>3
  <2>5. w \in Nat /\ K \in Nat /\ d \in Nat /\ 10 \in Nat \ {0}
    <3>1. w \in Nat
      BY <1>1, <2>1
    <3>2. d \in 0 .. 9
      BY <2>3
    <3> HIDE DEF d
    <3> QED BY <1>0, <3>1, <3>2
  <2>6. u[k] = IF u[k - 1] = -1 \/ u[k - 1] > K \div 10 THEN -1 ELSE 10 * u[k - 1] + d
    BY <1>2, <2>1
  <2>7. K = LLONG_MAX - d
    OBVIOUS
  <2> HIDE DEF d, w, K
  <2>8. w > K \div 10 <=> w * 10 > K
    BY <2>5, QuotientTest
  <2>9. CASE u[k - 1] = -1 /\ w > LLONG_MAX
    <3>1. v[k] > LLONG_MAX /\ u[k] = -1
      BY <1>0, <2>4, <2>5, <2>6, <2>9
    <3> QED BY <3>1 DEF k
  <2>10. CASE u[k - 1] = w /\ w \in 0 .. LLONG_MAX
    <3>1. CASE w > K \div 10
      <4>1. u[k] = -1 /\ v[k] > LLONG_MAX
        BY <1>0, <2>4, <2>5, <2>6, <2>7, <2>8, <2>10, <3>1
      <4> QED BY <4>1 DEF k
    <3>2. CASE ~(w > K \div 10)
      <4>1. u[k] = v[k] /\ v[k] \in 0 .. LLONG_MAX
        BY <1>0, <2>4, <2>5, <2>6, <2>7, <2>8, <2>10, <3>2
      <4> QED BY <4>1 DEF k
    <3> QED BY <3>1, <3>2
  <2> QED BY <2>2, <2>9, <2>10 DEF w
<1> HIDE DEF T
<1>7. Nat \subseteq T
  BY <1>5, <1>6, InductiveSet
<1>8. says(end)
  <2>1. end - first + 1 \in Nat /\ first - 1 + (end - first + 1) = end
    OBVIOUS
  <2>2. end - first + 1 \in T
    BY <1>7, <2>1
  <2>3. says(first - 1 + (end - first + 1))
    BY <2>1, <2>2 DEF T
  <2> HIDE DEF says
  <2> QED BY <2>1, <2>3
<1>9. read = u[end]
  BY DEF u
<1>10. \A m \in 0 .. LLONG_MAX : m \in Word /\ -m \in Word
  BY <1>0 DEF Word
<1> QED BY <1>0, <1>1, <1>8, <1>9, <1>10

-----------------------------------------------------------------------------
(* Operands.                                                                 *)

LEMMA AfterOperator ==
    ASSUME NEW expr \in Seq(Characters), afterDigit(expr, Len(expr) + 1),
           NEW t \in 0 .. Len(expr), t = 0 \/ binds(expr, t),
           NEW p \in t + 1 .. Len(expr) + 1, \A j \in t + 1 .. p - 1 : isspace(expr[j])
    PROVE  \E d \in p .. Len(expr) : isdigit(expr[d])
<1>0. Len(expr) \in Nat
  BY LenProperties
<1>1. PICK d \in 1 .. Len(expr) :
        isdigit(expr[d]) /\ \A j \in d + 1 .. Len(expr) : isspace(expr[j])
  BY <1>0 DEF afterDigit
<1>2. ~(d \in t + 1 .. p - 1)
  BY <1>1, Digits
<1>3. t # 0 => ~isdigit(expr[t]) /\ ~isspace(expr[t])
  BY Digits DEF binds, adds, multiplies, Operators
<1>4. ~(d < t) /\ d # t
  BY <1>0, <1>1, <1>3
<1> QED BY <1>0, <1>1, <1>2, <1>4

\* Behind a number come spaces, and an operator or the end.
LEMMA NextOperator ==
    ASSUME NEW expr \in Seq(Characters), WellFormed(expr), NEW p \in 1 .. Len(expr) + 1,
           afterDigit(expr, p), p <= Len(expr) => ~isdigit(expr[p])
    PROVE  \E b \in p - 1 .. Len(expr) :
             /\ \A j \in p .. b : isspace(expr[j])
             /\ b = Len(expr) \/ binds(expr, b + 1)
<1> DEFINE N == Len(expr)
           S == {k \in p .. N : ~isspace(expr[k])}
<1>0. N \in Nat /\ DOMAIN expr = 1 .. N
  BY LenProperties
<1>1. CASE S = {}
  <2>1. N \in p - 1 .. N
    BY <1>0
  <2> QED BY <1>1, <2>1
<1>2. CASE S # {}
  <2> DEFINE m == Min(S)
  <2>1. m \in S /\ \A k \in S : m <= k
    <3>1. S \subseteq p .. N /\ p \in Int /\ N \in Int
      BY <1>0
    <3> HIDE DEF S
    <3> QED BY <1>2, <3>1, MinMax
  <2> HIDE DEF m
  <2>2. m \in p .. N /\ ~isspace(expr[m]) /\ m - 1 \in p - 1 .. N /\ (m - 1) + 1 = m
    BY <1>0, <2>1
  <2>3. \A j \in p .. m - 1 : isspace(expr[j])
    <3>1. \A j \in p .. m - 1 : j \in p .. N /\ ~(m <= j)
      BY <1>0, <2>2
    <3> QED BY <2>1, <3>1
  <2>4. PICK d \in 1 .. p - 1 :
          isdigit(expr[d]) /\ \A j \in d + 1 .. p - 1 : isspace(expr[j])
    BY DEF afterDigit
  <2>5. \A j \in d + 1 .. m - 1 : isspace(expr[j])
    <3>1. \A j \in d + 1 .. m - 1 : j \in d + 1 .. p - 1 \/ j \in p .. m - 1
      BY <1>0, <2>2
    <3> QED BY <2>3, <2>4, <3>1
  <2>6. afterDigit(expr, m)
    <3>1. d \in 1 .. m - 1
      BY <1>0, <2>2
    <3> QED BY <2>4, <2>5, <3>1 DEF afterDigit
  <2>7. ~isdigit(expr[m])
    <3>1. CASE d + 1 < m
      <4>1. d \in DOMAIN expr /\ m \in DOMAIN expr
        BY <1>0, <2>2
      <4> QED BY <2>4, <2>5, <3>1, <4>1 DEF WellFormed
    <3>2. CASE ~(d + 1 < m)
      <4>1. m = p
        BY <1>0, <2>2, <3>2
      <4> QED BY <1>0, <2>2, <4>1
    <3> QED BY <3>1, <3>2
  <2>8. binds(expr, m)
    <3>1. m \in DOMAIN expr
      BY <1>0, <2>2
    <3> QED BY <2>2, <2>6, <2>7, <3>1 DEF WellFormed, binds, adds, multiplies
  <2> QED BY <2>2, <2>3, <2>8
<1> QED BY <1>1, <1>2

\* The first digit at p or behind it, and the last one of its number.
firstDigit(expr, p) == Min({k \in p .. Len(expr) : isdigit(expr[k])})
lastDigit(expr, first) ==
    Max({k \in first .. Len(expr) : \A j \in first .. k : isdigit(expr[j])})
numberAt(expr, p, first, end) ==
    /\ first \in p .. Len(expr) /\ end \in first .. Len(expr)
    /\ \A k \in p .. first - 1 : ~isdigit(expr[k])
    /\ \A k \in first .. end : isdigit(expr[k])
    /\ end + 1 <= Len(expr) => ~isdigit(expr[end + 1])

LEMMA DigitRun ==
    ASSUME NEW expr \in Seq(Characters), NEW p \in 1 .. Len(expr),
           \E d \in p .. Len(expr) : isdigit(expr[d])
    PROVE  numberAt(expr, p, firstDigit(expr, p), lastDigit(expr, firstDigit(expr, p)))
<1> DEFINE first == firstDigit(expr, p)
           end == lastDigit(expr, first)
<1> DEFINE N == Len(expr)
           D == {k \in p .. N : isdigit(expr[k])}
           E(f) == {k \in f .. N : \A j \in f .. k : isdigit(expr[j])}
<1>0. N \in Nat
  BY LenProperties
<1> HIDE DEF first, end
<1>1. D # {} /\ D \subseteq p .. N /\ p \in Int /\ N \in Int
  BY <1>0
<1>2. Min(D) \in D /\ \A k \in D : Min(D) <= k
  <2> HIDE DEF D
  <2> QED BY <1>1, MinMax
<1> DEFINE f == Min(D)
<1>3. first = f /\ end = Max(E(f))
  BY DEF firstDigit, lastDigit, first, end
<1>4. f \in D /\ \A k \in D : f <= k
  BY <1>2
<1> HIDE DEF f
<1>5. f \in p .. N /\ f \in Int /\ isdigit(expr[f]) /\ \A k \in p .. f - 1 : ~isdigit(expr[k])
  <2>1. f \in p .. N /\ f \in Int /\ isdigit(expr[f])
    BY <1>0, <1>4
  <2>2. ASSUME NEW k \in p .. f - 1, isdigit(expr[k]) PROVE FALSE
    <3>1. k \in D /\ ~(f <= k)
      BY <1>0, <2>1, <2>2
    <3> HIDE DEF D
    <3> QED BY <1>4, <3>1
  <2> QED BY <2>1, <2>2
<1>6. E(f) # {} /\ E(f) \subseteq f .. N
  <2>1. f \in f .. N /\ \A j \in f .. f : j = f
    BY <1>0, <1>5
  <2>2. f \in E(f)
    BY <1>5, <2>1
  <2> QED BY <2>2
<1>7. Max(E(f)) \in E(f) /\ \A k \in E(f) : k <= Max(E(f))
  <2> HIDE DEF E
  <2> QED BY <1>1, <1>5, <1>6, MinMax
<1> DEFINE z == Max(E(f))
<1>8. z \in E(f) /\ (\A k \in E(f) : k <= z) /\ end = z
  BY <1>3, <1>7
<1> HIDE DEF z
<1>9. z \in f .. N /\ z \in Int /\ \A k \in f .. z : isdigit(expr[k])
  BY <1>0, <1>5, <1>8
<1>10. z + 1 <= N => ~isdigit(expr[z + 1])
  <2> SUFFICES ASSUME z + 1 <= N, isdigit(expr[z + 1]) PROVE FALSE
    OBVIOUS
  <2>1. z + 1 \in f .. N /\ \A j \in f .. z + 1 : j \in f .. z \/ j = z + 1
    BY <1>0, <1>5, <1>9
  <2>2. \A j \in f .. z + 1 : isdigit(expr[j])
    BY <1>9, <2>1
  <2>3. z + 1 \in E(f)
    BY <2>1, <2>2
  <2>4. ~(z + 1 <= z)
    BY <1>9
  <2> HIDE DEF E
  <2> QED BY <1>8, <2>3, <2>4
<1> HIDE DEF first, end
<1>11. numberAt(expr, p, first, end)
  BY <1>3, <1>5, <1>8, <1>9, <1>10 DEF numberAt
<1> QED BY <1>11 DEF first, end

\* The signs and digits behind an operator, up to the last digit.
hasOperand(expr, t, p, first, end) ==
    /\ expr \in Seq(Characters)
    /\ t \in 0 .. Len(expr) /\ (t = 0 \/ binds(expr, t))
    /\ p \in t + 1 .. Len(expr) /\ \A j \in t + 1 .. p - 1 : isspace(expr[j])
    /\ first \in p .. Len(expr) /\ end \in first .. Len(expr)
    /\ \A k \in p .. first - 1 : ~isdigit(expr[k])
    /\ \A k \in first .. end : isdigit(expr[k])

LEMMA OperandIs ==
    ASSUME NEW expr, NEW t, NEW p, NEW first, NEW end, hasOperand(expr, t, p, first, end)
    PROVE  /\ \A k \in t + 1 .. first - 1 : ~isdigit(expr[k])
           /\ afterDigit(expr, end + 1)
           /\ noOperator(expr, t + 1, end)
           /\ part(expr, t + 1, end) = number(expr, t + 1, end)
           /\ Cardinality({k \in p .. first : expr[k] = "-"}) = minusSigns(expr, t + 1, end)
<1> USE DEF hasOperand
<1> DEFINE N == Len(expr)
<1>0. N \in Nat
  BY LenProperties
<1>3. first \in p .. N /\ first \in Int /\ isdigit(expr[first])
  BY <1>0
<1>5. end \in first .. N /\ end \in Int /\ \A k \in first .. end : isdigit(expr[k])
  BY <1>0
<1>6. \A k \in t + 1 .. first - 1 : ~isdigit(expr[k])
  <2> SUFFICES ASSUME NEW k \in t + 1 .. first - 1, isdigit(expr[k]) PROVE FALSE
    OBVIOUS
  <2>1. CASE k < p
    BY <1>0, <1>3, <2>1, Digits
  <2>2. CASE ~(k < p)
    <3>1. k \in p .. first - 1
      BY <1>0, <1>3, <2>2
    <3> QED BY <3>1
  <2> QED BY <2>1, <2>2
<1>7. afterDigit(expr, end + 1)
  <2>1. end \in 1 .. (end + 1) - 1 /\ isdigit(expr[end])
    BY <1>0, <1>3, <1>5
  <2>2. \A j \in end + 1 .. (end + 1) - 1 : isspace(expr[j])
    BY <1>5
  <2> QED BY <2>1, <2>2 DEF afterDigit
<1>9. noOperator(expr, t + 1, end)
  <2> SUFFICES ASSUME NEW k \in t + 1 .. end PROVE ~adds(expr, k) /\ ~multiplies(expr, k)
    BY DEF noOperator
  <2>1. CASE k \in first .. end
    BY <1>5, <2>1, Digits DEF adds, multiplies, Operators
  <2>2. CASE k \notin first .. end
    <3>1. k < first /\ k \in t + 1 .. first - 1 /\ k \in Int
      BY <1>0, <1>3, <1>5, <2>2
    <3>2. ASSUME NEW d \in 1 .. k - 1, isdigit(expr[d]), \A j \in d + 1 .. k - 1 : isspace(expr[j])
          PROVE  FALSE
      <4>1. d \notin t + 1 .. first - 1
        BY <1>6, <3>2
      <4>2. t # 0 => ~isdigit(expr[t]) /\ ~isspace(expr[t])
        BY Digits DEF binds, adds, multiplies, Operators
      <4>3. d <= t /\ t # 0
        BY <1>0, <1>3, <3>1, <4>1
      <4>4. d # t
        BY <3>2, <4>2, <4>3
      <4>5. t \in d + 1 .. k - 1
        BY <1>0, <3>1, <4>3, <4>4
      <4> QED BY <3>2, <4>2, <4>3, <4>5
    <3>3. ~afterDigit(expr, k)
      BY <3>2 DEF afterDigit
    <3> QED BY <3>3 DEF adds, multiplies
  <2> QED BY <2>1, <2>2
<1>10. part(expr, t + 1, end) = number(expr, t + 1, end)
  <2>1. t + 1 \in 1 .. N + 1 /\ end \in 0 .. N /\ t + 1 \in Nat \ {0} /\ end \in Nat
    BY <1>0, <1>3, <1>5
  <2>2. cut(expr, t + 1, end) = 0
    BY <1>9, <2>1, CutIs
  <2> QED BY <2>1, <2>2, PartSplits
<1>11. Cardinality({k \in p .. first : expr[k] = "-"}) = minusSigns(expr, t + 1, end)
  <2>1. ASSUME NEW k \in t + 1 .. end, expr[k] = "-" PROVE k \in p .. first
    <3>1. ~isspace(expr[k]) /\ ~isdigit(expr[k])
      BY <2>1, Digits DEF isspace
    <3>2. k \notin t + 1 .. p - 1 /\ k \notin first .. end
      BY <1>5, <3>1
    <3> QED BY <1>0, <1>3, <1>5, <3>2
  <2>2. \A k \in p .. first : k \in t + 1 .. end
    BY <1>0, <1>3, <1>5
  <2>3. {k \in p .. first : expr[k] = "-"} = {k \in t + 1 .. end : expr[k] = "-"}
    BY <2>1, <2>2
  <2> QED BY <2>3 DEF minusSigns
<1> QED BY <1>6, <1>7, <1>9, <1>10, <1>11

\* A number without a value leaves the expression without one.
LEMMA NumberSpoils ==
    ASSUME NEW expr \in Seq(Characters), WellFormed(expr),
           NEW t \in 0 .. Len(expr), t = 0 \/ binds(expr, t), NEW end \in t + 1 .. Len(expr),
           afterDigit(expr, end + 1), end + 1 <= Len(expr) => ~isdigit(expr[end + 1]),
           noOperator(expr, t + 1, end), part(expr, t + 1, end) = Error
    PROVE  Meaning(expr) = Error
<1> DEFINE N == Len(expr)
           p == end + 1
<1>0. N \in Nat
  BY LenProperties
<1>1. p \in 1 .. N + 1 /\ p - 1 = end
  BY <1>0
<1>2. PICK b \in p - 1 .. N :
        (\A j \in p .. b : isspace(expr[j])) /\ (b = N \/ binds(expr, b + 1))
  <2>1. afterDigit(expr, p) /\ (p <= N => ~isdigit(expr[p]))
    OBVIOUS
  <2> HIDE DEF p
  <2> QED BY <1>1, <2>1, NextOperator
<1>3. part(expr, t + 1, b) = Error
  <2>1. end \in 0 .. N /\ b \in end .. N /\ t + 1 \in 1 .. end + 1
    BY <1>0, <1>1, <1>2
  <2> QED BY <1>2, <2>1, PartsTrailing
<1>4. noOperator(expr, t + 1, b)
  <2> SUFFICES ASSUME NEW j \in t + 1 .. b PROVE ~adds(expr, j) /\ ~multiplies(expr, j)
    BY DEF noOperator
  <2>1. j \in t + 1 .. end \/ j \in p .. b
    BY <1>0, <1>1
  <2>2. isspace(expr[j]) => ~adds(expr, j) /\ ~multiplies(expr, j)
    BY Digits DEF adds, multiplies, Operators
  <2> QED BY <1>2, <2>1, <2>2 DEF noOperator
<1>5. operand(expr, 1, N, t + 1, b)
  <2>1. 1 <= t + 1 /\ t + 1 <= b + 1 /\ b <= N /\ (t + 1) - 1 = t /\ (t = 0 => t + 1 = 1)
    BY <1>0, <1>1
  <2> QED BY <1>2, <1>4, <2>1 DEF operand, noOperator
<1>6. t + 1 \in 1 .. N + 1 /\ b \in 0 .. N /\ 1 \in 1 .. N + 1 /\ N \in 0 .. N
  BY <1>0, <1>1
<1>7. part(expr, 1, N) = Error
  <2> HIDE DEF N
  <2> DEFINE a == t + 1
  <2>1. a \in 1 .. N + 1 /\ part(expr, a, b) = Error /\ operand(expr, 1, N, a, b)
    BY <1>3, <1>5, <1>6
  <2> HIDE DEF a
  <2> QED BY <1>6, <2>1, Spoils DEF N
<1> QED BY <1>7, MeaningIsPart

-----------------------------------------------------------------------------
(* The stacks.                                                               *)

noSum(expr, lo, hi) == \A j \in lo .. hi : ~adds(expr, j)
noProduct(expr, lo, hi) == \A j \in lo .. hi : ~multiplies(expr, j)

\* The number a stands for a part of the expression.
worth(expr, lo, hi, a) == a \in Word /\ a = part(expr, lo, hi)

\* The operators on the stack o, of which the upper one is at place t, and the
\* operands before them on the stack vs.
noneStacked(t, o) == t = 0 /\ Len(o) = 0
oneStacked(expr, t, o, vs) ==
    /\ t # 0 /\ binds(expr, t) /\ Len(o) = 1 /\ o[1] = expr[t]
    /\ worth(expr, 1, t - 1, vs[1])
    /\ multiplies(expr, t) => noSum(expr, 1, t - 1)
twoStacked(expr, c, t, o, vs) ==
    /\ c \in 1 .. t - 1 /\ adds(expr, c) /\ multiplies(expr, t)
    /\ Len(o) = 2 /\ o[1] = expr[c] /\ o[2] = expr[t]
    /\ worth(expr, 1, c - 1, vs[1]) /\ worth(expr, c + 1, t - 1, vs[2])
    /\ noSum(expr, c + 1, t - 1)
stacked(expr, t, o, vs) ==
    \/ noneStacked(t, o)
    \/ oneStacked(expr, t, o, vs)
    \/ \E c \in 1 .. t - 1 : twoStacked(expr, c, t, o, vs)

\* What is known of the place p when an operand is expected, and when an operator.
beforeOperand(expr, p, t, o, vs) ==
    /\ Len(vs) = Len(o)
    /\ \A j \in t + 1 .. p - 1 : isspace(expr[j])
beforeOperator(expr, p, t, o, vs) ==
    /\ Len(vs) = Len(o) + 1
    /\ worth(expr, t + 1, p - 1, vs[Len(o) + 1])
    /\ afterDigit(expr, p) /\ (p <= Len(expr) => ~isdigit(expr[p]))
    /\ IF t = 0 THEN p = Len(expr) + 1 \/ adds(expr, p) \/ noSum(expr, 1, p - 1)
       ELSE /\ noSum(expr, t + 1, p - 1)
            /\ multiplies(expr, t) => noProduct(expr, t + 1, p - 1)

\* The expression evaluated up to place p.
Evaluated(expr, p, s, o, vs) ==
    \E t \in 0 .. p - 1 :
      /\ stacked(expr, t, o, vs)
      /\ \/ s = "EXPECT_OPERAND" /\ beforeOperand(expr, p, t, o, vs)
         \/ s = "EXPECT_OPERATOR" /\ beforeOperator(expr, p, t, o, vs)

low(o, vs) ==
    /\ Len(o) <= 2 /\ Len(vs) <= 3
    /\ Len(o) = 2 => precedence(o[1]) < precedence(o[2])

LEMMA Precedences ==
    ASSUME NEW expr, NEW k
    PROVE  /\ adds(expr, k) => precedence(expr[k]) = 1 /\ expr[k] \in Operators
           /\ multiplies(expr, k) => precedence(expr[k]) = 2 /\ expr[k] \in Operators
           /\ isspace(expr[k]) => ~binds(expr, k)
BY DEF adds, multiplies, binds, precedence, Operators, isspace

LEMMA EvaluatedLow ==
    ASSUME NEW expr, NEW p, NEW s, NEW o \in Seq(Operators), NEW vs \in Seq(Word),
           Evaluated(expr, p, s, o, vs)
    PROVE  low(o, vs)
<1>0. Len(o) \in Nat /\ Len(vs) \in Nat
  BY LenProperties
<1>1. PICK t \in 0 .. p - 1 :
        /\ stacked(expr, t, o, vs)
        /\ beforeOperand(expr, p, t, o, vs) \/ beforeOperator(expr, p, t, o, vs)
  BY DEF Evaluated
<1>4. Len(vs) = Len(o) \/ Len(vs) = Len(o) + 1
  BY <1>1 DEF beforeOperand, beforeOperator
<1>5. ASSUME NEW k \in Nat, NEW m \in Nat, m = k \/ m = k + 1, k = 0 \/ k = 1 \/ k = 2
      PROVE  k <= 2 /\ m <= 3
  BY <1>5
<1>2. CASE Len(o) = 0
  <2>1. Len(o) <= 2 /\ Len(vs) <= 3
    BY ONLY <1>0, <1>4, <1>5, <1>2
  <2> QED BY <1>2, <2>1 DEF low
<1>6. CASE Len(o) = 1
  <2>1. Len(o) <= 2 /\ Len(vs) <= 3
    BY ONLY <1>0, <1>4, <1>5, <1>6
  <2> QED BY <1>6, <2>1 DEF low
<1>3. CASE \E c \in 1 .. t - 1 : twoStacked(expr, c, t, o, vs)
  <2>1. Len(o) = 2 /\ precedence(o[1]) = 1 /\ precedence(o[2]) = 2
    BY <1>3, Precedences DEF twoStacked
  <2>2. Len(o) <= 2 /\ Len(vs) <= 3
    BY ONLY <1>0, <1>4, <1>5, <2>1
  <2>3. precedence(o[1]) < precedence(o[2])
    BY <2>1
  <2> QED BY <2>2, <2>3 DEF low
<1> QED BY <1>1, <1>2, <1>3, <1>6 DEF stacked, noneStacked, oneStacked

\* An operator that has two values is applied to them.
LEMMA Reduction ==
    ASSUME NEW expr \in Seq(Characters), NEW p \in 1 .. Len(expr) + 1,
           NEW t \in 1 .. p - 1, NEW a \in 1 .. t, binds(expr, t),
           noSum(expr, t + 1, p - 1),
           multiplies(expr, t) => noSum(expr, a, t - 1) /\ noProduct(expr, t + 1, p - 1),
           NEW v1, worth(expr, a, t - 1, v1), NEW v2, worth(expr, t + 1, p - 1, v2)
    PROVE  IF overflows(expr[t], v1, v2) THEN part(expr, a, p - 1) = Error
           ELSE worth(expr, a, p - 1, applied(expr[t], v1, v2))
<1> DEFINE N == Len(expr)
           h == p - 1
<1>0. /\ N \in Nat /\ a \in Nat \ {0} /\ h \in Nat /\ a \in 1 .. N + 1 /\ h \in 0 .. N
      /\ t \in a .. h /\ t # 0 /\ t \in Int
  BY LenProperties
<1>1. cut(expr, a, h) = t
  <2>1. CASE adds(expr, t)
    <3>1. lastSum(expr, a, h, t)
      BY <1>0, <2>1 DEF noSum, lastSum
    <3> HIDE DEF h
    <3> QED BY <1>0, <3>1, CutIs
  <2>2. CASE multiplies(expr, t)
    <3>1. ASSUME NEW j \in a .. h PROVE ~adds(expr, j)
      <4>1. j \in a .. t - 1 \/ j = t \/ j \in t + 1 .. p - 1
        BY <1>0
      <4> QED BY <2>2, <4>1, NotBoth DEF noSum
    <3>2. lastProduct(expr, a, h, t)
      BY <1>0, <2>2, <3>1 DEF noProduct, lastProduct
    <3> HIDE DEF h
    <3> QED BY <1>0, <3>2, CutIs
  <2> QED BY <2>1, <2>2 DEF binds
<1>2. part(expr, a, h) = combine(expr[t], part(expr, a, t - 1), part(expr, t + 1, h))
  <2> HIDE DEF h
  <2> QED BY <1>0, <1>1, PartSplits
<1>3. v1 \in Word /\ v2 \in Word /\ part(expr, a, h) = combine(expr[t], v1, v2)
  BY <1>2 DEF worth
<1>4. expr[t] \in Operators
  BY Precedences DEF binds
<1> HIDE DEF h
<1>5. /\ overflows(expr[t], v1, v2) => part(expr, a, h) = Error
      /\ ~overflows(expr[t], v1, v2) => /\ part(expr, a, h) = applied(expr[t], v1, v2)
                                        /\ applied(expr[t], v1, v2) \in Word
  <2> DEFINE op == expr[t]
  <2>1. op \in Operators
    BY <1>4
  <2> HIDE DEF op
  <2>2. /\ overflows(op, v1, v2) <=> combine(op, v1, v2) = Error
        /\ ~overflows(op, v1, v2) => /\ combine(op, v1, v2) = applied(op, v1, v2)
                                     /\ applied(op, v1, v2) \in Word
    BY <1>3, <2>1, CombineIs
  <2> QED BY <1>3, <2>2 DEF op
<1> QED BY <1>5 DEF h, worth

\* A part that an operator applies to, without a value, leaves none for the whole.
LEMMA ReductionSpoils ==
    ASSUME NEW expr \in Seq(Characters), NEW p \in 1 .. Len(expr) + 1,
           p = Len(expr) + 1 \/ binds(expr, p),
           NEW a \in 1 .. p - 1, part(expr, a, p - 1) = Error,
           \/ a = 1 /\ (p = Len(expr) + 1 \/ adds(expr, p) \/ noSum(expr, a, p - 1))
           \/ adds(expr, a - 1) /\ noSum(expr, a, p - 1)
    PROVE  Meaning(expr) = Error
<1> DEFINE N == Len(expr)
           b == p - 1
<1>0. N \in Nat /\ a \in 1 .. N + 1 /\ b \in 0 .. N /\ b + 1 = p /\ (p = N + 1 <=> b = N)
  BY LenProperties
<1>1. operand(expr, 1, N, a, b)
  <2>1. 1 <= a /\ a <= b + 1 /\ b <= N
    BY <1>0
  <2> HIDE DEF b
  <2>2. (b = N \/ binds(expr, b + 1)) /\ (a = 1 \/ adds(expr, a - 1))
    BY <1>0
  <2>3. (\E j \in a .. b : adds(expr, j)) => a = 1 /\ (b = N \/ adds(expr, b + 1))
    BY <1>0 DEF noSum, b
  <2> QED BY <2>1, <2>2, <2>3 DEF operand, binds
<1>2. part(expr, 1, N) = Error
  <2>1. part(expr, a, b) = Error /\ 1 \in 1 .. N + 1 /\ N \in 0 .. N
    BY <1>0
  <2> HIDE DEF b
  <2> QED BY <1>0, <1>1, <2>1, Spoils
<1> QED BY <1>2, MeaningIsPart

-----------------------------------------------------------------------------
(* The steps of the evaluation.                                              *)

\* The values under the top do not matter to what is stacked.
LEMMA SameBelow ==
    ASSUME NEW expr, NEW t, NEW o, NEW vs, NEW ws, stacked(expr, t, o, vs),
           Len(o) >= 1 => ws[1] = vs[1], Len(o) >= 2 => ws[2] = vs[2]
    PROVE  stacked(expr, t, o, ws)
<1>1. CASE noneStacked(t, o)
  BY <1>1 DEF stacked
<1>2. CASE oneStacked(expr, t, o, vs)
  <2>1. Len(o) >= 1
    BY <1>2 DEF oneStacked
  <2> QED BY <1>2, <2>1 DEF stacked, oneStacked
<1>3. CASE \E c \in 1 .. t - 1 : twoStacked(expr, c, t, o, vs)
  <2>1. PICK c \in 1 .. t - 1 : twoStacked(expr, c, t, o, vs)
    BY <1>3
  <2>2. Len(o) >= 1 /\ Len(o) >= 2
    BY <2>1 DEF twoStacked
  <2>3. twoStacked(expr, c, t, o, ws)
    BY <2>1, <2>2 DEF twoStacked
  <2> QED BY <2>3 DEF stacked
<1> QED BY <1>1, <1>2, <1>3 DEF stacked

LEMMA StackedTop ==
    ASSUME NEW expr, NEW t \in Int, NEW o, NEW vs, stacked(expr, t, o, vs)
    PROVE  /\ t = 0 \/ binds(expr, t)
           /\ t = 0 <=> Len(o) = 0
           /\ Len(o) \in {0, 1, 2}
<1>1. CASE noneStacked(t, o)
  BY <1>1 DEF noneStacked
<1>2. CASE oneStacked(expr, t, o, vs)
  BY <1>2 DEF oneStacked
<1>3. CASE \E c \in 1 .. t - 1 : twoStacked(expr, c, t, o, vs)
  <2>1. t # 0 /\ multiplies(expr, t) /\ Len(o) = 2
    BY <1>3 DEF twoStacked
  <2> QED BY <2>1 DEF binds
<1> QED BY <1>1, <1>2, <1>3 DEF stacked

\* What is behind a number and is no space is an operator.
LEMMA AtOperator ==
    ASSUME NEW expr \in Seq(Characters), WellFormed(expr), NEW p \in 1 .. Len(expr),
           afterDigit(expr, p), ~isdigit(expr[p]), ~isspace(expr[p])
    PROVE  binds(expr, p)
<1>1. p \in DOMAIN expr
  BY LenProperties
<1> QED BY <1>1 DEF WellFormed, binds, adds, multiplies

LEMMA StepSpace ==
    ASSUME NEW expr \in Seq(Characters), WellFormed(expr), NEW p \in 1 .. Len(expr),
           isspace(expr[p]), NEW s, NEW o, NEW vs, Evaluated(expr, p, s, o, vs)
    PROVE  Evaluated(expr, p + 1, s, o, vs)
<1>0. /\ Len(expr) \in Nat /\ p \in Int /\ (p + 1) - 1 = p /\ DOMAIN expr = 1 .. Len(expr)
      /\ ~adds(expr, p) /\ ~multiplies(expr, p) /\ p # Len(expr) + 1
  BY LenProperties, Precedences DEF binds
<1>1. PICK t \in 0 .. p - 1 :
        /\ stacked(expr, t, o, vs)
        /\ \/ s = "EXPECT_OPERAND" /\ beforeOperand(expr, p, t, o, vs)
           \/ s = "EXPECT_OPERATOR" /\ beforeOperator(expr, p, t, o, vs)
  BY DEF Evaluated
<1>2. t \in 0 .. (p + 1) - 1
  BY <1>0
<1>3. CASE s = "EXPECT_OPERAND" /\ beforeOperand(expr, p, t, o, vs)
  <2>1. beforeOperand(expr, p + 1, t, o, vs)
    <3>1. \A j \in t + 1 .. p : j \in t + 1 .. p - 1 \/ j = p
      BY <1>0
    <3> QED BY <1>0, <1>3, <3>1 DEF beforeOperand
  <2> QED BY <1>1, <1>2, <1>3, <2>1 DEF Evaluated
<1>4. CASE s = "EXPECT_OPERATOR" /\ beforeOperator(expr, p, t, o, vs)
  <2>1. afterDigit(expr, p) /\ worth(expr, t + 1, p - 1, vs[Len(o) + 1]) /\ Len(vs) = Len(o) + 1
    BY <1>4 DEF beforeOperator
  <2>2. worth(expr, t + 1, p, vs[Len(o) + 1])
    <3>1. /\ p - 1 \in 0 .. Len(expr) /\ p \in p - 1 .. Len(expr) /\ t + 1 \in 1 .. (p - 1) + 1
          /\ \A j \in (p - 1) + 1 .. p : j = p
      BY <1>0
    <3> DEFINE h == p - 1
    <3>2. /\ h \in 0 .. Len(expr) /\ p \in h .. Len(expr) /\ t + 1 \in 1 .. h + 1
          /\ \A j \in h + 1 .. p : isspace(expr[j])
      BY <3>1
    <3> HIDE DEF h
    <3>3. part(expr, t + 1, p) = part(expr, t + 1, h)
      BY <3>2, PartsTrailing
    <3> QED BY <2>1, <3>3 DEF worth, h
  <2>3. afterDigit(expr, p + 1)
    BY <2>1, AfterNext
  <2>4. p + 1 <= Len(expr) => ~isdigit(expr[p + 1])
    <3> SUFFICES ASSUME p + 1 <= Len(expr), isdigit(expr[p + 1]) PROVE FALSE
      OBVIOUS
    <3>1. PICK d \in 1 .. p - 1 : isdigit(expr[d]) /\ \A j \in d + 1 .. p - 1 : isspace(expr[j])
      BY <2>1 DEF afterDigit
    <3>2. /\ d \in DOMAIN expr /\ p + 1 \in DOMAIN expr /\ d + 1 < p + 1
          /\ \A j \in d + 1 .. (p + 1) - 1 : j \in d + 1 .. p - 1 \/ j = p
      BY <1>0
    <3>3. \A j \in d + 1 .. (p + 1) - 1 : isspace(expr[j])
      BY <3>1, <3>2
    <3> QED BY <3>1, <3>2, <3>3 DEF WellFormed
  <2>5. CASE t = 0
    <3>1. noSum(expr, 1, p - 1)
      BY <1>0, <1>4, <2>5 DEF beforeOperator
    <3>2. \A j \in 1 .. p : j \in 1 .. p - 1 \/ j = p
      BY <1>0
    <3>3. noSum(expr, 1, p)
      BY <1>0, <3>1, <3>2 DEF noSum
    <3>4. beforeOperator(expr, p + 1, t, o, vs)
      BY <1>0, <2>1, <2>2, <2>3, <2>4, <2>5, <3>3 DEF beforeOperator
    <3> QED BY <1>1, <1>2, <1>4, <3>4 DEF Evaluated
  <2>6. CASE t # 0
    <3>1. /\ noSum(expr, t + 1, p - 1)
          /\ multiplies(expr, t) => noProduct(expr, t + 1, p - 1)
      BY <1>4, <2>6 DEF beforeOperator
    <3>2. \A j \in t + 1 .. p : j \in t + 1 .. p - 1 \/ j = p
      BY <1>0
    <3>3. noSum(expr, t + 1, p) /\ (multiplies(expr, t) => noProduct(expr, t + 1, p))
      BY <1>0, <3>1, <3>2 DEF noSum, noProduct
    <3>4. beforeOperator(expr, p + 1, t, o, vs)
      BY <1>0, <2>1, <2>2, <2>3, <2>4, <2>6, <3>3 DEF beforeOperator
    <3> QED BY <1>1, <1>2, <1>4, <3>4 DEF Evaluated
  <2> QED BY <2>5, <2>6
<1> QED BY <1>1, <1>3, <1>4

signed(expr, p, first, end) ==
    IF Cardinality({k \in p .. first : expr[k] = "-"}) % 2 = 0
    THEN readDigits(expr, first, end)[end] ELSE -readDigits(expr, first, end)[end]

LEMMA StepOperand ==
    ASSUME NEW expr \in Seq(Characters), WellFormed(expr), NEW p \in 1 .. Len(expr),
           NEW o \in Seq(Operators), NEW vs \in Seq(Word),
           Evaluated(expr, p, "EXPECT_OPERAND", o, vs),
           NEW first, NEW end, numberAt(expr, p, first, end)
    PROVE  IF readDigits(expr, first, end)[end] = -1 THEN Meaning(expr) = Error
           ELSE /\ Evaluated(expr, end + 1, "EXPECT_OPERATOR", o,
                             Append(vs, signed(expr, p, first, end)))
                /\ signed(expr, p, first, end) \in Word /\ end + 1 \in 1 .. Len(expr) + 1
<1> DEFINE minus == Cardinality({k \in p .. first : expr[k] = "-"})
           read == readDigits(expr, first, end)[end]
           m == IF minus % 2 = 0 THEN read ELSE -read
<1>0. /\ Len(expr) \in Nat /\ p \in Int /\ DOMAIN expr = 1 .. Len(expr)
      /\ p \in 1 .. Len(expr) + 1 /\ afterDigit(expr, Len(expr) + 1)
      /\ Len(o) \in Nat /\ Len(vs) \in Nat
  BY LenProperties DEF WellFormed
<1>10. m = signed(expr, p, first, end)
  BY DEF signed
<1>11. minus = Cardinality({k \in p .. first : expr[k] = "-"}) /\ read = readDigits(expr, first, end)[end]
  OBVIOUS
<1>12. m = IF minus % 2 = 0 THEN read ELSE -read
  OBVIOUS
<1> HIDE DEF m, minus, read
<1>1. PICK t \in 0 .. p - 1 : stacked(expr, t, o, vs) /\ beforeOperand(expr, p, t, o, vs)
  BY DEF Evaluated
<1>2. t \in 0 .. Len(expr) /\ t \in Int /\ p \in t + 1 .. Len(expr) /\ p \in t + 1 .. Len(expr) + 1
  BY <1>0
<1>3. /\ t = 0 \/ binds(expr, t)
      /\ Len(o) \in {0, 1, 2}
      /\ \A j \in t + 1 .. p - 1 : isspace(expr[j])
      /\ Len(vs) = Len(o)
  BY <1>1, <1>2, StackedTop DEF beforeOperand
<1>4. /\ first \in p .. Len(expr) /\ end \in first .. Len(expr)
      /\ \A k \in p .. first - 1 : ~isdigit(expr[k])
      /\ \A k \in first .. end : isdigit(expr[k])
      /\ end + 1 <= Len(expr) => ~isdigit(expr[end + 1])
  BY DEF numberAt
<1>5. /\ \A k \in t + 1 .. first - 1 : ~isdigit(expr[k])
      /\ afterDigit(expr, end + 1)
      /\ noOperator(expr, t + 1, end)
      /\ part(expr, t + 1, end) = number(expr, t + 1, end)
      /\ minus = minusSigns(expr, t + 1, end)
  <2>1. expr \in Seq(Characters) /\ minus = Cardinality({k \in p .. first : expr[k] = "-"})
    BY <1>11
  <2>2. t = 0 \/ binds(expr, t)
    BY <1>3
  <2>3. hasOperand(expr, t, p, first, end)
    BY ONLY <1>2, <1>3, <1>4, <2>1, <2>2 DEF hasOperand
  <2> QED BY <2>1, <2>3, OperandIs
<1>6. /\ t + 1 \in Nat \ {0} /\ first \in Nat \ {0} /\ end \in Nat /\ t + 1 <= first /\ first <= end
      /\ end \in t + 1 .. Len(expr) /\ end + 1 \in 1 .. Len(expr) + 1 /\ (end + 1) - 1 = end
      /\ t \in 0 .. end
  BY <1>0, <1>2, <1>4
<1>7. /\ read = -1 => number(expr, t + 1, end) = Error
      /\ read # -1 => number(expr, t + 1, end) = m /\ m \in Word
  <2> DEFINE lo == t + 1
  <2>1. lo \in Nat \ {0} /\ lo <= first /\ minus = minusSigns(expr, lo, end)
        /\ \A k \in lo .. first - 1 : ~isdigit(expr[k])
    BY <1>5, <1>6
  <2> HIDE DEF lo
  <2>2. /\ read = -1 => number(expr, lo, end) = Error
        /\ read # -1 =>
             /\ number(expr, lo, end) =
                  IF minusSigns(expr, lo, end) % 2 = 0 THEN read ELSE -read
             /\ number(expr, lo, end) \in Word
    <3>1. expr \in Seq(Characters) /\ read = readDigits(expr, first, end)[end]
      BY <1>11
    <3>2. hasDigits(expr, lo, first, end)
      BY ONLY <1>4, <1>6, <2>1, <3>1 DEF hasDigits
    <3> QED BY <3>1, <3>2, ReadNumber
  <2> QED BY <1>12, <2>1, <2>2 DEF lo
<1>8. ASSUME read = -1 PROVE Meaning(expr) = Error
  <2>1. part(expr, t + 1, end) = Error
    BY <1>5, <1>7, <1>8
  <2> QED BY <1>2, <1>3, <1>4, <1>5, <1>6, <2>1, NumberSpoils
<1>9. ASSUME read # -1 PROVE Evaluated(expr, end + 1, "EXPECT_OPERATOR", o, Append(vs, m))
  <2> DEFINE ws == Append(vs, m)
             q == end + 1
  <2>1. /\ Len(ws) = Len(o) + 1 /\ ws[Len(o) + 1] = m
        /\ Len(o) >= 1 => ws[1] = vs[1]
        /\ Len(o) >= 2 => ws[2] = vs[2]
    <3>1. vs \in Seq(Word) /\ m \in Word
      BY <1>7, <1>9
    <3>2. /\ Len(Append(vs, m)) = Len(vs) + 1 /\ Append(vs, m)[Len(vs) + 1] = m
          /\ \A k \in 1 .. Len(vs) : Append(vs, m)[k] = vs[k]
      BY <3>1
    <3>3. (Len(o) >= 1 => 1 \in 1 .. Len(vs)) /\ (Len(o) >= 2 => 2 \in 1 .. Len(vs))
      BY <1>0, <1>3
    <3> QED BY <1>3, <3>2, <3>3
  <2> HIDE DEF ws
  <2>2. stacked(expr, t, o, ws)
    BY <1>1, <2>1, SameBelow
  <2>3. worth(expr, t + 1, end, ws[Len(o) + 1])
    BY <1>5, <1>7, <1>9, <2>1 DEF worth
  <2>4. noSum(expr, t + 1, end) /\ noProduct(expr, t + 1, end)
    BY <1>5 DEF noOperator, noSum, noProduct
  <2>5. afterDigit(expr, q) /\ (q <= Len(expr) => ~isdigit(expr[q])) /\ q - 1 = end /\ t \in 0 .. q - 1
    BY <1>4, <1>5, <1>6
  <2> HIDE DEF q
  <2>6. t = 0 => noSum(expr, 1, end)
    BY <2>4
  <2>7. beforeOperator(expr, q, t, o, ws)
    BY <2>1, <2>3, <2>4, <2>5, <2>6 DEF beforeOperator
  <2>8. Evaluated(expr, q, "EXPECT_OPERATOR", o, ws)
    BY <2>2, <2>5, <2>7 DEF Evaluated
  <2> QED BY <2>8 DEF q, ws
<1> QED BY <1>10, <1>11, <1>6, <1>7, <1>8, <1>9

\* The operator on top of the stack is applied: what it stands between becomes one
\* operand.
LEMMA StepReduce ==
    ASSUME NEW expr \in Seq(Characters), WellFormed(expr), NEW p \in 1 .. Len(expr) + 1,
           NEW o \in Seq(Operators), NEW vs \in Seq(Word), Len(o) # 0,
           Evaluated(expr, p, "EXPECT_OPERATOR", o, vs),
           p <= Len(expr) => /\ ~isspace(expr[p])
                             /\ precedence(o[Len(o)]) >= precedence(expr[p]),
           NEW size, size = Len(vs), NEW rest, rest = SubSeq(o, 1, Len(o) - 1),
           NEW m, m = applied(o[Len(o)], vs[size - 1], vs[size]),
           NEW ws, ws = Append(SubSeq(vs, 1, size - 2), m)
    PROVE  IF overflows(o[Len(o)], vs[size - 1], vs[size]) THEN Meaning(expr) = Error
           ELSE Evaluated(expr, p, "EXPECT_OPERATOR", rest, ws) /\ ws \in Seq(Word)
<1>0. /\ Len(expr) \in Nat /\ DOMAIN expr = 1 .. Len(expr) /\ p \in Int
      /\ Len(o) \in Nat /\ Len(vs) \in Nat
  BY LenProperties
<1>1. PICK t \in 0 .. p - 1 : stacked(expr, t, o, vs) /\ beforeOperator(expr, p, t, o, vs)
  BY DEF Evaluated
<1>2. /\ Len(vs) = Len(o) + 1 /\ worth(expr, t + 1, p - 1, vs[Len(o) + 1])
      /\ afterDigit(expr, p) /\ (p <= Len(expr) => ~isdigit(expr[p]))
  BY <1>1 DEF beforeOperator
<1>3. p = Len(expr) + 1 \/ binds(expr, p)
  <2>1. CASE p <= Len(expr)
    <3>1. p \in 1 .. Len(expr) /\ ~isspace(expr[p])
      BY <1>0, <2>1
    <3> QED BY <1>2, <3>1, AtOperator
  <2> QED BY <1>0, <2>1
<1>4. /\ Len(rest) = Len(o) - 1 /\ \A k \in 1 .. Len(o) - 1 : rest[k] = o[k]
      /\ rest \in Seq(Operators)
  <2>1. Len(o) - 1 \in 0 .. Len(o)
    BY <1>0
  <2> DEFINE l == Len(o) - 1
  <2>2. l \in 0 .. Len(o) /\ rest = SubSeq(o, 1, l)
    BY <2>1
  <2> HIDE DEF l
  <2>3. rest \in Seq(Operators) /\ Len(rest) = l /\ \A k \in 1 .. l : rest[k] = o[k]
    BY ONLY <2>2, o \in Seq(Operators), FirstOf
  <2> QED BY <2>3 DEF l
<1>5. ASSUME m \in Word PROVE /\ ws \in Seq(Word) /\ Len(ws) = size - 1 /\ ws[size - 1] = m
                              /\ \A k \in 1 .. size - 2 : ws[k] = vs[k]
  <2> DEFINE u == SubSeq(vs, 1, size - 2)
  <2>1. size \in Nat /\ size - 2 \in 0 .. Len(vs)
    BY <1>0, <1>2
  <2>2. u \in Seq(Word) /\ Len(u) = size - 2 /\ \A k \in 1 .. size - 2 : u[k] = vs[k]
    BY ONLY <2>1, vs \in Seq(Word), FirstOf
  <2>3. ws = Append(u, m)
    OBVIOUS
  <2> HIDE DEF u
  <2>4. ws \in Seq(Word) /\ Len(ws) = Len(u) + 1 /\ ws[Len(u) + 1] = m
        /\ \A k \in 1 .. Len(u) : ws[k] = u[k]
    BY ONLY <1>5, <2>2, <2>3, AppendProperties
  <2>5. (size - 2) + 1 = size - 1
    BY <2>1
  <2> QED BY <2>2, <2>4, <2>5
<1>6. CASE oneStacked(expr, t, o, vs)
  <2>1. /\ t # 0 /\ binds(expr, t) /\ Len(o) = 1 /\ o[1] = expr[t]
        /\ worth(expr, 1, t - 1, vs[1]) /\ (multiplies(expr, t) => noSum(expr, 1, t - 1))
    BY <1>6 DEF oneStacked
  <2>2. size = 2 /\ worth(expr, t + 1, p - 1, vs[2])
    BY <1>2, <2>1
  <2>3. /\ noSum(expr, t + 1, p - 1)
        /\ multiplies(expr, t) => noProduct(expr, t + 1, p - 1)
    BY <1>1, <2>1 DEF beforeOperator
  <2>4. t \in 1 .. p - 1 /\ 1 \in 1 .. t /\ 1 \in 1 .. p - 1
    BY <1>0, <2>1
  <2>5. IF overflows(expr[t], vs[1], vs[2]) THEN part(expr, 1, p - 1) = Error
        ELSE worth(expr, 1, p - 1, applied(expr[t], vs[1], vs[2]))
    BY <2>1, <2>2, <2>3, <2>4, Reduction
  <2>6. p = Len(expr) + 1 \/ adds(expr, p) \/ noSum(expr, 1, p - 1)
    <3>1. CASE multiplies(expr, t)
      <4>1. ASSUME NEW j \in 1 .. p - 1 PROVE ~adds(expr, j)
        <5>1. j \in 1 .. t - 1 \/ j = t \/ j \in t + 1 .. p - 1
          BY <1>0, <2>4
        <5> QED BY <2>1, <2>3, <3>1, <5>1, NotBoth DEF noSum
      <4> QED BY <4>1 DEF noSum
    <3>2. CASE adds(expr, t) /\ p <= Len(expr)
      <4>1. precedence(expr[t]) = 1 /\ precedence(expr[t]) >= precedence(expr[p])
        BY <2>1, <3>2, Precedences
      <4>2. ~multiplies(expr, p)
        BY <4>1, Precedences
      <4> QED BY <1>3, <4>2 DEF binds
    <3> QED BY <1>0, <2>1, <3>1, <3>2 DEF binds
  <2>7. CASE overflows(expr[t], vs[1], vs[2])
    <3>1. part(expr, 1, p - 1) = Error
      BY <2>5, <2>7
    <3>2. Meaning(expr) = Error
      BY <1>3, <2>4, <2>6, <3>1, ReductionSpoils
    <3> QED BY <2>1, <2>2, <2>7, <3>2
  <2>8. CASE ~overflows(expr[t], vs[1], vs[2])
    <3>1. worth(expr, 1, p - 1, m) /\ m \in Word
      BY <2>1, <2>2, <2>5, <2>8 DEF worth
    <3>2. Len(ws) = 1 /\ ws[1] = m /\ ws \in Seq(Word) /\ Len(rest) = 0
      BY <1>4, <1>5, <2>1, <2>2, <3>1
    <3>3. stacked(expr, 0, rest, ws)
      BY <3>2 DEF stacked, noneStacked
    <3> DEFINE z == 0
    <3>4. z = 0 /\ z + 1 = 1 /\ Len(rest) + 1 = 1 /\ z \in 0 .. p - 1
      BY <1>0, <3>2
    <3> HIDE DEF z
    <3>5. beforeOperator(expr, p, z, rest, ws)
      BY <1>2, <2>6, <3>1, <3>2, <3>4 DEF beforeOperator
    <3>6. Evaluated(expr, p, "EXPECT_OPERATOR", rest, ws)
      BY <3>3, <3>4, <3>5 DEF Evaluated
    <3> QED BY <2>1, <2>2, <2>8, <3>2, <3>6
  <2> QED BY <2>7, <2>8
<1>7. CASE \E c \in 1 .. t - 1 : twoStacked(expr, c, t, o, vs)
  <2>1. PICK c \in 1 .. t - 1 : twoStacked(expr, c, t, o, vs)
    BY <1>7
  <2>2. /\ adds(expr, c) /\ multiplies(expr, t) /\ binds(expr, t)
        /\ Len(o) = 2 /\ o[1] = expr[c] /\ o[2] = expr[t]
        /\ worth(expr, 1, c - 1, vs[1]) /\ worth(expr, c + 1, t - 1, vs[2])
        /\ noSum(expr, c + 1, t - 1)
    BY <2>1 DEF twoStacked, binds
  <2> DEFINE a == c + 1
  <2>3. /\ t # 0 /\ t \in 1 .. p - 1 /\ a \in 1 .. t /\ a \in 1 .. p - 1 /\ a - 1 = c
        /\ c \in Int /\ c # 0 /\ c \in 0 .. p - 1
    BY <1>0, <2>1
  <2>4. size = 3 /\ worth(expr, t + 1, p - 1, vs[3])
    BY <1>2, <2>2
  <2>5. noSum(expr, t + 1, p - 1) /\ noProduct(expr, t + 1, p - 1)
    BY <1>1, <2>2, <2>3 DEF beforeOperator
  <2>6. worth(expr, a, t - 1, vs[2]) /\ noSum(expr, a, t - 1)
    BY <2>2
  <2>7. noSum(expr, a, p - 1)
    <3>1. ASSUME NEW j \in a .. p - 1 PROVE ~adds(expr, j)
      <4>0. a \in Int /\ t \in Int /\ p \in Int /\ j \in Int /\ a <= j /\ j <= p - 1
        BY <1>0, <2>3
      <4>1. j \in a .. t - 1 \/ j = t \/ j \in t + 1 .. p - 1
        BY ONLY <4>0
      <4> QED BY <2>2, <2>5, <2>6, <4>1, NotBoth DEF noSum
    <3> QED BY <3>1 DEF noSum
  <2>8. IF overflows(expr[t], vs[2], vs[3]) THEN part(expr, a, p - 1) = Error
        ELSE worth(expr, a, p - 1, applied(expr[t], vs[2], vs[3]))
    <3> HIDE DEF a
    <3> QED BY <2>2, <2>3, <2>4, <2>5, <2>6, Reduction
  <2>9. CASE overflows(expr[t], vs[2], vs[3])
    <3>1. part(expr, a, p - 1) = Error /\ adds(expr, a - 1)
      BY <2>2, <2>3, <2>8, <2>9
    <3> HIDE DEF a
    <3>2. Meaning(expr) = Error
      BY <1>3, <2>3, <2>7, <3>1, ReductionSpoils
    <3> QED BY <2>2, <2>4, <2>9, <3>2
  <2>10. CASE ~overflows(expr[t], vs[2], vs[3])
    <3>1. worth(expr, a, p - 1, m) /\ m \in Word
      BY <2>2, <2>4, <2>8, <2>10 DEF worth
    <3>2. /\ Len(ws) = 2 /\ ws[2] = m /\ ws[1] = vs[1] /\ ws \in Seq(Word)
          /\ Len(rest) = 1 /\ rest[1] = expr[c]
      BY <1>4, <1>5, <2>2, <2>4, <3>1
    <3>3. oneStacked(expr, c, rest, ws)
      BY <2>2, <2>3, <3>2, NotBoth DEF oneStacked, binds
    <3>4. beforeOperator(expr, p, c, rest, ws)
      <4>1. worth(expr, c + 1, p - 1, ws[Len(rest) + 1]) /\ noSum(expr, c + 1, p - 1)
            /\ Len(ws) = Len(rest) + 1
        <5>1. Len(rest) + 1 = 2 /\ ws[2] = m /\ Len(ws) = 2
          BY ONLY <3>2
        <5> QED BY <2>7, <3>1, <5>1
      <4> HIDE DEF a
      <4> QED BY <1>2, <2>2, <2>3, <4>1, NotBoth DEF beforeOperator
    <3>5. Evaluated(expr, p, "EXPECT_OPERATOR", rest, ws)
      BY <2>3, <3>3, <3>4 DEF Evaluated, stacked
    <3> QED BY <2>2, <2>4, <2>10, <3>2, <3>5
  <2> QED BY <2>9, <2>10
<1> QED BY <1>1, <1>6, <1>7 DEF stacked, noneStacked

\* An operator that binds stronger than the one below it, if there is one, goes on
\* the stack.
LEMMA StepPush ==
    ASSUME NEW expr \in Seq(Characters), WellFormed(expr), NEW p \in 1 .. Len(expr),
           ~isspace(expr[p]), NEW o \in Seq(Operators), NEW vs \in Seq(Word),
           Evaluated(expr, p, "EXPECT_OPERATOR", o, vs),
           Len(o) # 0 => ~(precedence(o[Len(o)]) >= precedence(expr[p])),
           NEW pushed, pushed = Append(o, expr[p])
    PROVE  Evaluated(expr, p + 1, "EXPECT_OPERAND", pushed, vs) /\ pushed \in Seq(Operators)
<1>0. /\ Len(expr) \in Nat /\ p \in Int /\ p \in 0 .. (p + 1) - 1 /\ p # 0 /\ p # Len(expr) + 1
      /\ Len(o) \in Nat /\ Len(vs) \in Nat
  BY LenProperties
<1>1. PICK t \in 0 .. p - 1 : stacked(expr, t, o, vs) /\ beforeOperator(expr, p, t, o, vs)
  BY DEF Evaluated
<1>2. /\ Len(vs) = Len(o) + 1 /\ worth(expr, t + 1, p - 1, vs[Len(o) + 1])
      /\ afterDigit(expr, p) /\ ~isdigit(expr[p])
  BY <1>0, <1>1 DEF beforeOperator
<1>3. binds(expr, p) /\ expr[p] \in Operators
  <2>1. binds(expr, p)
    BY <1>2, AtOperator
  <2> QED BY <2>1, Precedences DEF binds
<1>4. /\ pushed \in Seq(Operators) /\ Len(pushed) = Len(o) + 1 /\ pushed[Len(o) + 1] = expr[p]
      /\ \A k \in 1 .. Len(o) : pushed[k] = o[k]
  BY <1>3
<1>5. beforeOperand(expr, p + 1, p, pushed, vs)
  <2>1. \A j \in p + 1 .. (p + 1) - 1 : FALSE
    BY <1>0
  <2> QED BY <1>2, <1>4, <2>1 DEF beforeOperand
<1>6. CASE noneStacked(t, o)
  <2>1. t = 0 /\ Len(o) = 0 /\ t + 1 = 1 /\ Len(o) + 1 = 1
    BY <1>6 DEF noneStacked
  <2>2. worth(expr, 1, p - 1, vs[1]) /\ Len(pushed) = 1 /\ pushed[1] = expr[p]
    BY <1>2, <1>4, <2>1
  <2>3. adds(expr, p) \/ noSum(expr, 1, p - 1)
    BY <1>0, <1>1, <2>1 DEF beforeOperator
  <2>4. oneStacked(expr, p, pushed, vs)
    BY <1>0, <1>3, <2>2, <2>3, NotBoth DEF oneStacked
  <2> QED BY <1>0, <1>4, <1>5, <2>4 DEF Evaluated, stacked
<1>7. CASE oneStacked(expr, t, o, vs)
  <2>1. /\ t # 0 /\ binds(expr, t) /\ Len(o) = 1 /\ o[1] = expr[t]
        /\ worth(expr, 1, t - 1, vs[1])
    BY <1>7 DEF oneStacked
  <2>2. ~(precedence(expr[t]) >= precedence(expr[p]))
    BY <2>1
  <2>3. adds(expr, t) /\ multiplies(expr, p)
    BY <1>3, <2>1, <2>2, Precedences DEF binds
  <2>4. noSum(expr, t + 1, p - 1) /\ worth(expr, t + 1, p - 1, vs[2]) /\ t \in 1 .. p - 1
    BY <1>0, <1>1, <1>2, <2>1 DEF beforeOperator
  <2>5. Len(pushed) = 2 /\ pushed[1] = expr[t] /\ pushed[2] = expr[p]
    BY <1>4, <2>1
  <2>6. twoStacked(expr, t, p, pushed, vs)
    BY <2>1, <2>3, <2>4, <2>5 DEF twoStacked
  <2> QED BY <1>0, <1>4, <1>5, <2>4, <2>6 DEF Evaluated, stacked
<1>8. CASE \E c \in 1 .. t - 1 : twoStacked(expr, c, t, o, vs)
  <2>1. Len(o) = 2 /\ precedence(o[2]) = 2
    BY <1>8, Precedences DEF twoStacked
  <2>2. precedence(expr[p]) = 1 \/ precedence(expr[p]) = 2
    BY <1>3, Precedences DEF binds
  <2> QED BY <2>1, <2>2
<1> QED BY <1>1, <1>6, <1>7, <1>8 DEF stacked

\* At the end of the expression an operand has been read, and when no operator is
\* left it is worth what the expression is.
LEMMA StepEnd ==
    ASSUME NEW expr \in Seq(Characters), WellFormed(expr),
           NEW s, NEW o \in Seq(Operators), NEW vs \in Seq(Word),
           Evaluated(expr, Len(expr) + 1, s, o, vs)
    PROVE  /\ s = "EXPECT_OPERATOR"
           /\ Len(o) = 0 => vs[1] = Meaning(expr) /\ vs[1] \in Word
<1> DEFINE p == Len(expr) + 1
<1>0. /\ Len(expr) \in Nat /\ p - 1 = Len(expr) /\ afterDigit(expr, p) /\ p \in Int
      /\ Len(o) \in Nat
  BY LenProperties DEF WellFormed
<1>1. PICK t \in 0 .. p - 1 :
        /\ stacked(expr, t, o, vs)
        /\ \/ s = "EXPECT_OPERAND" /\ beforeOperand(expr, p, t, o, vs)
           \/ s = "EXPECT_OPERATOR" /\ beforeOperator(expr, p, t, o, vs)
  BY DEF Evaluated
<1>2. t \in 0 .. Len(expr) /\ p \in t + 1 .. Len(expr) + 1
  BY <1>0
<1>3. (t = 0 \/ binds(expr, t)) /\ (Len(o) = 0 => t = 0)
  BY <1>1 DEF stacked, noneStacked, oneStacked, twoStacked, binds
<1>4. ~(s = "EXPECT_OPERAND" /\ beforeOperand(expr, p, t, o, vs))
  <2> SUFFICES ASSUME beforeOperand(expr, p, t, o, vs) PROVE FALSE
    OBVIOUS
  <2>1. \A j \in t + 1 .. p - 1 : isspace(expr[j])
    BY DEF beforeOperand
  <2> HIDE DEF p
  <2>2. PICK d \in p .. Len(expr) : isdigit(expr[d])
    BY <1>0, <1>2, <1>3, <2>1, AfterOperator DEF p
  <2> QED BY <1>0, <2>2
<1>5. ASSUME Len(o) = 0 PROVE vs[1] = Meaning(expr) /\ vs[1] \in Word
  <2>1. t = 0 /\ t + 1 = 1 /\ Len(o) + 1 = 1
    BY <1>3, <1>5
  <2>2. worth(expr, t + 1, p - 1, vs[Len(o) + 1])
    BY <1>1, <1>4 DEF beforeOperator
  <2>3. worth(expr, 1, Len(expr), vs[1])
    BY <1>0, <2>1, <2>2
  <2> QED BY <2>3, MeaningIsPart DEF worth
<1> QED BY <1>1, <1>4, <1>5

-----------------------------------------------------------------------------
(* The invariant of the calculator.                                          *)

CalculatorInv ==
    /\ expression \in Seq(Characters) /\ values \in Seq(Word) /\ ops \in Seq(Operators)
    /\ pc \in {"prompt", "evaluating", "choice", "end", "failed", "spin"}
    /\ pc = "prompt" => /\ i = 1 /\ state = "EXPECT_OPERAND" /\ values = <<>> /\ ops = <<>>
                        /\ result = nothing
    /\ pc = "evaluating" => /\ WellFormed(expression) /\ i \in 1 .. Len(expression) + 1
                            /\ Evaluated(expression, i, state, ops, values)
                            /\ result = nothing
    /\ CalculatesMeaning /\ StacksStayLow

LEMMA CalculatorInit ==
    ASSUME Init PROVE CalculatorInv
<1>1. /\ expression \in Seq(Characters) /\ values \in Seq(Word) /\ ops \in Seq(Operators)
      /\ Len(ops) = 0 /\ Len(values) = 0
  BY DEF Init
<1>2. result.kind = "nothing"
  BY DEF Init, nothing
<1> QED BY <1>1, <1>2 DEF Init, CalculatorInv, CalculatesMeaning, StacksStayLow

\* The arena holds the line and the two stacks.
LEMMA ArenaHolds ==
    ASSUME NEW room \in Nat, room + 1 <= BUFFER
    PROVE  LET first == arena_alloc(0, room + 1)
               all == arena_alloc(arena_alloc(first, 8 * STACK_MAX_DEPTH), STACK_MAX_DEPTH)
           IN  first # -1 /\ all # -1
<1> DEFINE a == (room + 1 + 7) \div 8
           b == (8 * STACK_MAX_DEPTH + 7) \div 8
           c == (STACK_MAX_DEPTH + 7) \div 8
           z == (BUFFER + 7) \div 8
<1>1. /\ BUFFER \in Nat /\ STACK_MAX_DEPTH \in Nat /\ ARENA_CAPACITY_BYTES \in Nat
      /\ 8 * z + 8 * STACK_MAX_DEPTH + 8 * c <= ARENA_CAPACITY_BYTES
  BY CalculatorAssumption
<1>2. a \in Nat /\ z \in Nat /\ c \in Nat /\ a <= z
  BY <1>1
<1>3. b = STACK_MAX_DEPTH
  BY <1>1
<1>4. arena_alloc(0, room + 1) = IF 0 + 8 * a > ARENA_CAPACITY_BYTES THEN -1 ELSE 0 + 8 * a
  BY DEF arena_alloc
<1>5. ASSUME NEW u \in Nat
      PROVE  arena_alloc(u, 8 * STACK_MAX_DEPTH) =
               IF u + 8 * b > ARENA_CAPACITY_BYTES THEN -1 ELSE u + 8 * b
  BY DEF arena_alloc
<1>6. ASSUME NEW u \in Nat
      PROVE  arena_alloc(u, STACK_MAX_DEPTH) =
               IF u + 8 * c > ARENA_CAPACITY_BYTES THEN -1 ELSE u + 8 * c
  BY DEF arena_alloc
<1> HIDE DEF a, b, c, z
<1> DEFINE u1 == 8 * a
           u2 == u1 + 8 * b
<1>7. arena_alloc(0, room + 1) = u1 /\ u1 \in Nat
  BY <1>1, <1>2, <1>4
<1>8. arena_alloc(u1, 8 * STACK_MAX_DEPTH) = u2 /\ u2 \in Nat
  BY <1>1, <1>2, <1>3, <1>5, <1>7
<1>9. arena_alloc(u2, STACK_MAX_DEPTH) # -1
  <2>1. u2 = 8 * a + 8 * STACK_MAX_DEPTH
    BY <1>3
  <2> HIDE DEF u2
  <2> QED BY <1>1, <1>2, <1>6, <1>8, <2>1
<1>10. u1 # -1
  BY <1>7
<1> HIDE DEF u1, u2
<1> QED BY <1>7, <1>8, <1>9, <1>10

LEMMA ReadLineKeeps ==
    ASSUME CalculatorInv, NEW l \in Lines, readLine(l) PROVE CalculatorInv'
<1> DEFINE room  == Min({BUFFER - 1, Len(l)})
           expr  == SubSeq(l, 1, room)
           first == arena_alloc(0, room + 1)
           all   == arena_alloc(arena_alloc(first, 8 * STACK_MAX_DEPTH), STACK_MAX_DEPTH)
<1>1. /\ pc = "prompt" /\ expression' = expr
      /\ \/ /\ first # -1 /\ ~isExpressionSyntaxValid(expr)
            /\ pc' = "choice" /\ result' = [kind |-> "invalid", value |-> 0]
         \/ /\ first # -1 /\ isExpressionSyntaxValid(expr)
            /\ pc' = IF all = -1 THEN "failed" ELSE "evaluating"
            /\ result' = result
         \/ first = -1
      /\ i' = i /\ state' = state /\ values' = values /\ ops' = ops
  BY DEF readLine
<1>2. l \in Seq(Characters) /\ Len(l) \in Nat /\ BUFFER \in Nat /\ BUFFER # 0
  BY CalculatorAssumption, LenProperties
<1>3. room \in 0 .. Len(l) /\ room + 1 <= BUFFER
  <2> DEFINE T == {BUFFER - 1, Len(l)}
             top == BUFFER + Len(l)
  <2>1. T \subseteq 0 .. top /\ T # {} /\ 0 \in Int /\ top \in Int
    BY <1>2
  <2> HIDE DEF T
  <2>2. Min(T) \in T /\ \A y \in T : Min(T) <= y
    <3> HIDE DEF top
    <3> QED BY <2>1, MinMax
  <2>3. room = Min(T)
    BY DEF T
  <2> HIDE DEF room
  <2>4. room \in {BUFFER - 1, Len(l)} /\ room <= BUFFER - 1 /\ room <= Len(l)
    BY <2>2, <2>3 DEF T
  <2> QED BY <1>2, <2>4
<1> HIDE DEF room
<1>4. expr \in Seq(Characters) /\ room \in Nat
  BY <1>2, <1>3, FirstOf
<1>5. first # -1 /\ all # -1
  BY <1>3, <1>4, ArenaHolds
<1> HIDE DEF expr, first, all
<1>6. /\ i' = 1 /\ state' = "EXPECT_OPERAND" /\ values' = <<>> /\ ops' = <<>> /\ result = nothing
      /\ StacksStayLow /\ values \in Seq(Word) /\ ops \in Seq(Operators)
  BY <1>1 DEF CalculatorInv
<1>7. StacksStayLow' /\ values' \in Seq(Word) /\ ops' \in Seq(Operators) /\ expression' \in Seq(Characters)
  BY <1>1, <1>4, <1>6 DEF StacksStayLow
<1>8. CASE ~isExpressionSyntaxValid(expr)
  <2>1. ~WellFormed(expression') /\ pc' = "choice" /\ result'.kind = "invalid"
    BY <1>1, <1>4, <1>5, <1>8, SyntaxCorrect
  <2> QED BY <1>7, <2>1 DEF CalculatorInv, CalculatesMeaning
<1>9. CASE isExpressionSyntaxValid(expr)
  <2>1. WellFormed(expression') /\ pc' = "evaluating" /\ result' = nothing
    BY <1>1, <1>4, <1>5, <1>6, <1>9, SyntaxCorrect
  <2>2. i' \in 1 .. Len(expression') + 1 /\ Evaluated(expression', i', state', ops', values')
    <3>1. Len(expression') \in Nat
      BY <1>7, LenProperties
    <3> DEFINE t == 0
    <3>2. Len(ops') = 0 /\ Len(values') = 0 /\ i' = 1
      BY <1>6
    <3>3. t \in 0 .. i' - 1 /\ \A j \in t + 1 .. i' - 1 : FALSE
      BY <3>2
    <3>4. stacked(expression', t, ops', values')
      BY <3>2 DEF stacked, noneStacked
    <3> HIDE DEF t
    <3>5. beforeOperand(expression', i', t, ops', values')
      BY <3>2, <3>3 DEF beforeOperand
    <3> QED BY <1>6, <3>1, <3>2, <3>3, <3>4, <3>5 DEF Evaluated
  <2>3. result'.kind = "nothing"
    BY <2>1 DEF nothing
  <2> QED BY <1>7, <2>1, <2>2, <2>3 DEF CalculatorInv, CalculatesMeaning
<1> QED BY <1>8, <1>9

\* What the steps of the evaluation start from.
LEMMA Evaluating ==
    ASSUME CalculatorInv, pc = "evaluating"
    PROVE  /\ expression \in Seq(Characters) /\ values \in Seq(Word) /\ ops \in Seq(Operators)
           /\ WellFormed(expression) /\ i \in 1 .. Len(expression) + 1
           /\ Evaluated(expression, i, state, ops, values)
           /\ result = nothing /\ StacksStayLow
           /\ Len(expression) \in Nat
BY LenProperties DEF CalculatorInv

\* They end in another state of the evaluation, or in an error of the expression.
LEMMA EvaluationGoesOn ==
    ASSUME CalculatorInv, pc = "evaluating", pc' = pc, expression' = expression, result' = result,
           values' \in Seq(Word), ops' \in Seq(Operators), i' \in 1 .. Len(expression) + 1,
           Evaluated(expression, i', state', ops', values')
    PROVE  CalculatorInv'
<1>1. low(ops', values')
  BY EvaluatedLow
<1>2. StacksStayLow'
  BY <1>1 DEF StacksStayLow, low
<1>3. result'.kind = "nothing"
  BY Evaluating DEF nothing
<1> QED BY <1>2, <1>3, Evaluating DEF CalculatorInv, CalculatesMeaning

LEMMA EvaluationFails ==
    ASSUME CalculatorInv, pc = "evaluating", pc' = "failed", Meaning(expression) = Error,
           expression' = expression, result' = result, values' = values, ops' = ops
    PROVE  CalculatorInv'
<1>1. result'.kind = "nothing"
  BY Evaluating DEF nothing
<1>2. StacksStayLow'
  BY Evaluating DEF StacksStayLow
<1>3. WellFormed(expression') /\ Meaning(expression') = Error
  BY Evaluating
<1> QED BY <1>1, <1>2, <1>3, Evaluating DEF CalculatorInv, CalculatesMeaning

LEMMA SkipSpaceKeeps ==
    ASSUME CalculatorInv, skipSpace PROVE CalculatorInv'
<1>1. /\ pc = "evaluating" /\ i <= Len(expression) /\ isspace(expression[i])
      /\ i' = i + 1 /\ UNCHANGED <<expression, state, values, ops, pc, result>>
  BY DEF skipSpace, more, char
<1>2. i \in 1 .. Len(expression) /\ i' \in 1 .. Len(expression) + 1
  BY <1>1, Evaluating
<1>3. Evaluated(expression, i + 1, state, ops, values)
  BY <1>1, <1>2, Evaluating, StepSpace
<1> QED BY <1>1, <1>2, <1>3, Evaluating, EvaluationGoesOn

LEMMA ReadOperandKeeps ==
    ASSUME CalculatorInv, readOperand PROVE CalculatorInv'
<1> DEFINE first == firstDigit(expression, i)
           end   == lastDigit(expression, first)
           read  == readDigits(expression, first, end)[end]
           m     == signed(expression, i, first, end)
<1>1. /\ pc = "evaluating" /\ i <= Len(expression) /\ ~isspace(expression[i])
      /\ state = "EXPECT_OPERAND"
      /\ IF read = -1 THEN pc' = "failed" /\ UNCHANGED <<i, state, values>>
         ELSE /\ values' = Append(values, m) /\ i' = end + 1
              /\ state' = "EXPECT_OPERATOR" /\ UNCHANGED pc
      /\ UNCHANGED <<expression, ops, result>>
  BY DEF readOperand, more, char, readDigits, firstDigit, lastDigit, signed
<1>2. i \in 1 .. Len(expression)
  BY <1>1, Evaluating
<1>3. \E d \in i .. Len(expression) : isdigit(expression[d])
  <2>1. PICK t \in 0 .. i - 1 :
          stacked(expression, t, ops, values) /\ beforeOperand(expression, i, t, ops, values)
    BY <1>1, Evaluating DEF Evaluated
  <2>2. /\ t \in Int /\ t \in 0 .. Len(expression) /\ i \in t + 1 .. Len(expression) + 1
    BY <1>2, Evaluating
  <2>3. (t = 0 \/ binds(expression, t)) /\ \A j \in t + 1 .. i - 1 : isspace(expression[j])
    BY <2>1, <2>2, StackedTop DEF beforeOperand
  <2>4. afterDigit(expression, Len(expression) + 1)
    BY <1>1, Evaluating DEF WellFormed
  <2> QED BY <1>1, <2>2, <2>3, <2>4, Evaluating, AfterOperator
<1>4. numberAt(expression, i, first, end)
  BY <1>1, <1>2, <1>3, Evaluating, DigitRun
<1> HIDE DEF first, end
<1>5. IF read = -1 THEN Meaning(expression) = Error
      ELSE /\ Evaluated(expression, end + 1, "EXPECT_OPERATOR", ops, Append(values, m))
           /\ m \in Word /\ end + 1 \in 1 .. Len(expression) + 1
  BY <1>1, <1>2, <1>4, Evaluating, StepOperand
<1> HIDE DEF read, m
<1>6. CASE read = -1
  BY <1>1, <1>5, <1>6, EvaluationFails
<1>7. CASE read # -1
  <2>1. m \in Word /\ values \in Seq(Word) /\ ops \in Seq(Operators)
    BY <1>1, <1>5, <1>7, Evaluating
  <2>2. Append(values, m) \in Seq(Word)
    BY <2>1, AppendProperties
  <2>3. values' \in Seq(Word) /\ ops' \in Seq(Operators)
    BY <1>1, <1>7, <2>1, <2>2
  <2>4. Evaluated(expression, i', state', ops', values') /\ i' \in 1 .. Len(expression) + 1
    BY <1>1, <1>5, <1>7
  <2> QED BY <1>1, <1>7, <2>3, <2>4, EvaluationGoesOn
<1> QED BY <1>6, <1>7

LEMMA ReduceKeeps ==
    ASSUME CalculatorInv, reduce PROVE CalculatorInv'
<1> DEFINE size  == Len(values)
           op == ops[Len(ops)]
           m  == applied(op, values[size - 1], values[size])
           rest == SubSeq(ops, 1, Len(ops) - 1)
           ws == Append(SubSeq(values, 1, size - 2), m)
<1>1. /\ pc = "evaluating" /\ ops # <<>>
      /\ i <= Len(expression) => /\ ~isspace(expression[i]) /\ state = "EXPECT_OPERATOR"
                                 /\ precedence(op) >= precedence(expression[i])
      /\ IF overflows(op, values[size - 1], values[size])
         THEN pc' = "failed" /\ UNCHANGED <<values, ops>>
         ELSE values' = ws /\ ops' = rest /\ UNCHANGED pc
      /\ UNCHANGED <<expression, i, state, result>>
  BY DEF reduce, more, char, goesFirst, Last, Front
<1>2. state = "EXPECT_OPERATOR"
  <2>1. CASE i <= Len(expression)
    BY <1>1, <2>1
  <2>2. CASE ~(i <= Len(expression))
    <3>1. i = Len(expression) + 1
      BY <1>1, <2>2, Evaluating
    <3>2. Evaluated(expression, Len(expression) + 1, state, ops, values)
      BY <1>1, <3>1, Evaluating
    <3> QED BY <1>1, <3>2, Evaluating, StepEnd
  <2> QED BY <2>1, <2>2
<1>3. Len(ops) # 0 /\ Len(ops) \in Nat
  BY <1>1, Evaluating, EmptySeq, LenProperties
<1>4. IF overflows(op, values[size - 1], values[size]) THEN Meaning(expression) = Error
      ELSE Evaluated(expression, i, "EXPECT_OPERATOR", rest, ws) /\ ws \in Seq(Word)
  BY <1>1, <1>2, <1>3, Evaluating, StepReduce
<1>5. rest \in Seq(Operators)
  <2> DEFINE k == Len(ops) - 1
  <2>1. k \in 0 .. Len(ops) /\ ops \in Seq(Operators)
    BY <1>1, <1>3, Evaluating
  <2> HIDE DEF k
  <2>2. SubSeq(ops, 1, k) \in Seq(Operators)
    BY <2>1, FirstOf
  <2> QED BY <2>2 DEF k
<1> HIDE DEF size, op, m, rest, ws
<1>6. CASE overflows(op, values[size - 1], values[size])
  BY <1>1, <1>4, <1>6, EvaluationFails
<1>7. CASE ~overflows(op, values[size - 1], values[size])
  <2>1. /\ values' \in Seq(Word) /\ ops' \in Seq(Operators) /\ i' \in 1 .. Len(expression) + 1
        /\ Evaluated(expression, i', state', ops', values')
    BY <1>1, <1>2, <1>4, <1>5, <1>7, Evaluating
  <2> QED BY <1>1, <1>7, <2>1, EvaluationGoesOn
<1> QED BY <1>6, <1>7

LEMMA PushOperatorKeeps ==
    ASSUME CalculatorInv, pushOperator PROVE CalculatorInv'
<1>1. /\ pc = "evaluating" /\ i <= Len(expression) /\ ~isspace(expression[i])
      /\ state = "EXPECT_OPERATOR"
      /\ ops # <<>> => ~(precedence(ops[Len(ops)]) >= precedence(expression[i]))
      /\ ops' = Append(ops, expression[i]) /\ i' = i + 1 /\ state' = "EXPECT_OPERAND"
      /\ UNCHANGED <<expression, values, pc, result>>
  BY DEF pushOperator, more, char, goesFirst, Last
<1>2. i \in 1 .. Len(expression) /\ i' \in 1 .. Len(expression) + 1
  BY <1>1, Evaluating
<1>3. Len(ops) # 0 => ops # <<>>
  OBVIOUS
<1>4. Evaluated(expression, i + 1, "EXPECT_OPERAND", ops', values) /\ ops' \in Seq(Operators)
  BY <1>1, <1>2, <1>3, Evaluating, StepPush
<1> QED BY <1>1, <1>2, <1>4, Evaluating, EvaluationGoesOn

LEMMA PrintResultKeeps ==
    ASSUME CalculatorInv, printResult PROVE CalculatorInv'
<1>1. /\ pc = "evaluating" /\ ~(i <= Len(expression)) /\ ops = <<>> /\ pc' = "choice"
      /\ result' = [kind |-> "number", value |-> values[1]]
      /\ UNCHANGED <<expression, values, ops>>
  BY DEF printResult, more, machine
<1>2. i = Len(expression) + 1 /\ Len(ops) = 0
  BY <1>1, Evaluating
<1>3. Evaluated(expression, Len(expression) + 1, state, ops, values)
  BY <1>1, <1>2, Evaluating
<1>4. values[1] = Meaning(expression) /\ values[1] \in Word
  BY <1>1, <1>2, <1>3, Evaluating, StepEnd
<1>5. Error \notin Word
  BY CalculatorAssumption DEF Error, Word
<1>6. result'.kind = "number" /\ result'.value = values[1]
  BY <1>1
<1>7. StacksStayLow'
  BY <1>1, Evaluating DEF StacksStayLow
<1> QED BY <1>1, <1>4, <1>5, <1>6, <1>7, Evaluating DEF CalculatorInv, CalculatesMeaning

LEMMA AnswerKeeps ==
    ASSUME CalculatorInv, NEW ch, answer(ch) PROVE CalculatorInv'
<1>1. /\ pc = "choice"
      /\ \/ pc' \in {"spin", "end"} /\ UNCHANGED <<expression, i, state, values, ops, result>>
         \/ /\ pc' = "prompt" /\ expression' = <<>> /\ i' = 1 /\ state' = "EXPECT_OPERAND"
            /\ values' = <<>> /\ ops' = <<>> /\ result' = nothing
  BY DEF answer, machine
<1>2. CASE pc' \in {"spin", "end"} /\ UNCHANGED <<expression, i, state, values, ops, result>>
  BY <1>1, <1>2 DEF CalculatorInv, CalculatesMeaning, StacksStayLow
<1>3. CASE pc' = "prompt"
  <2>1. /\ expression' = <<>> /\ values' = <<>> /\ ops' = <<>> /\ result' = nothing
        /\ i' = 1 /\ state' = "EXPECT_OPERAND"
    BY <1>1, <1>3
  <2>2. /\ expression' \in Seq(Characters) /\ values' \in Seq(Word) /\ ops' \in Seq(Operators)
        /\ Len(ops') = 0 /\ Len(values') = 0
    BY <2>1
  <2>3. result'.kind = "nothing"
    BY <2>1 DEF nothing
  <2> QED BY <1>3, <2>1, <2>2, <2>3 DEF CalculatorInv, CalculatesMeaning, StacksStayLow
<1> QED BY <1>1, <1>2, <1>3

LEMMA CalculatorStep ==
    ASSUME CalculatorInv, [Next]_vars PROVE CalculatorInv'
<1>1. CASE UNCHANGED vars
  BY <1>1 DEF vars, machine, CalculatorInv, CalculatesMeaning, StacksStayLow
<1>2. CASE inputEnds
  <2>1. pc = "prompt" /\ pc' = "end" /\ UNCHANGED <<expression, i, state, values, ops, result>>
    BY <1>2 DEF inputEnds, machine
  <2> QED BY <2>1 DEF CalculatorInv, CalculatesMeaning, StacksStayLow
<1>3. CASE Next
  BY <1>2, <1>3, ReadLineKeeps, SkipSpaceKeeps, ReadOperandKeeps, ReduceKeeps, PushOperatorKeeps,
     PrintResultKeeps, AnswerKeeps DEF Next
<1> QED BY <1>1, <1>3

\* The calculator prints what a well-formed expression means, and fails only when
\* the word does not hold a value of it.
THEOREM CalculationCorrect == Spec => []CalculatesMeaning
<1>1. CalculatorInv => CalculatesMeaning
  BY DEF CalculatorInv
<1> QED BY <1>1, CalculatorInit, CalculatorStep, PTL DEF Spec

\* However long the expression is, two operators and three values are enough.
THEOREM StacksCorrect == Spec => []StacksStayLow
<1>1. CalculatorInv => StacksStayLow
  BY DEF CalculatorInv
<1> QED BY <1>1, CalculatorInit, CalculatorStep, PTL DEF Spec

-----------------------------------------------------------------------------
(* Matrices.                                                                 *)

Square == Indices \X Indices

\* Half of a row, which the middle of an odd one is not in.
LEMMA Half ==
    ASSUME n \in Nat, n >= 2
    PROVE  /\ n \div 2 \in Nat /\ n \div 2 >= 1
           /\ 2 * (n \div 2) <= n /\ n <= 2 * (n \div 2) + 1
OBVIOUS

\* Two cells change places.
LEMMA Swap ==
    ASSUME matrix = [c \in Square |-> matrix[c]], NEW a \in Square, NEW b \in Square
    PROVE  /\ swapped(a, b) = [c \in Square |-> swapped(a, b)[c]]
           /\ \A c \in Square :
                swapped(a, b)[c] = IF c = b THEN matrix[a]
                                   ELSE IF c = a THEN matrix[b] ELSE matrix[c]
<1>1. DOMAIN matrix = Square
  OBVIOUS
<1>2. swapped(a, b) = [[matrix EXCEPT ![a] = matrix[b]] EXCEPT ![b] = matrix[a]]
  BY <1>1 DEF swapped
<1> DEFINE once == [matrix EXCEPT ![a] = matrix[b]]
<1>3. /\ DOMAIN once = Square
      /\ \A c \in Square : once[c] = IF c = a THEN matrix[b] ELSE matrix[c]
  BY <1>1
<1>4. once = [c \in Square |-> once[c]]
  BY <1>1
<1> HIDE DEF once
<1> DEFINE twice == [once EXCEPT ![b] = matrix[a]]
<1>5. \A c \in Square : twice[c] = IF c = b THEN matrix[a] ELSE once[c]
  BY <1>3
<1>6. twice = [c \in Square |-> twice[c]]
  BY <1>3, <1>4
<1>7. swapped(a, b) = twice
  BY <1>2 DEF once
<1> HIDE DEF twice
<1> QED BY <1>3, <1>5, <1>6, <1>7

\* One cell gets a new content.
LEMMA Set ==
    ASSUME matrix = [c \in Square |-> matrix[c]], NEW a \in Square, NEW x
    PROVE  /\ [matrix EXCEPT ![a] = x] = [c \in Square |-> [matrix EXCEPT ![a] = x][c]]
           /\ \A c \in Square :
                [matrix EXCEPT ![a] = x][c] = IF c = a THEN x ELSE matrix[c]
<1>1. DOMAIN matrix = Square
  OBVIOUS
<1> QED BY <1>1

-----------------------------------------------------------------------------
(* How far the loops have come.                                              *)

smoothed(c) == mean([d \in around(c[1], c[2]) |-> rotated[d]])

\* Cells on one of the sides of the diagonal that the loop has passed, and their
\* mirror images, have changed places.
Transposing ==
    /\ row \in Indices /\ col \in row .. n - 1
    /\ \A y, j \in Indices :
         matrix[<<y, j>>] =
           IF y < row \/ j < row \/ (y = row /\ j < col) \/ (j = row /\ y < col)
           THEN picture[<<j, y>>] ELSE picture[<<y, j>>]

\* Rows that the loop has passed are turned, the row it is in from both of its ends.
Mirroring ==
    /\ row \in Indices /\ col \in 0 .. n \div 2 - 1
    /\ \A y, j \in Indices :
         matrix[<<y, j>>] =
           IF y < row \/ (y = row /\ (j < col \/ j > n - 1 - col))
           THEN picture[<<n - 1 - j, y>>] ELSE picture[<<j, y>>]

\* Cells that the loop has passed are smoothed, and the copies hold the rows as they
\* were before.
Smoothing ==
    /\ row \in Indices /\ col \in Indices
    /\ \A y, j \in Indices :
         matrix[<<y, j>>] =
           IF y < row \/ (y = row /\ j < col) THEN smoothed(<<y, j>>)
           ELSE rotated[<<y, j>>]
    /\ row > 0 => \A j \in Indices : prevRowCopy[j] = rotated[<<row - 1, j>>]
    /\ col > 0 => \A j \in Indices : currentRowCopy[j] = rotated[<<row, j>>]

Smooth == \A y, j \in Indices : matrix[<<y, j>>] = smoothed(<<y, j>>)

SonarInv ==
    /\ stage \in {"start", "transpose", "mirror", "smooth", "done"}
    /\ stage = "start" => row = 0 /\ col = 0
    /\ stage # "start" => /\ n \in Nat /\ n >= 2
                          /\ matrix = [c \in Square |-> matrix[c]]
    /\ stage = "transpose" => Transposing
    /\ stage = "mirror" => Mirroring
    /\ stage = "smooth" => Smoothing
    /\ stage = "done" => Smooth

LEMMA RotatedCell ==
    ASSUME NEW y \in Indices, NEW j \in Indices
    PROVE  rotated[<<y, j>>] = picture[<<n - 1 - j, y>>]
BY DEF rotated

LEMMA StepGenerate ==
    ASSUME SonarInv, NEW size, NEW m, generateMatrix(size, m)
    PROVE  SonarInv'
<1>1. /\ row = 0 /\ col = 0 /\ row' = row /\ col' = col
      /\ size \in 2 .. 10 /\ n' = size /\ matrix' = m /\ picture' = m
      /\ m \in [(0 .. size - 1) \X (0 .. size - 1) -> 0 .. 255]
      /\ stage' = "transpose"
  BY DEF generateMatrix, SonarInv
<1>2. n' \in Nat /\ n' >= 2 /\ matrix' = [c \in Square' |-> matrix'[c]]
  BY <1>1 DEF Square, Indices
<1>3. Transposing'
  <2>1. row' \in Indices' /\ col' \in row' .. n' - 1
    BY <1>1, <1>2 DEF Indices
  <2>2. ASSUME NEW y \in Indices', NEW j \in Indices'
        PROVE  ~(y < row' \/ j < row' \/ (y = row' /\ j < col') \/ (j = row' /\ y < col'))
    BY <1>1 DEF Indices
  <2>3. matrix' = picture'
    BY <1>1
  <2> QED BY <2>1, <2>2, <2>3 DEF Transposing
<1> QED BY <1>1, <1>2, <1>3 DEF SonarInv

LEMMA StepTranspose ==
    ASSUME SonarInv, transposeCell
    PROVE  SonarInv'
<1> DEFINE a == <<row, col>>
           b == <<col, row>>
<1>1. /\ stage = "transpose" /\ n' = n /\ picture' = picture
      /\ matrix' = swapped(a, b)
      /\ \/ /\ col < n - 1
            /\ col' = col + 1 /\ stage' = stage /\ row' = row
         \/ /\ col = n - 1 /\ row < n - 1
            /\ row' = row + 1 /\ col' = row + 1 /\ stage' = stage
         \/ /\ col = n - 1 /\ row = n - 1
            /\ stage' = "mirror" /\ row' = 0 /\ col' = 0
  BY DEF transposeCell
<1>2. /\ n \in Nat /\ n >= 2 /\ matrix = [c \in Square |-> matrix[c]]
      /\ row \in 0 .. n - 1 /\ col \in row .. n - 1
      /\ \A y, j \in Indices :
           matrix[<<y, j>>] =
             IF y < row \/ j < row \/ (y = row /\ j < col) \/ (j = row /\ y < col)
             THEN picture[<<j, y>>] ELSE picture[<<y, j>>]
  BY <1>1 DEF SonarInv, Transposing, Indices
<1>3. row \in Indices /\ col \in Indices /\ a \in Square /\ b \in Square
  BY <1>2 DEF Indices, Square
<1>4. /\ matrix' = [c \in Square |-> matrix'[c]]
      /\ \A c \in Square : matrix'[c] = IF c = b THEN matrix[a]
                                        ELSE IF c = a THEN matrix[b] ELSE matrix[c]
  <2> HIDE DEF a, b
  <2>1. /\ matrix' = swapped(a, b) /\ a \in Square /\ b \in Square
        /\ matrix = [c \in Square |-> matrix[c]]
    BY <1>1, <1>2, <1>3
  <2> QED BY <2>1, Swap
<1>5. Indices' = Indices /\ Square' = Square
  BY <1>1 DEF Indices, Square
<1>6. ASSUME NEW y \in Indices, NEW j \in Indices
      PROVE  matrix'[<<y, j>>] =
               IF \/ y < row \/ j < row \/ (y = row /\ j <= col)
                  \/ (j = row /\ y <= col)
               THEN picture[<<j, y>>] ELSE picture[<<y, j>>]
  <2>1. <<y, j>> \in Square /\ y \in Int /\ j \in Int
    BY <1>2 DEF Square, Indices
  <2>2. matrix[a] = picture[<<row, col>>] \/ row = col
    BY <1>2, <1>3
  <2>3. matrix[b] = picture[<<col, row>>]
    BY <1>2, <1>3
  <2>4. matrix[a] = picture[<<row, col>>]
    BY <1>2, <1>3
  <2>5. CASE y = row /\ j = col
    BY <1>4, <2>1, <2>3, <2>4, <2>5
  <2>6. CASE y = col /\ j = row
    BY <1>4, <2>1, <2>3, <2>4, <2>6
  <2>7. CASE ~(y = row /\ j = col) /\ ~(y = col /\ j = row)
    <3>1. matrix'[<<y, j>>] = matrix[<<y, j>>]
      BY <1>4, <2>1, <2>7
    <3>2. (y < row \/ j < row \/ (y = row /\ j < col) \/ (j = row /\ y < col))
          <=> \/ y < row \/ j < row \/ (y = row /\ j <= col)
              \/ (j = row /\ y <= col)
      BY <1>2, <2>1, <2>7
    <3> QED BY <1>2, <3>1, <3>2
  <2> QED BY <2>5, <2>6, <2>7
<1>7. CASE col < n - 1 /\ col' = col + 1 /\ stage' = stage /\ row' = row
  <2>1. ASSUME NEW y \in Indices, NEW j \in Indices
        PROVE  /\ j < col + 1 <=> j <= col
               /\ y < col + 1 <=> y <= col
    BY <1>2 DEF Indices
  <2>2. row' \in Indices /\ col' \in row' .. n - 1
    BY <1>2, <1>3, <1>7
  <2>3. Transposing'
    BY <1>1, <1>5, <1>6, <1>7, <2>1, <2>2 DEF Transposing
  <2> QED BY <1>1, <1>2, <1>4, <1>5, <1>7, <2>3 DEF SonarInv
<1>8. CASE col = n - 1 /\ row < n - 1 /\ row' = row + 1 /\ col' = row + 1 /\ stage' = stage
  <2>1. ASSUME NEW y \in Indices, NEW j \in Indices
        PROVE  (\/ y < row + 1 \/ j < row + 1 \/ (y = row + 1 /\ j < row + 1)
                \/ (j = row + 1 /\ y < row + 1))
               <=> \/ y < row \/ j < row \/ (y = row /\ j <= col)
                   \/ (j = row /\ y <= col)
    BY <1>2, <1>8 DEF Indices
  <2>2. row' \in Indices /\ col' \in row' .. n - 1
    BY <1>2, <1>8 DEF Indices
  <2>3. Transposing'
    BY <1>1, <1>5, <1>6, <1>8, <2>1, <2>2 DEF Transposing
  <2> QED BY <1>1, <1>2, <1>4, <1>5, <1>8, <2>3 DEF SonarInv
<1>9. CASE col = n - 1 /\ row = n - 1 /\ stage' = "mirror" /\ row' = 0 /\ col' = 0
  <2>1. ASSUME NEW y \in Indices, NEW j \in Indices
        PROVE  matrix'[<<y, j>>] = picture[<<j, y>>]
    <3>1. \/ y < row \/ j < row \/ (y = row /\ j <= col) \/ (j = row /\ y <= col)
      BY <1>2, <1>9 DEF Indices
    <3> QED BY <1>6, <3>1
  <2>2. row' \in Indices /\ col' \in 0 .. n \div 2 - 1
    BY <1>2, <1>9, Half DEF Indices
  <2>3. \A y, j \in Indices : ~(y < 0 \/ (y = 0 /\ (j < 0 \/ j > n - 1 - 0)))
    BY <1>2 DEF Indices
  <2>4. Mirroring'
    BY <1>1, <1>5, <1>9, <2>1, <2>2, <2>3 DEF Mirroring
  <2> QED BY <1>1, <1>2, <1>4, <1>5, <1>9, <2>4 DEF SonarInv
<1> QED BY <1>1, <1>7, <1>8, <1>9

LEMMA StepMirror ==
    ASSUME SonarInv, mirrorCell
    PROVE  SonarInv'
<1> DEFINE h == n \div 2
           a == <<row, col>>
           b == <<row, n - 1 - col>>
<1>1. /\ stage = "mirror" /\ n' = n /\ picture' = picture
      /\ matrix' = swapped(a, b)
      /\ \/ /\ col < h - 1
            /\ col' = col + 1 /\ stage' = stage /\ row' = row
         \/ /\ col = h - 1 /\ row < n - 1
            /\ row' = row + 1 /\ col' = 0 /\ stage' = stage
         \/ /\ col = h - 1 /\ row = n - 1
            /\ stage' = "smooth" /\ row' = 0 /\ col' = 0
  BY DEF mirrorCell
<1>2. /\ n \in Nat /\ n >= 2 /\ matrix = [c \in Square |-> matrix[c]]
      /\ row \in 0 .. n - 1 /\ col \in 0 .. h - 1
      /\ \A y, j \in Indices :
           matrix[<<y, j>>] =
             IF y < row \/ (y = row /\ (j < col \/ j > n - 1 - col))
             THEN picture[<<n - 1 - j, y>>] ELSE picture[<<j, y>>]
  BY <1>1 DEF SonarInv, Mirroring, Indices
<1>h. h \in Nat /\ h >= 1 /\ 2 * h <= n /\ n <= 2 * h + 1
  BY <1>2, Half
<1> HIDE DEF h
<1>3. /\ row \in Indices /\ col \in Indices /\ n - 1 - col \in Indices
      /\ a \in Square /\ b \in Square /\ col < n - 1 - col
  BY <1>2, <1>h DEF Indices, Square
<1>4. /\ matrix' = [c \in Square |-> matrix'[c]]
      /\ \A c \in Square : matrix'[c] = IF c = b THEN matrix[a]
                                        ELSE IF c = a THEN matrix[b] ELSE matrix[c]
  <2> HIDE DEF a, b
  <2>1. /\ matrix' = swapped(a, b) /\ a \in Square /\ b \in Square
        /\ matrix = [c \in Square |-> matrix[c]]
    BY <1>1, <1>2, <1>3
  <2> QED BY <2>1, Swap
<1>5. Indices' = Indices /\ Square' = Square
  BY <1>1 DEF Indices, Square
<1>6. ASSUME NEW y \in Indices, NEW j \in Indices
      PROVE  matrix'[<<y, j>>] =
               IF y < row \/ (y = row /\ (j <= col \/ j >= n - 1 - col))
               THEN picture[<<n - 1 - j, y>>] ELSE picture[<<j, y>>]
  <2>1. <<y, j>> \in Square /\ y \in Int /\ j \in Int
    BY <1>2 DEF Square, Indices
  <2>2. matrix[a] = picture[<<col, row>>]
    <3>1. ~(row < row \/ (row = row /\ (col < col \/ col > n - 1 - col)))
      BY <1>2, <1>3
    <3> QED BY <1>2, <1>3, <3>1
  <2>3. matrix[b] = picture[<<n - 1 - col, row>>]
    <3> DEFINE k == n - 1 - col
    <3>1. ~(row < row \/ (row = row /\ (k < col \/ k > n - 1 - col)))
      BY <1>2, <1>3
    <3>2. k \in Indices
      BY <1>3
    <3> QED BY <1>2, <1>3, <3>1, <3>2
  <2>4. CASE y = row /\ j = col
    <3>1. <<y, j>> = a /\ <<y, j>> # b
      <4>1. col # n - 1 - col
        BY <1>2, <1>3
      <4> QED BY <2>4, <4>1
    <3>2. matrix'[<<y, j>>] = picture[<<n - 1 - j, y>>]
      BY <1>4, <2>1, <2>3, <2>4, <3>1
    <3> QED BY <2>1, <2>4, <3>2
  <2>5. CASE y = row /\ j = n - 1 - col
    <3>1. <<y, j>> = b /\ n - 1 - j = col
      BY <1>2, <2>1, <2>5
    <3>2. matrix'[<<y, j>>] = picture[<<n - 1 - j, y>>]
      BY <1>4, <2>1, <2>2, <2>5, <3>1
    <3> QED BY <2>1, <2>5, <3>2
  <2>6. CASE ~(y = row /\ j = col) /\ ~(y = row /\ j = n - 1 - col)
    <3>1. matrix'[<<y, j>>] = matrix[<<y, j>>]
      BY <1>4, <2>1, <2>6
    <3>2. (y < row \/ (y = row /\ (j < col \/ j > n - 1 - col)))
          <=> (y < row \/ (y = row /\ (j <= col \/ j >= n - 1 - col)))
      BY <1>2, <2>1, <2>6
    <3> QED BY <1>2, <3>1, <3>2
  <2> QED BY <2>4, <2>5, <2>6
\* The whole row is turned when its first half is done.
<1>7. ASSUME col = h - 1, NEW y \in Indices, NEW j \in Indices, y <= row
      PROVE  matrix'[<<y, j>>] = picture[<<n - 1 - j, y>>]
  <2>1. CASE y < row \/ (y = row /\ (j <= col \/ j >= n - 1 - col))
    BY <1>6, <2>1
  <2>2. CASE ~(y < row \/ (y = row /\ (j <= col \/ j >= n - 1 - col)))
    <3>1. j = n - 1 - j
      BY <1>2, <1>h, <1>7, <2>2 DEF Indices
    <3> QED BY <1>6, <2>2, <3>1
  <2> QED BY <2>1, <2>2
<1>8. CASE col < h - 1 /\ col' = col + 1 /\ stage' = stage /\ row' = row
  <2>1. ASSUME NEW y \in Indices, NEW j \in Indices
        PROVE  /\ j < col + 1 <=> j <= col
               /\ j > n - 1 - (col + 1) <=> j >= n - 1 - col
    BY <1>2 DEF Indices
  <2>2. row' \in Indices /\ col' \in 0 .. n' \div 2 - 1
    <3>1. col' \in 0 .. h - 1
      BY <1>2, <1>h, <1>8
    <3> QED BY <1>1, <1>3, <1>8, <3>1 DEF h
  <2>3. Mirroring'
    BY <1>1, <1>5, <1>6, <1>8, <2>1, <2>2 DEF Mirroring
  <2> QED BY <1>1, <1>2, <1>4, <1>5, <1>8, <2>3 DEF SonarInv
<1>9. CASE col = h - 1 /\ row < n - 1 /\ row' = row + 1 /\ col' = 0 /\ stage' = stage
  <2>1. ASSUME NEW y \in Indices, NEW j \in Indices
        PROVE  matrix'[<<y, j>>] =
                 IF y < row + 1 \/ (y = row + 1 /\ (j < 0 \/ j > n - 1 - 0))
                 THEN picture[<<n - 1 - j, y>>] ELSE picture[<<j, y>>]
    <3>1. CASE y <= row
      <4>1. y < row + 1
        BY <1>2, <3>1 DEF Indices
      <4> QED BY <1>7, <1>9, <3>1, <4>1
    <3>2. CASE ~(y <= row)
      <4>1. /\ ~(y < row + 1 \/ (y = row + 1 /\ (j < 0 \/ j > n - 1 - 0)))
            /\ ~(y < row \/ (y = row /\ (j <= col \/ j >= n - 1 - col)))
        BY <1>2, <3>2 DEF Indices
      <4> QED BY <1>6, <4>1
    <3> QED BY <3>1, <3>2
  <2>2. row' \in Indices /\ col' \in 0 .. n' \div 2 - 1
    <3>1. col' \in 0 .. h - 1 /\ row' \in Indices
      BY <1>2, <1>h, <1>9 DEF Indices
    <3> QED BY <1>1, <3>1 DEF h
  <2>3. Mirroring'
    BY <1>1, <1>5, <1>9, <2>1, <2>2 DEF Mirroring
  <2> QED BY <1>1, <1>2, <1>4, <1>5, <1>9, <2>3 DEF SonarInv
<1>10. CASE col = h - 1 /\ row = n - 1 /\ stage' = "smooth" /\ row' = 0 /\ col' = 0
  <2>1. rotated' = rotated
    BY <1>1, <1>5 DEF rotated
  <2>2. ASSUME NEW y \in Indices, NEW j \in Indices
        PROVE  matrix'[<<y, j>>] = rotated[<<y, j>>]
    <3>1. y <= row
      BY <1>2, <1>10 DEF Indices
    <3>2. matrix'[<<y, j>>] = picture[<<n - 1 - j, y>>]
      BY <1>7, <1>10, <3>1
    <3> QED BY <3>2, RotatedCell
  <2>3. row' \in Indices' /\ col' \in Indices'
    <3>1. 0 \in Indices
      BY <1>2 DEF Indices
    <3> QED BY <1>5, <1>10, <3>1
  <2>4. ASSUME NEW y \in Indices, NEW j \in Indices
        PROVE  ~(y < row' \/ (y = row' /\ j < col'))
    BY <1>10 DEF Indices
  <2>5. ~(row' > 0) /\ ~(col' > 0)
    BY <1>10
  <2>6. Smoothing'
    BY <1>5, <2>1, <2>2, <2>3, <2>4, <2>5 DEF Smoothing
  <2> QED BY <1>1, <1>2, <1>4, <1>5, <1>10, <2>6 DEF SonarInv
<1> QED BY <1>1, <1>8, <1>9, <1>10

\* The cells that are read for one are those of the turned matrix around it: its own
\* row and the one above from the copies, the one below from the matrix.
LEMMA CellsOfTurned ==
    ASSUME n \in Nat, Smoothing, NEW copy,
           \A j \in Indices : copy[j] = rotated[<<row, j>>]
    PROVE  mean(cellsRead(row, col, copy)) = smoothed(<<row, col>>)
<1>1. /\ row \in Int /\ col \in Int
      /\ \A y, j \in Indices :
           matrix[<<y, j>>] =
             IF y < row \/ (y = row /\ j < col) THEN smoothed(<<y, j>>)
             ELSE rotated[<<y, j>>]
      /\ row > 0 => \A j \in Indices : prevRowCopy[j] = rotated[<<row - 1, j>>]
  BY DEF Smoothing, Indices
<1>2. ASSUME NEW c \in around(row, col)
      PROVE  (CASE c[1] = row -> copy[c[2]]
                [] c[1] = row - 1 -> prevRowCopy[c[2]]
                [] c[1] = row + 1 -> matrix[c])
             = rotated[c]
  <2>1. /\ c = <<c[1], c[2]>> /\ c[1] \in Indices /\ c[2] \in Indices
        /\ c[1] - row \in -1 .. 1
    BY DEF around
  <2>2. c[1] \in Int /\ c[1] >= 0 /\ c[2] \in Int
    BY <2>1 DEF Indices
  <2>3. c[1] = row \/ c[1] = row - 1 \/ c[1] = row + 1
    BY <1>1, <2>1, <2>2
  <2>4. CASE c[1] = row
    <3>1. c[1] # row - 1 /\ c[1] # row + 1
      BY <1>1, <2>4
    <3>2. copy[c[2]] = rotated[c]
      BY <2>1, <2>4
    <3> QED BY <2>4, <3>1, <3>2
  <2>5. CASE c[1] = row - 1
    <3>1. c[1] # row /\ c[1] # row + 1 /\ row > 0
      BY <1>1, <2>2, <2>5
    <3>2. prevRowCopy[c[2]] = rotated[c]
      BY <1>1, <2>1, <2>5, <3>1
    <3> QED BY <2>5, <3>1, <3>2
  <2>6. CASE c[1] = row + 1
    <3>1. c[1] # row /\ c[1] # row - 1 /\ ~(c[1] < row)
      BY <1>1, <2>6
    <3>2. matrix[<<c[1], c[2]>>] = rotated[<<c[1], c[2]>>]
      BY <1>1, <2>1, <3>1
    <3>3. matrix[c] = rotated[c]
      BY <2>1, <3>2
    <3> QED BY <2>6, <3>1, <3>3
  <2> QED BY <2>3, <2>4, <2>5, <2>6
<1>3. cellsRead(row, col, copy) = [d \in around(row, col) |-> rotated[d]]
  BY <1>2 DEF cellsRead
<1>4. smoothed(<<row, col>>) = mean([d \in around(row, col) |-> rotated[d]])
  BY DEF smoothed
<1> QED BY <1>3, <1>4

LEMMA StepSmooth ==
    ASSUME SonarInv, smoothCell
    PROVE  SonarInv'
<1> DEFINE copy == IF col = 0 THEN [j \in Indices |-> matrix[<<row, j>>]]
                   ELSE currentRowCopy
           a == <<row, col>>
           x == mean(cellsRead(row, col, copy))
<1>1. /\ stage = "smooth" /\ n' = n /\ picture' = picture
      /\ matrix' = [matrix EXCEPT ![a] = x]
      /\ currentRowCopy' = copy
      /\ \/ /\ col < n - 1
            /\ col' = col + 1 /\ stage' = stage /\ row' = row
            /\ prevRowCopy' = prevRowCopy
         \/ /\ col = n - 1 /\ row < n - 1
            /\ row' = row + 1 /\ col' = 0 /\ stage' = stage
            /\ prevRowCopy' = copy
         \/ /\ col = n - 1 /\ row = n - 1
            /\ stage' = "done"
  BY DEF smoothCell
<1>2. /\ n \in Nat /\ n >= 2 /\ matrix = [c \in Square |-> matrix[c]]
      /\ Smoothing
  BY <1>1 DEF SonarInv
<1>3. /\ row \in Indices /\ col \in Indices /\ row \in Int /\ col \in Int
      /\ row >= 0 /\ row <= n - 1 /\ col >= 0 /\ col <= n - 1
      /\ \A y, j \in Indices :
           matrix[<<y, j>>] =
             IF y < row \/ (y = row /\ j < col) THEN smoothed(<<y, j>>)
             ELSE rotated[<<y, j>>]
      /\ row > 0 => \A j \in Indices : prevRowCopy[j] = rotated[<<row - 1, j>>]
      /\ col > 0 => \A j \in Indices : currentRowCopy[j] = rotated[<<row, j>>]
  BY <1>2 DEF Smoothing, Indices
<1>4. \A j \in Indices : copy[j] = rotated[<<row, j>>]
  <2>1. CASE col = 0
    <3>1. ASSUME NEW j \in Indices PROVE matrix[<<row, j>>] = rotated[<<row, j>>]
      <4>1. ~(row < row \/ (row = row /\ j < col))
        BY <1>3, <2>1 DEF Indices
      <4> QED BY <1>3, <4>1
    <3> QED BY <2>1, <3>1
  <2>2. CASE col # 0
    BY <1>3, <2>2
  <2> QED BY <2>1, <2>2
<1> HIDE DEF copy
<1>5. x = smoothed(a)
  BY <1>2, <1>4, CellsOfTurned
<1> HIDE DEF x
<1>6. a \in Square
  BY <1>3 DEF Square
<1>7. /\ matrix' = [c \in Square |-> matrix'[c]]
      /\ \A c \in Square : matrix'[c] = IF c = a THEN x ELSE matrix[c]
  <2> HIDE DEF a
  <2> QED BY <1>1, <1>2, <1>6, Set
<1>8. Indices' = Indices /\ Square' = Square /\ rotated' = rotated
  BY <1>1 DEF Indices, Square, rotated
<1>9. \A y, j \in Indices : smoothed(<<y, j>>)' = smoothed(<<y, j>>)
  BY <1>8 DEF smoothed, around
<1>10. ASSUME NEW y \in Indices, NEW j \in Indices
       PROVE  matrix'[<<y, j>>] =
                IF y < row \/ (y = row /\ j <= col) THEN smoothed(<<y, j>>)
                ELSE rotated[<<y, j>>]
  <2>1. <<y, j>> \in Square /\ y \in Int /\ j \in Int
    BY <1>2 DEF Square, Indices
  <2>2. CASE y = row /\ j = col
    <3>1. matrix'[<<y, j>>] = x /\ x = smoothed(<<y, j>>)
      BY <1>5, <1>7, <2>1, <2>2
    <3>2. y = row /\ j <= col
      BY <1>3, <2>2
    <3> QED BY <3>1, <3>2
  <2>3. CASE ~(y = row /\ j = col)
    <3>1. matrix'[<<y, j>>] = matrix[<<y, j>>]
      BY <1>7, <2>1, <2>3
    <3>2. (y < row \/ (y = row /\ j < col)) <=> (y < row \/ (y = row /\ j <= col))
      BY <1>3, <2>1, <2>3
    <3> QED BY <1>3, <3>1, <3>2
  <2> QED BY <2>2, <2>3
<1>11. CASE /\ col < n - 1
            /\ col' = col + 1 /\ stage' = stage /\ row' = row
            /\ prevRowCopy' = prevRowCopy
  <2>1. ASSUME NEW j \in Indices PROVE j < col + 1 <=> j <= col
    BY <1>3 DEF Indices
  <2>2. row' \in Indices /\ col' \in Indices
    BY <1>2, <1>3, <1>11 DEF Indices
  <2>3. \A y, j \in Indices :
          matrix'[<<y, j>>] =
            IF y < row' \/ (y = row' /\ j < col') THEN smoothed(<<y, j>>)
            ELSE rotated[<<y, j>>]
    BY <1>10, <1>11, <2>1
  <2>4. Smoothing'
    BY <1>1, <1>3, <1>4, <1>8, <1>9, <1>11, <2>2, <2>3 DEF Smoothing
  <2> QED BY <1>1, <1>2, <1>7, <1>8, <1>11, <2>4 DEF SonarInv
<1>12. CASE /\ col = n - 1 /\ row < n - 1
            /\ row' = row + 1 /\ col' = 0 /\ stage' = stage
            /\ prevRowCopy' = copy
  <2>1. ASSUME NEW y \in Indices, NEW j \in Indices
        PROVE  (y < row + 1 \/ (y = row + 1 /\ j < 0))
               <=> (y < row \/ (y = row /\ j <= col))
    BY <1>3, <1>12 DEF Indices
  <2>2. row' \in Indices /\ col' \in Indices
    BY <1>2, <1>3, <1>12 DEF Indices
  <2>3. \A y, j \in Indices :
          matrix'[<<y, j>>] =
            IF y < row' \/ (y = row' /\ j < col') THEN smoothed(<<y, j>>)
            ELSE rotated[<<y, j>>]
    BY <1>10, <1>12, <2>1
  <2>4. \A j \in Indices : prevRowCopy'[j] = rotated[<<row' - 1, j>>]
    <3>1. row' - 1 = row
      BY <1>3, <1>12
    <3> QED BY <1>4, <1>12, <3>1
  <2>5. ~(col' > 0)
    BY <1>12
  <2>6. Smoothing'
    BY <1>8, <1>9, <2>2, <2>3, <2>4, <2>5 DEF Smoothing
  <2> QED BY <1>1, <1>2, <1>7, <1>8, <1>12, <2>6 DEF SonarInv
<1>13. CASE col = n - 1 /\ row = n - 1 /\ stage' = "done"
  <2>1. ASSUME NEW y \in Indices, NEW j \in Indices
        PROVE  matrix'[<<y, j>>] = smoothed(<<y, j>>)
    <3>1. y < row \/ (y = row /\ j <= col)
      BY <1>2, <1>13 DEF Indices
    <3> QED BY <1>10, <3>1
  <2>2. Smooth'
    <3>1. \A y, j \in Indices : matrix'[<<y, j>>] = smoothed(<<y, j>>)'
      BY <1>9, <2>1
    <3> QED BY <1>8, <3>1 DEF Smooth
  <2> QED BY <1>1, <1>2, <1>7, <1>8, <1>13, <2>2 DEF SonarInv
<1> QED BY <1>1, <1>11, <1>12, <1>13

LEMMA SonarStep ==
    SonarInv /\ [SonarNext]_imageVars => SonarInv'
<1> SUFFICES ASSUME SonarInv, [SonarNext]_imageVars PROVE SonarInv'
  OBVIOUS
<1>1. ASSUME NEW size \in Sizes, NEW m \in Generated, generateMatrix(size, m)
      PROVE  SonarInv'
  BY <1>1, StepGenerate
<1>2. CASE transposeCell
  BY <1>2, StepTranspose
<1>3. CASE mirrorCell
  BY <1>3, StepMirror
<1>4. CASE smoothCell
  BY <1>4, StepSmooth
<1>5. CASE UNCHANGED imageVars
  <2>1. /\ stage' = stage /\ n' = n /\ matrix' = matrix /\ row' = row /\ col' = col
        /\ prevRowCopy' = prevRowCopy /\ currentRowCopy' = currentRowCopy
        /\ picture' = picture
    BY <1>5 DEF imageVars
  <2>2. Indices' = Indices /\ Square' = Square /\ rotated' = rotated
    BY <2>1 DEF Indices, Square, rotated
  <2>3. \A y, j \in Indices : smoothed(<<y, j>>)' = smoothed(<<y, j>>)
    BY <2>2 DEF smoothed, around
  <2>4. Transposing' <=> Transposing
    BY <2>1, <2>2 DEF Transposing
  <2>5. Mirroring' <=> Mirroring
    BY <2>1, <2>2 DEF Mirroring
  <2>6. Smoothing => Smoothing'
    BY <2>1, <2>2, <2>3 DEF Smoothing
  <2>7. Smooth => Smooth'
    BY <2>1, <2>2, <2>3 DEF Smooth
  <2> QED BY <2>1, <2>2, <2>4, <2>5, <2>6, <2>7 DEF SonarInv
<1> QED BY <1>1, <1>2, <1>3, <1>4, <1>5 DEF SonarNext

LEMMA InvTurns ==
    SonarInv => TurnedAndSmoothed
<1> SUFFICES ASSUME SonarInv PROVE TurnedAndSmoothed
  OBVIOUS
<1>1. ASSUME stage = "smooth", row = 0, col = 0 PROVE matrix = rotated
  <2>1. /\ n \in Nat /\ matrix = [c \in Square |-> matrix[c]]
        /\ \A y, j \in Indices :
             matrix[<<y, j>>] =
               IF y < row \/ (y = row /\ j < col) THEN smoothed(<<y, j>>)
               ELSE rotated[<<y, j>>]
    BY <1>1 DEF SonarInv, Smoothing
  <2>2. \A y, j \in Indices : ~(y < row \/ (y = row /\ j < col))
    BY <1>1, <2>1 DEF Indices
  <2>3. \A c \in Square : matrix[c] = rotated[c]
    BY <2>1, <2>2 DEF Square
  <2>4. rotated = [c \in Square |-> rotated[c]]
    BY DEF rotated, Square
  <2> QED BY <2>1, <2>3, <2>4
<1>2. ASSUME stage = "done"
      PROVE  matrix = [c \in Indices \X Indices |->
                         mean([d \in around(c[1], c[2]) |-> rotated[d]])]
  <2>1. /\ matrix = [c \in Square |-> matrix[c]]
        /\ \A y, j \in Indices : matrix[<<y, j>>] = smoothed(<<y, j>>)
    BY <1>2 DEF SonarInv, Smooth
  <2>2. \A c \in Square : matrix[c] = smoothed(c)
    BY <2>1 DEF Square
  <2>3. matrix = [c \in Square |-> smoothed(c)]
    BY <2>1, <2>2
  <2> QED BY <2>3 DEF Square, smoothed
<1> QED BY <1>1, <1>2 DEF TurnedAndSmoothed

\* The two passes of swaps, in place, turn the matrix clockwise by 90 degrees, and the
\* filter, in place too, computes with the turned matrix only: no cell is the mean of
\* cells that were smoothed before it.
THEOREM TurnedCorrect == SonarSpec => []TurnedAndSmoothed
<1>1. SonarInit => SonarInv
  BY DEF SonarInit, SonarInv
<1> QED BY <1>1, SonarStep, InvTurns, PTL DEF SonarSpec

-----------------------------------------------------------------------------
(* The student report.                                                       *)

Entry(l) == [rollNo |-> l.roll, name |-> tempName(l), marks |-> tempMarks(l)]
Entries == {Entry(l) : l \in Typed}

\* A line is accepted when it is readable and its roll number is new.
LEMMA Accepting ==
    ASSUME NEW l \in Typed
    PROVE  /\ accepted(l) <=> readable(l) /\ isRollNoUnique(l.roll)
           /\ readable(l) =>
                /\ Len(l.numbers) >= 3 /\ l.numbers \in Seq(Int)
                /\ tempMarks(l)[1] = magnitude(l.numbers[1])
                /\ tempMarks(l)[2] = l.numbers[2] /\ tempMarks(l)[3] = l.numbers[3]
                /\ negative(l) = (l.numbers[1] < 0)
<1> DEFINE q == l.numbers
           T == {NUM_SUBJECTS, Len(q)}
           r == Min(T)
<1>1. q \in Seq(Int) /\ Len(q) \in Nat /\ (l.roll \in Int \/ l.roll = NoNumber)
  BY ReportAssumption, LenProperties
<1>2. r \in {3, Len(q)} /\ r <= 3 /\ r <= Len(q)
  <2> DEFINE top == 3 + Len(q)
  <2>1. T \subseteq 0 .. top /\ T # {} /\ 0 \in Int /\ top \in Int
    BY <1>1 DEF NUM_SUBJECTS
  <2>2. 3 \in T /\ Len(q) \in T /\ \A x \in T : x = 3 \/ x = Len(q)
    BY DEF NUM_SUBJECTS
  <2> HIDE DEF T, top
  <2>3. r \in T /\ \A y \in T : r <= y
    BY <2>1, MinMax
  <2> QED BY <2>2, <2>3
<1>3. tempMarks(l) = [c \in 1 .. r |-> IF c = 1 /\ negative(l) THEN -q[1] ELSE q[c]]
  BY DEF tempMarks
<1> HIDE DEF r, T
<1>4. r \in Nat
  BY <1>1, <1>2
<1>5. Len(tempMarks(l)) = r
  BY <1>3, <1>4
<1>6. r = 3 <=> Len(q) >= 3
  BY <1>1, <1>2
<1>7. ASSUME Len(q) >= 3
      PROVE  /\ tempMarks(l)[1] = magnitude(q[1]) /\ tempMarks(l)[2] = q[2] /\ tempMarks(l)[3] = q[3]
             /\ negative(l) = (q[1] < 0)
             /\ q[1] \in Int /\ q[2] \in Int /\ q[3] \in Int
  <2>1. q # <<>> /\ q[1] \in Int /\ q[2] \in Int /\ q[3] \in Int
    <3>1. 1 \in 1 .. Len(q) /\ 2 \in 1 .. Len(q) /\ 3 \in 1 .. Len(q)
      BY <1>1, <1>7
    <3>2. q[1] \in Int /\ q[2] \in Int /\ q[3] \in Int
      BY <1>1, <3>1, ElementOfSeq
    <3>3. q # <<>>
      BY <1>7
    <3> QED BY <3>2, <3>3
  <2>2. negative(l) <=> q[1] < 0
    BY <2>1 DEF negative
  <2>3. 1 \in 1 .. r /\ 2 \in 1 .. r /\ 3 \in 1 .. r
    BY <1>6, <1>7
  <2>4. tempMarks(l)[1] = (IF negative(l) THEN -q[1] ELSE q[1])
    BY <1>3, <2>3
  <2>5. tempMarks(l)[2] = q[2] /\ tempMarks(l)[3] = q[3]
    BY <1>3, <2>3
  <2>6. negative(l) \in BOOLEAN /\ (q[1] < 0) \in BOOLEAN
    BY DEF negative
  <2>7. negative(l) = (q[1] < 0)
    BY <2>2, <2>6
  <2> QED BY <2>1, <2>2, <2>4, <2>5, <2>7 DEF magnitude
<1>8. accepted(l) <=>
        /\ l.roll # NoNumber /\ ~(l.text = "" /\ ~negative(l))
        /\ r = 3 /\ l.roll > 0 /\ isRollNoUnique(l.roll)
        /\ \A c \in 1 .. 3 : tempMarks(l)[c] \in 0 .. 100
  <2>1. CASE l.roll = NoNumber
    <3>1. initialParse(l) = 0
      BY <2>1 DEF initialParse
    <3> QED BY <2>1, <3>1 DEF accepted
  <2>2. CASE l.roll # NoNumber /\ l.text = "" /\ ~negative(l)
    <3>1. initialParse(l) = 1
      BY <2>2 DEF initialParse
    <3>2. ~accepted(l)
      BY <3>1 DEF accepted
    <3> QED BY <2>2, <3>2
  <2>3. CASE l.roll # NoNumber /\ ~(l.text = "" /\ ~negative(l))
    <3>1. initialParse(l) = 2
      BY <2>3 DEF initialParse
    <3> QED BY <1>5, <2>3, <3>1 DEF accepted, NUM_SUBJECTS
  <2> QED BY <2>1, <2>2, <2>3
<1>9. (\A c \in 1 .. 3 : tempMarks(l)[c] \in 0 .. 100)
        <=> /\ tempMarks(l)[1] \in 0 .. 100 /\ tempMarks(l)[2] \in 0 .. 100
            /\ tempMarks(l)[3] \in 0 .. 100
  <2>1. \A c \in 1 .. 3 : c = 1 \/ c = 2 \/ c = 3
    OBVIOUS
  <2>2. 1 \in 1 .. 3 /\ 2 \in 1 .. 3 /\ 3 \in 1 .. 3
    OBVIOUS
  <2> QED BY <2>1, <2>2
<1>10. \A m \in Int : magnitude(m) \in 0 .. 100 <=> m \in -100 .. 100
  BY DEF magnitude
<1>11. readable(l) <=> /\ l.roll # NoNumber /\ l.roll > 0 /\ Len(q) >= 3
                       /\ l.text # "" \/ q[1] < 0
                       /\ q[1] \in -100 .. 100 /\ q[2] \in 0 .. 100 /\ q[3] \in 0 .. 100
  BY DEF readable, NUM_SUBJECTS
<1>12. CASE Len(q) >= 3
  <2> HIDE DEF q
  <2>1. accepted(l) <=> /\ l.roll # NoNumber /\ ~(l.text = "" /\ ~(q[1] < 0))
                        /\ l.roll > 0 /\ isRollNoUnique(l.roll)
                        /\ q[1] \in -100 .. 100 /\ q[2] \in 0 .. 100 /\ q[3] \in 0 .. 100
    BY <1>6, <1>7, <1>8, <1>9, <1>10, <1>12
  <2>2. accepted(l) <=> readable(l) /\ isRollNoUnique(l.roll)
    BY <1>11, <1>12, <2>1
  <2> QED BY <1>1, <1>7, <1>12, <2>2 DEF q
<1>13. CASE ~(Len(q) >= 3)
  BY <1>6, <1>8, <1>11, <1>13
<1> QED BY <1>12, <1>13

\* The first readable line with a roll number.
firstLine(r, m) ==
    /\ m \in DOMAIN typed /\ readable(typed[m]) /\ typed[m].roll = r
    /\ \A j \in 1 .. m - 1 : ~(readable(typed[j]) /\ typed[j].roll = r)

\* The students are those of the first readable lines, each once.
Reading ==
    /\ \A k \in DOMAIN students :
         \E m \in DOMAIN typed : firstLine(students[k].rollNo, m) /\ students[k] = Entry(typed[m])
    /\ \A m \in DOMAIN typed : readable(typed[m]) =>
         \E k \in DOMAIN students : students[k].rollNo = typed[m].roll
    /\ \A j, k \in DOMAIN students : students[j].rollNo = students[k].rollNo => j = k

ReportInv ==
    /\ phase \in {"start", "reading", "done", "failed"}
    /\ numStudents \in Nat /\ typed \in Seq(Typed)
    /\ phase # "done" => students \in Seq(Entries) /\ Reading
    /\ ReportOfFirstLines

LEMMA ReportStart ==
    ASSUME ReportInit PROVE ReportInv
<1>1. /\ phase = "start" /\ numStudents = 0 /\ students = <<>> /\ typed = <<>>
  BY DEF ReportInit
<1>2. DOMAIN students = {} /\ DOMAIN typed = {} /\ students \in Seq(Entries) /\ typed \in Seq(Typed)
  BY <1>1
<1>3. Reading
  BY <1>2 DEF Reading
<1> QED BY <1>1, <1>2, <1>3 DEF ReportInv, ReportOfFirstLines

LEMMA ReadStudentKeeps ==
    ASSUME ReportInv, NEW l \in Typed, readStudent(l) PROVE ReportInv'
<1>1. /\ phase = "reading" /\ typed' = Append(typed, l)
      /\ students' = IF accepted(l) THEN Append(students, Entry(l)) ELSE students
      /\ UNCHANGED <<phase, numStudents, report>>
  BY DEF readStudent, Entry
<1>2. students \in Seq(Entries) /\ typed \in Seq(Typed) /\ numStudents \in Nat /\ Reading
  BY <1>1 DEF ReportInv
<1>3. /\ Len(students) \in Nat /\ DOMAIN students = 1 .. Len(students)
      /\ Len(typed) \in Nat /\ DOMAIN typed = 1 .. Len(typed)
  BY <1>2, LenProperties
<1> DEFINE M == Len(typed)
           N == Len(students)
<1>4. /\ typed' \in Seq(Typed) /\ DOMAIN typed' = 1 .. M + 1 /\ typed'[M + 1] = l
      /\ \A m \in 1 .. M : typed'[m] = typed[m]
  <2>1. /\ typed' \in Seq(Typed) /\ Len(typed') = M + 1 /\ typed'[M + 1] = l
        /\ \A m \in 1 .. M : typed'[m] = typed[m]
    BY <1>1, <1>2, AppendProperties
  <2> QED BY <2>1, LenProperties
<1>5. \A r, m : firstLine(r, m) => m \in 1 .. M /\ m \in 1 .. M + 1 /\ firstLine(r, m)'
  <2> SUFFICES ASSUME NEW r, NEW m, firstLine(r, m)
               PROVE  m \in 1 .. M /\ m \in 1 .. M + 1 /\ firstLine(r, m)'
    OBVIOUS
  <2>1. m \in 1 .. M /\ m \in 1 .. M + 1 /\ \A j \in 1 .. m - 1 : j \in 1 .. M
    BY <1>3 DEF firstLine
  <2>2. /\ typed'[m] = typed[m] /\ \A j \in 1 .. m - 1 : typed'[j] = typed[j]
    BY <1>4, <2>1
  <2>3. \A x : readable(x)' <=> readable(x)
    BY DEF readable
  <2> QED BY <1>4, <2>1, <2>2 DEF firstLine, readable
<1>6. CASE accepted(l)
  <2>1. Entry(l) \in Entries
    BY DEF Entries
  <2>2. /\ students' \in Seq(Entries) /\ Len(students') = N + 1 /\ students'[N + 1] = Entry(l)
        /\ \A k \in 1 .. N : students'[k] = students[k]
    BY <1>1, <1>2, <1>6, <2>1, AppendProperties
  <2>3. DOMAIN students' = 1 .. N + 1
    BY <2>2, LenProperties
  <2>4. readable(l) /\ isRollNoUnique(l.roll) /\ Entry(l).rollNo = l.roll
    BY <1>6, Accepting DEF Entry
  <2>5. \A k \in 1 .. N : students[k].rollNo # l.roll
    BY <1>3, <2>4 DEF isRollNoUnique
  <2>6. \A m \in 1 .. M : ~(readable(typed[m]) /\ typed[m].roll = l.roll)
    BY <1>2, <1>3, <2>5 DEF Reading
  <2>7. ASSUME NEW k \in DOMAIN students'
        PROVE  \E m \in DOMAIN typed' :
                 firstLine(students[k].rollNo, m)' /\ students'[k] = Entry(typed'[m])
    <3>1. CASE k \in 1 .. N
      <4>1. PICK m \in DOMAIN typed : firstLine(students[k].rollNo, m) /\ students[k] = Entry(typed[m])
        BY <1>2, <1>3, <3>1 DEF Reading
      <4>2. m \in 1 .. M /\ m \in DOMAIN typed' /\ typed'[m] = typed[m] /\ students'[k] = students[k]
        BY <1>3, <1>4, <1>5, <2>2, <3>1, <4>1
      <4> DEFINE r == students[k].rollNo
      <4>3. firstLine(r, m)
        BY <4>1
      <4> HIDE DEF r
      <4>4. m \in DOMAIN typed' /\ readable(typed'[m]) /\ typed'[m].roll = r
            /\ \A j \in 1 .. m - 1 : ~(readable(typed'[j]) /\ typed'[j].roll = r)
        <5>1. \A j \in 1 .. m - 1 : typed'[j] = typed[j]
          BY <1>3, <1>4, <4>2
        <5> QED BY <4>2, <4>3, <5>1 DEF firstLine
      <4>5. students'[k].rollNo = r
        BY <4>2 DEF r
      <4> QED BY <4>1, <4>2, <4>4, <4>5 DEF firstLine, readable
    <3>2. CASE k = N + 1
      <4>1. M + 1 \in DOMAIN typed' /\ typed'[M + 1] = l /\ students'[k] = Entry(l)
        BY <1>3, <1>4, <2>2, <3>2
      <4>2. \A j \in 1 .. (M + 1) - 1 : ~(readable(typed'[j]) /\ typed'[j].roll = l.roll)
        BY <1>3, <1>4, <2>6
      <4>3. students'[k].rollNo = l.roll
        BY <2>4, <4>1
      <4> QED BY <2>4, <4>1, <4>2, <4>3 DEF firstLine, readable
    <3> QED BY <1>3, <2>3, <3>1, <3>2
  <2>8. ASSUME NEW m \in DOMAIN typed', readable(typed'[m])
        PROVE  \E k \in DOMAIN students' : students'[k].rollNo = typed'[m].roll
    <3>1. CASE m \in 1 .. M
      <4>1. PICK k \in DOMAIN students : students[k].rollNo = typed[m].roll
        BY <1>2, <1>3, <1>4, <2>8, <3>1 DEF Reading
      <4>2. k \in DOMAIN students' /\ students'[k] = students[k] /\ typed'[m] = typed[m]
        BY <1>3, <1>4, <2>2, <2>3, <3>1, <4>1
      <4> QED BY <4>1, <4>2
    <3>2. CASE m = M + 1
      <4>1. N + 1 \in DOMAIN students'
        BY <1>3, <2>3
      <4> QED BY <1>4, <2>2, <2>4, <3>2, <4>1
    <3> QED BY <1>3, <1>4, <3>1, <3>2
  <2>9. ASSUME NEW j \in DOMAIN students', NEW k \in DOMAIN students',
               students'[j].rollNo = students'[k].rollNo
        PROVE  j = k
    <3>1. (j \in 1 .. N \/ j = N + 1) /\ (k \in 1 .. N \/ k = N + 1)
      BY <1>3, <2>3
    <3>2. CASE j \in 1 .. N /\ k \in 1 .. N
      BY <1>2, <1>3, <2>2, <2>9, <3>2 DEF Reading
    <3>3. CASE j = N + 1 /\ k \in 1 .. N
      BY <2>2, <2>4, <2>5, <2>9, <3>3
    <3>4. CASE k = N + 1 /\ j \in 1 .. N
      BY <2>2, <2>4, <2>5, <2>9, <3>4
    <3> QED BY <3>1, <3>2, <3>3, <3>4
  <2>10. Reading'
    BY <2>7, <2>8, <2>9 DEF Reading
  <2> QED BY <1>1, <1>2, <1>4, <2>2, <2>10 DEF ReportInv, ReportOfFirstLines
<1>7. CASE ~accepted(l)
  <2>1. students' = students
    BY <1>1, <1>7
  <2>2. readable(l) => \E k \in DOMAIN students : students[k].rollNo = l.roll
    BY <1>7, Accepting DEF isRollNoUnique
  <2>3. ASSUME NEW k \in DOMAIN students'
        PROVE  \E m \in DOMAIN typed' :
                 firstLine(students[k].rollNo, m)' /\ students'[k] = Entry(typed'[m])
    <3>1. PICK m \in DOMAIN typed : firstLine(students[k].rollNo, m) /\ students[k] = Entry(typed[m])
      BY <1>2, <2>1 DEF Reading
    <3> DEFINE r == students[k].rollNo
    <3>2. firstLine(r, m) /\ students'[k].rollNo = r
      BY <2>1, <3>1
    <3> HIDE DEF r
    <3>3. m \in 1 .. M /\ m \in DOMAIN typed' /\ typed'[m] = typed[m]
          /\ \A j \in 1 .. m - 1 : typed'[j] = typed[j]
      BY <1>3, <1>4, <3>1
    <3>4. readable(typed'[m]) /\ typed'[m].roll = r
          /\ \A j \in 1 .. m - 1 : ~(readable(typed'[j]) /\ typed'[j].roll = r)
      BY <3>2, <3>3 DEF firstLine
    <3> QED BY <2>1, <3>1, <3>2, <3>3, <3>4 DEF firstLine, readable
  <2>4. ASSUME NEW m \in DOMAIN typed', readable(typed'[m])
        PROVE  \E k \in DOMAIN students' : students'[k].rollNo = typed'[m].roll
    <3>1. CASE m \in 1 .. M
      BY <1>2, <1>3, <1>4, <2>1, <2>4, <3>1 DEF Reading
    <3>2. CASE m = M + 1
      BY <1>4, <2>1, <2>2, <2>4, <3>2
    <3> QED BY <1>3, <1>4, <3>1, <3>2
  <2>5. \A j, k \in DOMAIN students' : students'[j].rollNo = students'[k].rollNo => j = k
    BY <1>2, <2>1 DEF Reading
  <2>6. Reading'
    BY <2>3, <2>4, <2>5 DEF Reading
  <2> QED BY <1>1, <1>2, <1>4, <2>1, <2>6 DEF ReportInv, ReportOfFirstLines
<1> QED BY <1>6, <1>7

\* The first line of a roll is the least number of such a line.
LEMMA FirstIsLeast ==
    ASSUME typed \in Seq(Typed), NEW r, NEW m, firstLine(r, m)
    PROVE  Min({j \in DOMAIN typed : readable(typed[j]) /\ typed[j].roll = r}) = m
<1> DEFINE T == {j \in DOMAIN typed : readable(typed[j]) /\ typed[j].roll = r}
<1>1. Len(typed) \in Nat /\ DOMAIN typed = 1 .. Len(typed)
  BY LenProperties
<1>2. m \in T /\ T \subseteq 1 .. Len(typed) /\ 1 \in Int /\ Len(typed) \in Int
  BY <1>1 DEF firstLine
<1>3. \A j \in 1 .. m - 1 : j \notin T
  BY DEF firstLine
<1> HIDE DEF T
<1>4. Min(T) \in T /\ Min(T) <= m
  <2>1. T # {}
    BY <1>2
  <2> QED BY <1>2, <2>1, MinMax
<1>5. m \in Int /\ Min(T) \in Int /\ Min(T) >= 1
  <2>1. m \in 1 .. Len(typed) /\ Min(T) \in 1 .. Len(typed)
    BY <1>2, <1>4
  <2> QED BY <1>1, <2>1
<1>6. Min(T) = m
  BY <1>3, <1>4, <1>5
<1> QED BY <1>6 DEF T

\* The row of a student, and what it says of the line it comes from.
rowOf(s) ==
    LET total == s.marks[1] + s.marks[2] + s.marks[3]
        grade == assignGrade(total)
    IN  [rollNo |-> s.rollNo, name |-> s.name, total |-> total,
         grade |-> grade, stars |-> starCount(grade)]

saysOf(printed, l) ==
    /\ printed.name = [text |-> l.text, dash |-> l.numbers[1] < 0]
    /\ printed.total = magnitude(l.numbers[1]) + l.numbers[2] + l.numbers[3]
    /\ printed.total >= 3 * ThresholdOf(printed.grade)
    /\ printed.stars < 5 =>
         \A g \in {"A", "B", "C", "D"} :
            printed.total >= 3 * ThresholdOf(g) => printed.stars >= starCount(g)

\* Grades and stars agree with the thresholds.
LEMMA GradesAndStars ==
    ASSUME NEW total \in Nat
    PROVE  /\ total >= 3 * ThresholdOf(assignGrade(total))
           /\ \A g \in {"A", "B", "C", "D"} :
                 total >= 3 * ThresholdOf(g) => starCount(assignGrade(total)) >= starCount(g)
<1>1. /\ ThresholdOf("A") = 85 /\ ThresholdOf("B") = 70 /\ ThresholdOf("C") = 50
      /\ ThresholdOf("D") = 35 /\ ThresholdOf("F") = 0
  BY DEF ThresholdOf
<1>2. /\ starCount("A") = 5 /\ starCount("B") = 4 /\ starCount("C") = 3
      /\ starCount("D") = 2 /\ starCount("F") = 0
  BY DEF starCount
<1>3. CASE total >= 255
  <2>1. assignGrade(total) = "A"
    BY <1>3 DEF assignGrade
  <2> QED BY <1>1, <1>2, <1>3, <2>1
<1>4. CASE total >= 210 /\ total < 255
  <2>1. assignGrade(total) = "B"
    BY <1>4 DEF assignGrade
  <2> QED BY <1>1, <1>2, <1>4, <2>1
<1>5. CASE total >= 150 /\ total < 210
  <2>1. assignGrade(total) = "C"
    BY <1>5 DEF assignGrade
  <2> QED BY <1>1, <1>2, <1>5, <2>1
<1>6. CASE total >= 105 /\ total < 150
  <2>1. assignGrade(total) = "D"
    BY <1>6 DEF assignGrade
  <2> QED BY <1>1, <1>2, <1>6, <2>1
<1>7. CASE total < 105
  <2>1. assignGrade(total) = "F"
    BY <1>7 DEF assignGrade
  <2> QED BY <1>1, <1>2, <1>7, <2>1
<1> QED BY <1>3, <1>4, <1>5, <1>6, <1>7

LEMMA RowSaysTheLine ==
    ASSUME NEW l \in Typed, readable(l)
    PROVE  saysOf(rowOf(Entry(l)), l)
<1> DEFINE q == l.numbers
           total == tempMarks(l)[1] + tempMarks(l)[2] + tempMarks(l)[3]
<1>1. /\ Len(q) >= 3 /\ q \in Seq(Int)
      /\ tempMarks(l)[1] = magnitude(q[1]) /\ tempMarks(l)[2] = q[2] /\ tempMarks(l)[3] = q[3]
      /\ negative(l) = (q[1] < 0)
  BY Accepting
<1>2. /\ q[1] \in -100 .. 100 /\ q[2] \in 0 .. 100 /\ q[3] \in 0 .. 100
  BY DEF readable
<1>3. magnitude(q[1]) \in Nat
  BY <1>2 DEF magnitude
<1>4. total = magnitude(q[1]) + q[2] + q[3] /\ total \in Nat
  <2>1. total = magnitude(q[1]) + q[2] + q[3]
    BY <1>1
  <2>2. q[2] \in Nat /\ q[3] \in Nat
    BY <1>2
  <2> HIDE DEF total
  <2> QED BY <1>3, <2>1, <2>2
<1>5. rowOf(Entry(l)) = [rollNo |-> l.roll, name |-> tempName(l), total |-> total,
                         grade |-> assignGrade(total), stars |-> starCount(assignGrade(total))]
  BY DEF rowOf, Entry
<1>6. tempName(l) = [text |-> l.text, dash |-> q[1] < 0]
  BY <1>1 DEF tempName
<1> HIDE DEF total
<1>7. /\ total >= 3 * ThresholdOf(assignGrade(total))
      /\ \A g \in {"A", "B", "C", "D"} :
            total >= 3 * ThresholdOf(g) => starCount(assignGrade(total)) >= starCount(g)
  BY <1>4, GradesAndStars
<1> QED BY <1>4, <1>5, <1>6, <1>7 DEF saysOf

\* What a student of the array is, by where it was read.
LEMMA StudentIsALine ==
    ASSUME typed \in Seq(Typed), Reading, NEW k \in DOMAIN students
    PROVE  /\ students[k].rollNo \in Int
           /\ saysOf(rowOf(students[k]),
                     typed[Min({m \in DOMAIN typed : readable(typed[m])
                                                  /\ typed[m].roll = students[k].rollNo})])
<1>1. PICK m \in DOMAIN typed : firstLine(students[k].rollNo, m) /\ students[k] = Entry(typed[m])
  BY DEF Reading
<1>2. typed[m] \in Typed /\ readable(typed[m]) /\ typed[m].roll = students[k].rollNo
  BY <1>1 DEF firstLine
<1>3. saysOf(rowOf(students[k]), typed[m])
  BY <1>1, <1>2, RowSaysTheLine
<1>4. students[k].rollNo \in Int
  BY <1>2, ReportAssumption DEF readable
<1>5. Min({j \in DOMAIN typed : readable(typed[j]) /\ typed[j].roll = students[k].rollNo}) = m
  BY <1>1, FirstIsLeast
<1> QED BY <1>3, <1>4, <1>5

LEMMA SortAndReportKeeps ==
    ASSUME ReportInv, sortAndReport PROVE ReportInv'
<1> DEFINE N == Len(students)
<1>1. /\ phase = "reading" /\ N = numStudents /\ phase' = "done"
      /\ UNCHANGED <<numStudents, typed>>
  BY DEF sortAndReport
<1>2. PICK order \in sortedOrders : students' = [k \in DOMAIN students |-> students[order[k]]]
  BY DEF sortAndReport
<1>3. students \in Seq(Entries) /\ typed \in Seq(Typed) /\ numStudents \in Nat /\ Reading
  BY <1>1 DEF ReportInv
<1>4. N \in Nat /\ DOMAIN students = 1 .. N
  BY <1>3, LenProperties
<1>5. /\ order \in [1 .. N -> 1 .. N]
      /\ \A j, k \in 1 .. N : order[j] = order[k] => j = k
      /\ \A k \in 1 .. N - 1 : students[order[k]].rollNo - students[order[k + 1]].rollNo <= 0
  BY <1>4 DEF sortedOrders, IsInjective, compareStudentsByRoll
<1>6. report' = [k \in 1 .. N |-> rowOf(students[order[k]])]
  <2>1. report' = displayReport(students')
    BY DEF sortAndReport
  <2>2. DOMAIN students' = 1 .. N /\ \A k \in 1 .. N : students'[k] = students[order[k]]
    BY <1>2, <1>4
  <2>3. displayReport(students') = [k \in DOMAIN students' |-> rowOf(students'[k])]
    BY DEF displayReport, rowOf
  <2> QED BY <2>1, <2>2, <2>3
<1>7. /\ DOMAIN report' = 1 .. N /\ Len(report') = N
      /\ \A k \in 1 .. N : report'[k] = rowOf(students[order[k]])
                        /\ report'[k].rollNo = students[order[k]].rollNo
  <2>1. \A k \in 1 .. N : rowOf(students[order[k]]).rollNo = students[order[k]].rollNo
    BY DEF rowOf
  <2> HIDE DEF N
  <2> QED BY <1>4, <1>6, <2>1
<1>8. ASSUME NEW k \in 1 .. N - 1 PROVE report'[k].rollNo < report'[k + 1].rollNo
  <2> DEFINE a == order[k]
             b == order[k + 1]
  <2>1. k \in 1 .. N /\ k + 1 \in 1 .. N /\ k # k + 1
    BY <1>4
  <2>2. a \in DOMAIN students /\ b \in DOMAIN students /\ a # b
    BY <1>4, <1>5, <2>1
  <2>3. students[a].rollNo \in Int /\ students[b].rollNo \in Int
    BY <1>3, <2>2, StudentIsALine
  <2>4. students[a].rollNo # students[b].rollNo
    BY <1>3, <2>2 DEF Reading
  <2>5. students[a].rollNo - students[b].rollNo <= 0
    BY <1>5
  <2>6. report'[k].rollNo = students[a].rollNo /\ report'[k + 1].rollNo = students[b].rollNo
    BY <1>7, <2>1
  <2> QED BY <2>3, <2>4, <2>5, <2>6
<1>9. ASSUME NEW k \in 1 .. N
      PROVE  saysOf(report'[k], typed[Min({m \in DOMAIN typed : readable(typed[m])
                                                /\ typed[m].roll = report'[k].rollNo})])
  <2>1. order[k] \in DOMAIN students
    BY <1>4, <1>5
  <2> QED BY <1>3, <1>7, <2>1, StudentIsALine
<1>10. ReportOfFirstLines'
  <2>1. typed' = typed /\ numStudents' = N
    BY <1>1
  <2>2. \A k \in DOMAIN report' :
           saysOf(report'[k], typed[Min({m \in DOMAIN typed : readable(typed[m])
                                              /\ typed[m].roll = report'[k].rollNo})])
    BY <1>7, <1>9
  <2>3. Len(report') = numStudents'
        /\ \A k \in 1 .. numStudents' - 1 : report'[k].rollNo < report'[k + 1].rollNo
    BY <1>7, <1>8, <2>1
  <2> QED BY <2>1, <2>2, <2>3 DEF ReportOfFirstLines, saysOf
<1> QED BY <1>1, <1>3, <1>10 DEF ReportInv

LEMMA ReportStep ==
    ASSUME ReportInv, [ReportNext]_studentVars PROVE ReportInv'
<1>1. ASSUME NEW many \in 1 .. MAX_STUDENTS, readNumStudents(many) PROVE ReportInv'
  <2>1. /\ phase = "start" /\ phase' = "reading" /\ numStudents' \in Nat
        /\ UNCHANGED <<students, report, typed>>
    BY <1>1, ReportAssumption DEF readNumStudents
  <2>2. Reading'
    <3>1. Reading
      BY <2>1 DEF ReportInv
    <3> QED BY <2>1, <3>1 DEF Reading, firstLine
  <2> QED BY <2>1, <2>2 DEF ReportInv, ReportOfFirstLines
<1>2. CASE typingEnds
  <2>1. /\ phase = "reading" /\ phase' = "failed"
        /\ UNCHANGED <<numStudents, students, report, typed>>
    BY <1>2 DEF typingEnds
  <2>2. Reading'
    <3>1. Reading
      BY <2>1 DEF ReportInv
    <3> QED BY <2>1, <3>1 DEF Reading, firstLine
  <2> QED BY <2>1, <2>2 DEF ReportInv, ReportOfFirstLines
<1>3. CASE UNCHANGED studentVars
  <2>1. UNCHANGED <<phase, numStudents, students, report, typed>>
    BY <1>3 DEF studentVars
  <2>2. Reading' <=> Reading
    BY <2>1 DEF Reading, firstLine, readable, Entry, tempName, tempMarks, negative
  <2>3. ReportOfFirstLines' <=> ReportOfFirstLines
    BY <2>1 DEF ReportOfFirstLines, readable, magnitude, ThresholdOf, starCount
  <2> QED BY <2>1, <2>2, <2>3 DEF ReportInv
<1> QED BY <1>1, <1>2, <1>3, ReadStudentKeeps, SortAndReportKeeps DEF ReportNext

\* The report has every student once, by rising roll number and as typed in the
\* first readable line with that roll, with a grade and stars that fit the total;
\* in every way that qsort may leave the array sorted.
THEOREM ReportCorrect == ReportSpec => []ReportOfFirstLines
<1>1. ReportInit => ReportInv
  BY ReportStart
<1>2. ReportInv /\ [ReportNext]_studentVars => ReportInv'
  BY ReportStep
<1>3. ReportInv => ReportOfFirstLines
  BY DEF ReportInv
<1> QED BY <1>1, <1>2, <1>3, PTL DEF ReportSpec

-----------------------------------------------------------------------------
(* The inventory.                                                            *)

\* A cell in use or not, as it may look.
Cell == [productId : Int, name : Names \cup {<<>>}, price : Nat, quantity : Nat]

StockShape ==
    /\ products \in Seq(Cell) /\ ProductCount \in 0 .. Len(products)
    /\ minPrice \in Nat
    /\ \A x \in inUse : products[x] \in Goods

StockIds ==
    \A x, j \in inUse : products[x].productId = products[j].productId => x = j

StockPhases ==
    /\ doing = "start" => ProductCount = 0
    /\ doing = "maxPrice" => ProductCount > 0

StockInv == StockShape /\ StockIds /\ StockPhases

LEMMA GoodsAre ==
    ASSUME NEW g \in Goods
    PROVE  /\ g \in Cell /\ g.productId \in Ids /\ g.name \in Names
           /\ g.price \in 0 .. MAX_PRICE /\ g.quantity \in Quantities
           /\ g.productId \in Int /\ g.price \in Nat
           /\ g = Product(g.productId, g.name, g.price, g.quantity)
<1>1. PICK id \in Ids, nm \in Names, p \in 0 .. MAX_PRICE, q \in Quantities :
        g = Product(id, nm, p, q)
  BY DEF Goods
<1>2. id \in Int /\ p \in Nat /\ q \in Nat
  BY InventoryAssumption
<1> QED BY <1>1, <1>2 DEF Product, Cell

LEMMA GoodsMade ==
    ASSUME NEW id \in Ids, NEW nm \in Names, NEW p \in 0 .. MAX_PRICE, NEW q \in Quantities
    PROVE  Product(id, nm, p, q) \in Goods
BY DEF Goods

LEMMA InUse ==
    ASSUME StockShape
    PROVE  /\ productsInUse \in Seq(Cell) /\ Len(productsInUse) = ProductCount
           /\ DOMAIN productsInUse = inUse /\ ProductCount \in Nat
           /\ \A x \in inUse : /\ productsInUse[x] = products[x] /\ products[x] \in Goods
                               /\ x \in 1 .. Len(products)
<1>1. products \in Seq(Cell) /\ ProductCount \in 0 .. Len(products) /\ Len(products) \in Nat
  BY LenProperties DEF StockShape
<1> QED BY <1>1, FirstOf DEF StockShape, productsInUse, inUse

\* The sequence in use is known by its length and its elements.
LEMMA InUseIs ==
    ASSUME StockShape, NEW q \in Seq(Cell), Len(q) = ProductCount,
           \A x \in inUse : q[x] = products[x]
    PROVE  productsInUse = q
BY InUse, SeqEqual DEF inUse

LEMMA Found ==
    ASSUME StockInv, NEW id \in Int
    PROVE  \/ findIndexById(id) = -1 /\ \A k \in inUse : products[k].productId # id
           \/ /\ findIndexById(id) \in inUse /\ findIndexById(id) # -1
              /\ \A k \in inUse : products[k].productId = id <=> k = findIndexById(id)
<1> DEFINE found == {x \in inUse : products[x].productId = id}
<1>1. ProductCount \in Nat /\ found \subseteq 1 .. ProductCount
  BY InUse DEF StockInv, inUse
<1>2. findIndexById(id) = IF found = {} THEN -1 ELSE Min(found)
  BY DEF findIndexById
<1>3. CASE found = {}
  BY <1>2, <1>3
<1>4. CASE found # {}
  <2>1. Min(found) \in found
    <3>1. 1 \in Int /\ ProductCount \in Int
      BY <1>1
    <3> HIDE DEF found
    <3> QED BY <1>1, <1>4, <3>1, MinMax
  <2>2. findIndexById(id) \in found
    BY <1>2, <1>4, <2>1
  <2>3. findIndexById(id) \in 1 .. ProductCount
    BY <1>1, <2>2
  <2>4. findIndexById(id) # -1
    BY <1>1, <2>3
  <2> QED BY <2>2, <2>4 DEF StockInv, StockIds
<1> QED BY <1>3, <1>4

-----------------------------------------------------------------------------
(* The invariant.                                                            *)

LEMMA StockStart == StockInit => StockInv
<1> SUFFICES ASSUME StockInit PROVE StockInv
  OBVIOUS
<1>1. products = <<>> /\ ProductCount = 0 /\ doing = "start" /\ minPrice = 0
  BY DEF StockInit
<1>2. products \in Seq(Cell) /\ Len(products) = 0 /\ inUse = {}
  BY <1>1, EmptySeq DEF inUse
<1> QED BY <1>1, <1>2 DEF StockInv, StockShape, StockIds, StockPhases

\* Cells that realloc added are behind those in use.
LEMMA Room ==
    ASSUME StockShape, NEW room \in withRoom
    PROVE  /\ room \in Seq(Cell) /\ Len(room) >= Len(products)
           /\ Len(room) > ProductCount /\ Len(room) \in Nat
           /\ \A x \in inUse : room[x] = products[x]
<1>1. /\ products \in Seq(Cell) /\ Len(products) \in Nat /\ ProductCount \in 0 .. Len(products)
      /\ \A x \in inUse : x \in 1 .. Len(products)
  BY LenProperties, InUse DEF StockShape
<1>2. CASE ProductCount < ProductCapacity
  <2>1. room = products
    BY <1>2 DEF withRoom
  <2> QED BY <1>1, <1>2, <2>1 DEF ProductCapacity
<1>3. CASE ~(ProductCount < ProductCapacity)
  <2> DEFINE extra == IF ProductCapacity = 0 THEN 1 ELSE ProductCapacity
  <2>1. PICK junk \in Garbage :
          room = products \o [x \in 1 .. extra |-> [zeroes EXCEPT !.productId = junk]]
    BY <1>3 DEF withRoom
  <2>2. [zeroes EXCEPT !.productId = junk] \in Cell
    BY InventoryAssumption DEF zeroes, Product, Cell
  <2>3. extra \in Nat /\ extra > 0
    BY <1>1 DEF ProductCapacity
  <2> DEFINE added == [x \in 1 .. extra |-> [zeroes EXCEPT !.productId = junk]]
  <2> HIDE DEF extra
  <2>4. added \in Seq(Cell) /\ Len(added) = extra
    BY <2>2, <2>3
  <2> HIDE DEF added
  <2>5. room = products \o added
    BY <2>1 DEF added
  <2>6. /\ room \in Seq(Cell) /\ Len(room) = Len(products) + extra
        /\ \A x \in 1 .. Len(products) + extra : room[x] = IF x <= Len(products) THEN products[x]
                                                          ELSE added[x - Len(products)]
    BY <1>1, <2>4, <2>5, ConcatProperties
  <2> QED BY <1>1, <2>3, <2>6
<1> QED BY <1>2, <1>3

LEMMA StockAdds ==
    ASSUME StockInv, NEW p \in Goods, addProduct(p)
    PROVE  StockInv' /\ productsInUse' = Append(productsInUse, p)
<1>1. PICK room \in withRoom : products' = [room EXCEPT ![ProductCount + 1] = p]
  BY DEF addProduct
<1>2. /\ room \in Seq(Cell) /\ Len(room) \in Nat /\ Len(room) > ProductCount
      /\ \A x \in inUse : room[x] = products[x]
  BY Room DEF StockInv
<1>3. /\ ProductCount \in Nat /\ ProductCount' = ProductCount + 1
      /\ UNCHANGED <<doing, minPrice>> /\ adding
      /\ \A x \in inUse : products[x].productId # p.productId
  BY InUse DEF StockInv, addProduct, isIdUnique
<1>4. /\ products' \in Seq(Cell) /\ Len(products') = Len(room)
      /\ products'[ProductCount + 1] = p
      /\ \A x \in inUse : products'[x] = products[x]
  <2>1. p \in Cell
    BY GoodsAre
  <2>2. ProductCount + 1 \in 1 .. Len(room) /\ \A x \in inUse : x # ProductCount + 1 /\ x \in 1 .. Len(room)
    BY <1>2, <1>3 DEF inUse
  <2> QED BY <1>1, <1>2, <2>1, <2>2
<1>5. \A x \in inUse' : x \in inUse \/ x = ProductCount + 1
  BY <1>3 DEF inUse
<1>6. StockShape'
  <2>1. ProductCount' \in 0 .. Len(products')
    BY <1>2, <1>3, <1>4
  <2>2. \A x \in inUse' : products'[x] \in Goods
    BY <1>4, <1>5 DEF StockInv, StockShape
  <2> QED BY <1>3, <1>4, <2>1, <2>2 DEF StockInv, StockShape, Goods
<1>7. StockIds'
  BY <1>3, <1>4, <1>5 DEF StockInv, StockIds
<1>8. StockPhases'
  BY <1>3 DEF StockInv, StockPhases, adding
<1>9. productsInUse' = Append(productsInUse, p)
  <2> DEFINE q == Append(productsInUse, p)
  <2>1. /\ q \in Seq(Cell) /\ Len(q) = ProductCount + 1 /\ q[ProductCount + 1] = p
        /\ \A x \in inUse : q[x] = products[x]
    BY InUse, GoodsAre, AppendProperties DEF StockInv, inUse
  <2> HIDE DEF q
  <2>2. \A x \in inUse' : q[x] = products'[x]
    BY <1>4, <1>5, <2>1
  <2>3. /\ productsInUse' \in Seq(Cell) /\ Len(productsInUse') = ProductCount'
        /\ \A x \in inUse' : productsInUse'[x] = products'[x]
    BY <1>6, <1>2, <1>3, <1>4, FirstOf DEF productsInUse, inUse, StockShape
  <2>4. inUse' = 1 .. ProductCount + 1
    BY <1>3 DEF inUse
  <2>5. productsInUse' = q
    BY <1>3, <2>1, <2>2, <2>3, <2>4, SeqEqual
  <2> QED BY <2>5 DEF q
<1> QED BY <1>6, <1>7, <1>8, <1>9 DEF StockInv

\* The cells are the same, or more have been added behind those in use.
LEMMA StockKept ==
    ASSUME StockInv, StockPhases', UNCHANGED ProductCount, minPrice' \in Nat,
           products' \in Seq(Cell), Len(products') >= Len(products),
           \A x \in inUse : products'[x] = products[x]
    PROVE  StockInv' /\ UNCHANGED productsInUse
<1>1. /\ products \in Seq(Cell) /\ Len(products) \in Nat /\ Len(products') \in Nat
      /\ ProductCount \in 0 .. Len(products)
  BY LenProperties DEF StockInv, StockShape
<1>2. inUse' = inUse /\ ProductCount' \in 0 .. Len(products')
  BY <1>1 DEF inUse
<1>3. StockShape' /\ StockIds'
  BY <1>2 DEF StockInv, StockShape, StockIds, Goods
<1>4. /\ productsInUse' \in Seq(Cell) /\ Len(productsInUse') = ProductCount'
      /\ \A x \in 1 .. ProductCount' : productsInUse'[x] = products'[x]
  BY <1>2, FirstOf DEF productsInUse
<1>5. productsInUse = productsInUse'
  BY <1>4, InUseIs DEF StockInv, inUse
<1> QED BY <1>3, <1>5 DEF StockInv

\* The quantity of the product found changes.
LEMMA StockUpdates ==
    ASSUME StockInv, NEW id \in Int, NEW q \in Quantities, updateQuantity(id, q)
    PROVE  /\ StockInv'
           /\ \E p \in Goods :
                productsInUse' = [k \in DOMAIN productsInUse |->
                    IF productsInUse[k].productId = p.productId
                    THEN [productsInUse[k] EXCEPT !.quantity = p.quantity]
                    ELSE productsInUse[k]]
<1> DEFINE x == findIndexById(id)
           p == [products[x] EXCEPT !.quantity = q]
<1>1. /\ x \in inUse /\ products' = [products EXCEPT ![x].quantity = q]
      /\ UNCHANGED <<ProductCount, doing, minPrice>>
      /\ \A k \in inUse : products[k].productId = id <=> k = x
  BY Found DEF updateQuantity, command
<1> HIDE DEF x
<1>2. /\ products[x] \in Goods /\ products \in Seq(Cell) /\ x \in 1 .. Len(products)
      /\ \A k \in inUse : products[k] \in Goods /\ k \in 1 .. Len(products)
  BY <1>1, InUse DEF StockInv, StockShape
<1>3. p \in Goods /\ p.productId = products[x].productId /\ p.quantity = q
  <2>1. PICK d \in Ids, nm \in Names, c \in 0 .. MAX_PRICE, q0 \in Quantities :
          products[x] = Product(d, nm, c, q0)
    BY <1>2 DEF Goods
  <2>2. p = Product(d, nm, c, q)
    BY <2>1 DEF Product
  <2> QED BY <2>1, <2>2, GoodsMade DEF Product
<1>4. /\ products' \in Seq(Cell) /\ Len(products') = Len(products)
      /\ \A k \in 1 .. Len(products) : products'[k] = IF k = x THEN p ELSE products[k]
  <2>1. p \in Cell /\ products' = [products EXCEPT ![x] = p]
    BY <1>1, <1>3, GoodsAre
  <2> HIDE DEF p
  <2> QED BY <1>2, <2>1
<1>5. inUse' = inUse /\ Len(products) \in Nat /\ ProductCount \in 0 .. Len(products)
  BY <1>1, <1>2, LenProperties DEF inUse, StockInv, StockShape
<1> HIDE DEF p
<1>6. \A k \in inUse : products'[k] \in Goods /\ products'[k].productId = products[k].productId
  BY <1>2, <1>3, <1>4
<1>7. StockInv'
  <2>1. StockShape'
    BY <1>1, <1>4, <1>5, <1>6 DEF StockInv, StockShape, Goods
  <2>2. StockIds'
    BY <1>5, <1>6 DEF StockInv, StockIds
  <2>3. StockPhases'
    BY <1>1 DEF StockInv, StockPhases
  <2> QED BY <2>1, <2>2, <2>3 DEF StockInv
<1> DEFINE changed(u) == [k \in DOMAIN u |-> IF u[k].productId = p.productId
                                       THEN [u[k] EXCEPT !.quantity = p.quantity] ELSE u[k]]
<1>8. /\ productsInUse' \in Seq(Cell) /\ Len(productsInUse') = ProductCount
      /\ \A k \in inUse : productsInUse'[k] = products'[k]
  <2>1. /\ productsInUse' \in Seq(Cell) /\ Len(productsInUse') = ProductCount'
        /\ \A k \in 1 .. ProductCount' : productsInUse'[k] = products'[k]
    <3>1. ProductCount' \in 0 .. Len(products')
      BY <1>1, <1>4, <1>5
    <3> QED BY <1>4, <3>1, FirstOf DEF productsInUse
  <2> QED BY <1>1, <2>1 DEF inUse
<1>9. /\ DOMAIN productsInUse = inUse /\ DOMAIN productsInUse' = inUse
      /\ \A k \in inUse : productsInUse[k] = products[k]
      /\ productsInUse' = [k \in inUse |-> productsInUse'[k]]
  BY <1>8, InUse, LenProperties DEF StockInv, inUse
<1>10. ASSUME NEW k \in inUse PROVE productsInUse'[k] = changed(productsInUse)[k]
  <2>1. products[k].productId = p.productId <=> k = x
    BY <1>1, <1>3
  <2>2. productsInUse'[k] = IF k = x THEN p ELSE products[k]
    BY <1>2, <1>4, <1>8
  <2>3. k = x => [products[k] EXCEPT !.quantity = p.quantity] = p
    BY <1>3 DEF p
  <2> QED BY <1>9, <2>1, <2>2, <2>3
<1>11. productsInUse' = changed(productsInUse)
  BY <1>9, <1>10
<1> QED BY <1>3, <1>7, <1>11

\* The product found is taken out.
LEMMA StockDeletes ==
    ASSUME StockInv, NEW id \in Int, deleteProduct(id)
    PROVE  /\ StockInv'
           /\ productsInUse' = picked(productsInUse,
                 {k \in DOMAIN productsInUse : productsInUse[k].productId # id})
<1> DEFINE x == findIndexById(id)
           D == {k \in DOMAIN productsInUse : productsInUse[k].productId # id}
<1>1. /\ x \in inUse /\ products' = shifted(x) /\ ProductCount' = ProductCount - 1
      /\ UNCHANGED <<doing, minPrice>> /\ doing = "menu"
      /\ \A k \in inUse : products[k].productId = id <=> k = x
  BY Found DEF deleteProduct, command
<1> HIDE DEF x
<1>2. /\ productsInUse \in Seq(Cell) /\ Len(productsInUse) = ProductCount
      /\ DOMAIN productsInUse = inUse /\ ProductCount \in Nat
      /\ \A k \in inUse : productsInUse[k] = products[k] /\ products[k] \in Goods
      /\ products \in Seq(Cell) /\ Len(products) \in Nat /\ ProductCount \in 0 .. Len(products)
      /\ DOMAIN products = 1 .. Len(products)
  BY InUse, LenProperties DEF StockInv, StockShape
<1>3. allBut(productsInUse, D, x)
  BY <1>1, <1>2 DEF allBut, inUse
<1>4. /\ products' \in Seq(Cell) /\ Len(products') = Len(products)
      /\ \A k \in 1 .. ProductCount - 1 : products'[k] = IF k < x THEN products[k] ELSE products[k + 1]
  <2>1. products' = [k \in 1 .. Len(products) |->
                       IF k \in x .. ProductCount - 1 THEN products[k + 1] ELSE products[k]]
    BY <1>1, <1>2 DEF shifted
  <2>2. \A k \in 1 .. Len(products) : products'[k] \in Cell
    <3>1. \A k \in 1 .. Len(products) : products[k] \in Cell
      BY <1>2, ElementOfSeq
    <3>2. \A k \in x .. ProductCount - 1 : k + 1 \in 1 .. Len(products)
      BY <1>1, <1>2 DEF inUse
    <3> QED BY <2>1, <3>1, <3>2
  <2>3. products' \in [1 .. Len(products) -> Cell]
    BY <2>1, <2>2
  <2>4. products' \in Seq(Cell) /\ Len(products') = Len(products)
    BY <1>2, <2>3
  <2>5. ASSUME NEW k \in 1 .. ProductCount - 1
        PROVE  products'[k] = IF k < x THEN products[k] ELSE products[k + 1]
    <3>1. k \in 1 .. Len(products) /\ x \in Int /\ (k \in x .. ProductCount - 1 <=> ~(k < x))
      BY <1>1, <1>2 DEF inUse
    <3> QED BY <2>1, <3>1
  <2> QED BY <2>4, <2>5
<1>5. inUse' = 1 .. ProductCount - 1 /\ ProductCount' \in 0 .. Len(products')
  BY <1>1, <1>2, <1>4 DEF inUse
<1>6. StockInv'
  <2>1. \A k \in inUse' : \E j \in inUse : products'[k] = products[j] /\ j = IF k < x THEN k ELSE k + 1
    BY <1>1, <1>2, <1>4, <1>5 DEF inUse
  <2>2. StockShape'
    <3>1. \A k \in inUse' : products'[k] \in Goods
      BY <1>2, <2>1
    <3>2. minPrice' \in Nat
      BY <1>1 DEF StockInv, StockShape
    <3> QED BY <1>4, <1>5, <3>1, <3>2 DEF StockShape, Goods
  <2>3. StockIds'
    <3> SUFFICES ASSUME NEW k \in inUse', NEW m \in inUse',
                        products'[k].productId = products'[m].productId
                 PROVE  k = m
      BY DEF StockIds
    <3>1. (IF k < x THEN k ELSE k + 1) = (IF m < x THEN m ELSE m + 1)
      BY <2>1 DEF StockInv, StockIds
    <3> QED BY <1>1, <1>2, <1>5, <3>1 DEF inUse
  <2>4. StockPhases'
    BY <1>1 DEF StockInv, StockPhases
  <2> QED BY <2>2, <2>3, <2>4 DEF StockInv
<1>7. productsInUse' = picked(productsInUse, D)
  <2> HIDE DEF D
  <2> DEFINE q == picked(productsInUse, D)
             s == productsInUse
  <2>1. /\ q \in Seq(Cell) /\ Len(q) = IF x = Len(s) + 1 THEN Len(s) ELSE Len(s) - 1
        /\ \A k \in 1 .. Len(q) : q[k] = IF k < x THEN s[k] ELSE s[k + 1]
    <3> HIDE DEF s
    <3>1. s \in Seq(Cell) /\ allBut(s, D, x)
      BY <1>2, <1>3 DEF s
    <3>2. q = picked(s, D)
      BY DEF s
    <3> QED BY <3>1, <3>2, PickedBut
  <2> HIDE DEF q
  <2>2. Len(q) = ProductCount - 1 /\ x \in 1 .. ProductCount
    BY <1>1, <1>2, <2>1 DEF inUse
  <2>3. \A k \in 1 .. ProductCount - 1 : q[k] = products'[k]
    <3>1. \A k \in 1 .. ProductCount - 1 : k \in inUse /\ k + 1 \in inUse
      BY <1>2 DEF inUse
    <3> QED BY <1>2, <1>4, <2>1, <2>2, <3>1
  <2>4. /\ productsInUse' \in Seq(Cell) /\ Len(productsInUse') = ProductCount'
        /\ \A k \in 1 .. ProductCount' : productsInUse'[k] = products'[k]
    BY <1>4, <1>5, FirstOf DEF productsInUse
  <2>5. productsInUse' = q
    BY <1>1, <2>1, <2>2, <2>3, <2>4, SeqEqual
  <2> QED BY <2>5 DEF q
<1> QED BY <1>6, <1>7

-----------------------------------------------------------------------------
(* What is shown.                                                            *)

\* A loop over the cells in use that displays those of a set W of products.
shows(W) == shown' = picked(productsInUse,
                            {k \in DOMAIN productsInUse : productsInUse[k] \in W})

LEMMA ShowsAll ==
    ASSUME StockInv, viewAllProducts
    PROVE  shows(Goods)
<1> DEFINE s == productsInUse
           D == {k \in DOMAIN s : s[k] \in Goods}
<1>1. s \in Seq(Cell) /\ Len(s) \in Nat /\ \A k \in 1 .. Len(s) : s[k] \in Goods
  BY InUse DEF StockInv, inUse
<1>2. allBut(s, D, Len(s) + 1)
  <2> HIDE DEF s
  <2>1. \A k \in 1 .. Len(s) : k \in DOMAIN s
    BY <1>1, LenProperties
  <2> QED BY <1>1, <2>1 DEF allBut
<1>3. picked(s, D) = s
  <2> HIDE DEF s, D
  <2> DEFINE q == picked(s, D)
             p == Len(s) + 1
  <2>1. p = Len(s) + 1 /\ allBut(s, D, p)
    BY <1>2
  <2> HIDE DEF p
  <2>2. /\ q \in Seq(Cell) /\ Len(q) = Len(s)
        /\ \A k \in 1 .. Len(q) : q[k] = IF k < p THEN s[k] ELSE s[k + 1]
    BY <1>1, <2>1, PickedBut
  <2>3. \A k \in 1 .. Len(q) : q[k] = s[k]
    BY <1>1, <2>1, <2>2
  <2> HIDE DEF q
  <2>4. q = s
    BY <1>1, <2>2, <2>3, SeqEqual
  <2> QED BY <2>4 DEF q
<1>4. shown' = s
  BY DEF viewAllProducts
<1> QED BY <1>3, <1>4 DEF shows

LEMMA ShowsFound ==
    ASSUME StockInv, NEW id \in Int, searchProductById(id)
    PROVE  shows({p \in Goods : p.productId = id})
<1> DEFINE x == findIndexById(id)
           s == productsInUse
           D == {k \in DOMAIN s : s[k] \in {p \in Goods : p.productId = id}}
           at == IF x = -1 THEN Len(s) + 1 ELSE x
<1>1. /\ s \in Seq(Cell) /\ Len(s) \in Nat /\ DOMAIN s = inUse /\ inUse = 1 .. Len(s)
      /\ \A k \in inUse : s[k] = products[k] /\ s[k] \in Goods
  BY InUse DEF StockInv, inUse
<1>2. shown' = IF x = -1 THEN <<>> ELSE <<products[x]>>
  BY DEF searchProductById
<1>3. \/ x = -1 /\ \A k \in inUse : products[k].productId # id
      \/ x \in inUse /\ x # -1 /\ \A k \in inUse : products[k].productId = id <=> k = x
  BY Found
<1> HIDE DEF x, s
<1>4. \A k \in 1 .. Len(s) : k \in D <=> products[k].productId = id
  BY <1>1
<1>5. noneBut(s, D, at)
  <2> HIDE DEF D
  <2> QED BY <1>1, <1>3, <1>4 DEF noneBut
<1>6. picked(s, D) = IF at = Len(s) + 1 THEN <<>> ELSE <<s[at]>>
  <2> HIDE DEF D, at
  <2> QED BY <1>1, <1>5, PickedOne
<1>7. shown' = picked(s, D)
  <2> HIDE DEF D
  <2> QED BY <1>1, <1>2, <1>3, <1>6
<1> QED BY <1>7 DEF shows, s

\* What strstr finds in the lower-case copies.
LEMMA TermFound ==
    ASSUME NEW nm \in Seq(DOMAIN Lower), NEW t \in Seq(DOMAIN Lower)
    PROVE  strstr(lowered(nm), lowered(t)) <=> Like(nm, t)
<1> DEFINE a == lowered(nm)
           b == lowered(t)
           chars == {Lower[ch] : ch \in DOMAIN Lower}
<1>1. /\ Len(nm) \in Nat /\ DOMAIN nm = 1 .. Len(nm) /\ Len(t) \in Nat /\ DOMAIN t = 1 .. Len(t)
      /\ \A k \in 1 .. Len(nm) : nm[k] \in DOMAIN Lower
      /\ \A k \in 1 .. Len(t) : t[k] \in DOMAIN Lower
  BY LenProperties, ElementOfSeq
<1>2. /\ a \in Seq(chars) /\ Len(a) = Len(nm) /\ \A k \in 1 .. Len(nm) : a[k] = Lower[nm[k]]
      /\ b \in Seq(chars) /\ Len(b) = Len(t) /\ \A k \in 1 .. Len(t) : b[k] = Lower[t[k]]
  <2>1. a = [k \in 1 .. Len(nm) |-> Lower[nm[k]]] /\ b = [k \in 1 .. Len(t) |-> Lower[t[k]]]
    BY <1>1 DEF lowered
  <2>2. /\ \A k \in 1 .. Len(nm) : Lower[nm[k]] \in chars
        /\ \A k \in 1 .. Len(t) : Lower[t[k]] \in chars
    BY <1>1
  <2> HIDE DEF a, b, chars
  <2> QED BY <1>1, <2>1, <2>2
<1> HIDE DEF a, b, chars
<1>3. ASSUME NEW k \in 0 .. Len(nm) - Len(t)
      PROVE  SubSeq(a, k + 1, k + Len(t)) = b
             <=> \A j \in DOMAIN t : Lower[nm[k + j]] = Lower[t[j]]
  <2> DEFINE c == SubSeq(a, k + 1, k + Len(t))
  <2>1. k \in Nat /\ \A j \in 1 .. Len(t) : k + j \in 1 .. Len(nm)
    BY <1>1
  <2>2. \A m \in k + 1 .. k + Len(t) : a[m] \in chars
    <3>1. \A m \in k + 1 .. k + Len(t) : m \in 1 .. Len(a)
      BY <1>1, <1>2
    <3> QED BY <1>2, <3>1, ElementOfSeq
  <2>3. /\ c \in Seq(chars)
        /\ Len(c) = IF k + 1 <= k + Len(t) THEN (k + Len(t)) - (k + 1) + 1 ELSE 0
        /\ \A j \in 1 .. (k + Len(t)) - (k + 1) + 1 : c[j] = a[k + 1 + j - 1]
    <3>1. k + 1 \in Int /\ k + Len(t) \in Int
      BY <1>1
    <3> QED BY <2>2, <3>1, SubSeqProperties
  <2> HIDE DEF c
  <2>4. Len(c) = Len(t) /\ \A j \in 1 .. Len(t) : c[j] = a[k + j]
    <3>1. \A j \in 1 .. Len(t) : j \in 1 .. (k + Len(t)) - (k + 1) + 1 /\ k + 1 + j - 1 = k + j
      BY <1>1
    <3> QED BY <1>1, <2>3, <3>1
  <2>5. \A j \in 1 .. Len(t) : c[j] = b[j] <=> Lower[nm[k + j]] = Lower[t[j]]
    BY <1>2, <2>1, <2>4
  <2>6. c = b <=> \A j \in 1 .. Len(t) : c[j] = b[j]
    BY <1>2, <2>3, <2>4, SeqEqual
  <2>7. c = b <=> \A j \in DOMAIN t : Lower[nm[k + j]] = Lower[t[j]]
    BY <1>1, <2>5, <2>6
  <2> QED BY <2>7 DEF c
<1>4. strstr(a, b) <=> Like(nm, t)
  <2>1. Len(a) = Len(nm) /\ Len(b) = Len(t)
    BY <1>2
  <2>2. strstr(a, b)
        <=> \E k \in 0 .. Len(nm) - Len(t) : SubSeq(a, k + 1, k + Len(t)) = b
    BY ONLY <2>1 DEF strstr
  <2> QED BY ONLY <1>3, <2>2, Zenon DEF Like
<1> QED BY <1>4 DEF a, b

LEMMA ShowsNamed ==
    ASSUME StockInv, NEW term \in Terms, searchProductByName(term)
    PROVE  shows({p \in Goods : Like(p.name, term)})
<1> DEFINE W == {p \in Goods : Like(p.name, term)}
           D == {k \in inUse : strstr(lowered(products[k].name), lowered(term))}
<1>1. DOMAIN productsInUse = inUse /\ \A k \in inUse : productsInUse[k] = products[k] /\ products[k] \in Goods
  BY InUse DEF StockInv
<1>2. ASSUME NEW k \in inUse
      PROVE  strstr(lowered(products[k].name), lowered(term)) <=> products[k] \in W
  <2>1. products[k].name \in Seq(DOMAIN Lower) /\ term \in Seq(DOMAIN Lower)
    BY <1>1, GoodsAre, InventoryAssumption
  <2> QED BY <1>1, <2>1, TermFound
<1>3. D = {k \in DOMAIN productsInUse : productsInUse[k] \in W}
  <2> HIDE DEF W
  <2> QED BY <1>1, <1>2
<1>4. shown' = picked(productsInUse, D)
  BY DEF searchProductByName, matches, picked
<1> QED BY <1>3, <1>4 DEF shows

LEMMA ShowsPriced ==
    ASSUME StockInv, NEW high \in 0 .. MAX_PRICE, searchUpTo(high)
    PROVE  \E lowest, highest \in Goods :
             shows({p \in Goods : p.price \in lowest.price .. highest.price})
<1> DEFINE W == {p \in Goods : p.price \in minPrice .. high}
           D == {k \in inUse : products[k].price >= minPrice /\ products[k].price <= high}
<1>1. DOMAIN productsInUse = inUse /\ \A k \in inUse : productsInUse[k] = products[k] /\ products[k] \in Goods
  BY InUse DEF StockInv
<1>2. minPrice \in Nat /\ high \in Nat /\ high >= minPrice /\ minPrice \in 0 .. MAX_PRICE
  BY InventoryAssumption DEF StockInv, StockShape, searchUpTo, maxAccepted
<1>3. D = {k \in DOMAIN productsInUse : productsInUse[k] \in W}
  <2>1. \A k \in inUse : products[k].price \in Nat
    BY <1>1, GoodsAre
  <2> QED BY <1>1, <1>2, <2>1
<1>4. shown' = picked(productsInUse, D)
  BY DEF searchUpTo, matches, picked
<1>5. \E lowest, highest \in Goods : lowest.price = minPrice /\ highest.price = high
  <2>1. 1 \in inUse
    BY InUse DEF StockInv, StockPhases, searchUpTo, inUse
  <2>2. products[1] \in Goods
    BY <1>1, <2>1
  <2>3. PICK id \in Ids, nm \in Names, p \in 0 .. MAX_PRICE, q \in Quantities :
          products[1] = Product(id, nm, p, q)
    BY <2>2 DEF Goods
  <2>4. Product(id, nm, minPrice, q) \in Goods /\ Product(id, nm, high, q) \in Goods
    BY <1>2, <2>3, GoodsMade
  <2> QED BY <2>4 DEF Product
<1>6. shows(W)
  BY <1>3, <1>4 DEF shows
<1> QED BY <1>5, <1>6

-----------------------------------------------------------------------------
(* Every step of the inventory is one of the catalogue, or none.             *)

\* The steps of the catalogue, with its products named as here.
LEMMA CatalogueSteps ==
    /\ \A p \in Goods : Catalogue!Add(p) \/ Catalogue!SetQuantity(p) => Catalogue!Next
    /\ \A id \in Ids \cup OtherIds :
         Catalogue!Delete(id) \/ Catalogue!Show({p \in Goods : p.productId = id}) => Catalogue!Next
    /\ Catalogue!Show(Goods) => Catalogue!Next
    /\ \A t \in Terms : Catalogue!Show({p \in Goods : Like(p.name, t)}) => Catalogue!Next
    /\ \A least, high \in Goods :
         Catalogue!Show({p \in Goods : p.price \in least.price .. high.price}) => Catalogue!Next
    /\ Catalogue!Close => Catalogue!Next
<1>1. ASSUME NEW p \in Goods, Catalogue!Add(p) \/ Catalogue!SetQuantity(p) PROVE Catalogue!Next
  BY <1>1 DEF Catalogue!Next
<1>2. ASSUME NEW id \in Ids \cup OtherIds,
             Catalogue!Delete(id) \/ Catalogue!Show({p \in Goods : p.productId = id})
      PROVE  Catalogue!Next
  BY <1>2 DEF Catalogue!Next
<1>3. ASSUME Catalogue!Show(Goods) PROVE Catalogue!Next
  BY <1>3 DEF Catalogue!Next
<1>4. ASSUME NEW t \in Terms, Catalogue!Show({p \in Goods : Like(p.name, t)}) PROVE Catalogue!Next
  BY <1>4 DEF Catalogue!Next
<1>5. ASSUME NEW least \in Goods, NEW high \in Goods,
             Catalogue!Show({p \in Goods : p.price \in least.price .. high.price})
      PROVE  Catalogue!Next
  BY <1>5 DEF Catalogue!Next
<1>6. ASSUME Catalogue!Close PROVE Catalogue!Next
  BY <1>6 DEF Catalogue!Next
<1> QED BY <1>1, <1>2, <1>3, <1>4, <1>5, <1>6

LEMMA ShowStep ==
    ASSUME StockInv, StockPhases', NEW W, shows(W),
           UNCHANGED <<products, ProductCount>>, minPrice' \in Nat
    PROVE  StockInv' /\ Catalogue!Show(W)
<1>1. StockInv' /\ UNCHANGED productsInUse
  <2>1. Len(products) \in Nat
    BY LenProperties DEF StockInv, StockShape
  <2>2. products' \in Seq(Cell) /\ Len(products') >= Len(products) /\ \A x \in inUse : products'[x] = products[x]
    BY <2>1 DEF StockInv, StockShape
  <2> QED BY <2>2, StockKept
<1>2. Catalogue!Show(W)
  BY <1>1 DEF Catalogue!Show, Catalogue!chosen, shows, picked
<1> QED BY <1>1, <1>2

\* The array is given back, and the program ends.
LEMMA CloseStep ==
    ASSUME StockInv, cleanupMemory, UNCHANGED <<minPrice, shown>>
    PROVE  StockInv' /\ Catalogue!Next
<1>1. products' = <<>> /\ ProductCount' = 0 /\ doing' = "exit"
  BY DEF cleanupMemory
<1>2. StockInv'
  <2>1. products' \in Seq(Cell) /\ Len(products') = 0 /\ inUse' = {}
    BY <1>1, EmptySeq DEF inUse
  <2> QED BY <1>1, <2>1 DEF StockInv, StockShape, StockIds, StockPhases
<1>3. productsInUse' = <<>>
  BY <1>1 DEF productsInUse
<1> QED BY <1>2, <1>3, CatalogueSteps DEF Catalogue!Close

LEMMA AllocateStep ==
    ASSUME StockInv, NEW nm \in 1 .. MAX_PRODUCTS, allocate(nm)
    PROVE  StockInv' /\ UNCHANGED <<productsInUse, shown>>
<1>1. /\ ProductCount = 0 /\ inUse = {} /\ UNCHANGED <<ProductCount, minPrice, shown>>
      /\ doing' # "start" /\ doing' # "maxPrice"
  BY DEF allocate, StockInv, StockPhases, inUse
<1>2. CASE UNCHANGED products
  <2>1. StockInv'
    BY <1>1, <1>2 DEF StockInv, StockShape, StockIds, StockPhases, inUse, Goods
  <2> QED BY <1>1, <1>2, <2>1 DEF productsInUse
<1>3. CASE products' = [x \in 1 .. nm |-> zeroes]
  <2>1. zeroes \in Cell
    BY DEF zeroes, Product, Cell
  <2>2. products' \in Seq(Cell) /\ Len(products') = nm /\ nm \in Nat
    BY <1>3, <2>1
  <2>3. StockInv'
    BY <1>1, <2>2 DEF StockInv, StockShape, StockIds, StockPhases, inUse
  <2>4. productsInUse = <<>> /\ productsInUse' = <<>>
    BY <1>1 DEF productsInUse
  <2> QED BY <1>1, <2>3, <2>4
<1> QED BY <1>2, <1>3 DEF allocate

\* Nothing the catalogue knows of changes.
LEMMA StutterStep ==
    ASSUME StockInv, StockPhases', UNCHANGED <<products, ProductCount, shown>>, minPrice' \in Nat
    PROVE  StockInv' /\ UNCHANGED <<productsInUse, shown>>
<1>1. Len(products) \in Nat
  BY LenProperties DEF StockInv, StockShape
<1>2. products' \in Seq(Cell) /\ Len(products') >= Len(products) /\ \A x \in inUse : products'[x] = products[x]
  BY <1>1 DEF StockInv, StockShape
<1> QED BY <1>2, StockKept

LEMMA FailStep ==
    ASSUME StockInv, addProductFails
    PROVE  StockInv' /\ (Catalogue!Next \/ UNCHANGED <<productsInUse, shown>>)
<1>1. UNCHANGED <<minPrice, shown>> /\ minPrice' \in Nat
  BY DEF addProductFails, StockInv, StockShape
<1>2. CASE doing = "loading"
  BY <1>1, <1>2, CloseStep DEF addProductFails
<1>3. CASE doing # "loading"
  <2>1. UNCHANGED <<ProductCount, doing>> /\ (products' \in withRoom \/ UNCHANGED products)
    BY <1>3 DEF addProductFails
  <2>2. StockPhases'
    BY <2>1 DEF StockInv, StockPhases
  <2>3. CASE UNCHANGED products
    BY <1>1, <2>1, <2>2, <2>3, StutterStep
  <2>4. CASE products' \in withRoom
    <3>1. /\ products' \in Seq(Cell) /\ Len(products') >= Len(products)
          /\ \A x \in inUse : products'[x] = products[x]
      BY <2>4, Room DEF StockInv
    <3> QED BY <1>1, <2>1, <2>2, <3>1, StockKept
  <2> QED BY <2>1, <2>3, <2>4
<1> QED BY <1>2, <1>3

LEMMA StockSteps ==
    ASSUME StockInv, [StockNext]_stockVars
    PROVE  StockInv' /\ [Catalogue!Next]_(Catalogue!vars)
<1>1. SUFFICES StockInv' /\ (Catalogue!Next \/ UNCHANGED <<productsInUse, shown>>)
  BY DEF Catalogue!vars
<1>2. minPrice \in Nat
  BY DEF StockInv, StockShape
<1>3. ASSUME UNCHANGED stockVars PROVE StockInv' /\ UNCHANGED <<productsInUse, shown>>
  <2>1. UNCHANGED <<products, ProductCount, doing, minPrice, shown>>
    BY <1>3 DEF stockVars
  <2>2. StockPhases'
    BY <2>1 DEF StockInv, StockPhases
  <2> QED BY <1>2, <2>1, <2>2, StutterStep
<1>4. ASSUME NEW nm \in 1 .. MAX_PRODUCTS, allocate(nm)
      PROVE  StockInv' /\ (Catalogue!Next \/ UNCHANGED <<productsInUse, shown>>)
  BY <1>4, AllocateStep
<1>5. CASE loaded
  <2>1. UNCHANGED <<products, ProductCount, minPrice, shown>> /\ doing' = "menu"
    BY <1>5 DEF loaded
  <2>2. StockPhases'
    BY <2>1 DEF StockPhases
  <2> QED BY <1>2, <2>1, <2>2, StutterStep
<1>6. ASSUME NEW id \in Ids, NEW nm \in Names, NEW c \in Prices, NEW q \in Quantities,
             addProduct(Product(id, nm, c, q))
      PROVE  StockInv' /\ Catalogue!Next
  <2> DEFINE p == Product(id, nm, c, q)
  <2>1. p \in Goods
    BY InventoryAssumption, GoodsMade
  <2>2. addProduct(p)
    BY <1>6
  <2> HIDE DEF p
  <2>3. StockInv' /\ productsInUse' = Append(productsInUse, p)
    BY <2>1, <2>2, StockAdds
  <2>4. \A x \in inUse : products[x].productId # p.productId
    BY <2>2 DEF addProduct, isIdUnique
  <2>5. \A x \in DOMAIN productsInUse : productsInUse[x].productId # p.productId
    BY <2>4, InUse DEF StockInv
  <2>6. Catalogue!Add(p)
    BY <2>2, <2>3, <2>5 DEF Catalogue!Add, addProduct
  <2> QED BY <2>1, <2>3, <2>6, CatalogueSteps
<1>7. CASE addProductFails
  BY <1>7, FailStep
<1>8. CASE viewAllProducts
  <2>1. UNCHANGED <<products, ProductCount, doing, minPrice>>
    BY <1>8 DEF viewAllProducts, command
  <2>2. StockPhases'
    BY <2>1 DEF StockInv, StockPhases
  <2>3. StockInv' /\ Catalogue!Show(Goods)
    BY <1>2, <1>8, <2>1, <2>2, ShowsAll, ShowStep
  <2> QED BY <2>3, CatalogueSteps
<1>9. ASSUME NEW id \in Ids \cup OtherIds,
             \/ \E q \in Quantities : updateQuantity(id, q)
             \/ searchProductById(id)
             \/ deleteProduct(id)
      PROVE  StockInv' /\ Catalogue!Next
  <2>1. id \in Int
    BY InventoryAssumption
  <2>2. ASSUME NEW q \in Quantities, updateQuantity(id, q) PROVE StockInv' /\ Catalogue!Next
    <3>1. /\ StockInv'
          /\ \E p \in Goods :
               productsInUse' = [k \in DOMAIN productsInUse |->
                   IF productsInUse[k].productId = p.productId
                   THEN [productsInUse[k] EXCEPT !.quantity = p.quantity]
                   ELSE productsInUse[k]]
      BY <2>1, <2>2, StockUpdates
    <3>2. UNCHANGED shown
      BY <2>2 DEF updateQuantity
    <3>3. \E p \in Goods : Catalogue!SetQuantity(p)
      BY <3>1, <3>2 DEF Catalogue!SetQuantity
    <3> QED BY <3>1, <3>3, CatalogueSteps
  <2>3. CASE searchProductById(id)
    <3>1. UNCHANGED <<products, ProductCount, doing, minPrice>>
      BY <2>3 DEF searchProductById, command
    <3>2. StockPhases'
      BY <3>1 DEF StockInv, StockPhases
    <3>3. StockInv' /\ Catalogue!Show({p \in Goods : p.productId = id})
      BY <1>2, <2>1, <2>3, <3>1, <3>2, ShowsFound, ShowStep
    <3> QED BY <3>3, CatalogueSteps
  <2>4. CASE deleteProduct(id)
    <3>1. /\ StockInv'
          /\ productsInUse' = picked(productsInUse,
                {k \in DOMAIN productsInUse : productsInUse[k].productId # id})
      BY <2>1, <2>4, StockDeletes
    <3>2. UNCHANGED shown
      BY <2>4 DEF deleteProduct
    <3>3. Catalogue!Delete(id)
      BY <3>1, <3>2 DEF Catalogue!Delete, Catalogue!chosen, picked
    <3> QED BY <3>1, <3>3, CatalogueSteps
  <2> QED BY <1>9, <2>2, <2>3, <2>4
<1>10. ASSUME NEW term \in Terms, searchProductByName(term) PROVE StockInv' /\ Catalogue!Next
  <2>1. UNCHANGED <<products, ProductCount, doing, minPrice>>
    BY <1>10 DEF searchProductByName, command
  <2>2. StockPhases'
    BY <2>1 DEF StockInv, StockPhases
  <2>3. StockInv' /\ Catalogue!Show({p \in Goods : Like(p.name, term)})
    BY <1>2, <1>10, <2>1, <2>2, ShowsNamed, ShowStep
  <2> QED BY <2>3, CatalogueSteps
<1>11. ASSUME NEW least \in MinPrices, searchProductByPriceRange(least)
       PROVE  StockInv' /\ UNCHANGED <<productsInUse, shown>>
  <2>1. /\ UNCHANGED <<products, ProductCount, shown>> /\ minPrice' \in Nat
        /\ doing' = "maxPrice" /\ ProductCount > 0
    BY <1>11, InventoryAssumption DEF searchProductByPriceRange
  <2>2. StockPhases'
    BY <2>1 DEF StockPhases
  <2> QED BY <2>1, <2>2, StutterStep
<1>12. ASSUME NEW high \in 0 .. MAX_PRICE, searchUpTo(high) PROVE StockInv' /\ Catalogue!Next
  <2>1. UNCHANGED <<products, ProductCount>> /\ minPrice' \in Nat /\ doing' = "menu"
    BY <1>12 DEF searchUpTo
  <2>2. StockPhases'
    BY <2>1 DEF StockPhases
  <2>3. PICK lowest \in Goods, highest \in Goods :
          shows({p \in Goods : p.price \in lowest.price .. highest.price})
    BY <1>12, ShowsPriced
  <2>4. StockInv' /\ Catalogue!Show({p \in Goods : p.price \in lowest.price .. highest.price})
    BY <2>1, <2>2, <2>3, ShowStep
  <2> QED BY <2>4, CatalogueSteps
<1>13. ASSUME NEW high \in 0 .. MAX_PRICE, askAgain(high)
       PROVE  StockInv' /\ UNCHANGED <<productsInUse, shown>>
  BY <1>3, <1>13 DEF askAgain
<1>14. CASE exit
  BY <1>14, CloseStep DEF exit
<1> QED
  BY <1>3, <1>4, <1>5, <1>6, <1>7, <1>8, <1>9, <1>10, <1>11, <1>12, <1>13, <1>14 DEF StockNext

\* The array with its count implements the list of products with different ids:
\* every step of the program is a step of the list or none.
THEOREM StockImplements == StockSpec => ImplementsCatalogue
<1>1. StockInit => Catalogue!Init
  <2>1. StockInit => productsInUse = <<>>
    BY DEF StockInit, productsInUse
  <2> QED BY <2>1 DEF StockInit, Catalogue!Init
<1>2. StockInv /\ [StockNext]_stockVars => StockInv' /\ [Catalogue!Next]_(Catalogue!vars)
  BY StockSteps
<1> QED BY <1>1, <1>2, StockStart, PTL DEF StockSpec, ImplementsCatalogue, Catalogue!Spec

=============================================================================
