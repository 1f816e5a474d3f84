------------------------------ MODULE MCPrograms ------------------------------
(* A bounded instance of three programs that turn an input into an output: the *)
(* calculator, the student report and the image processing, each on its own.  *)
EXTENDS CalculatorProperties, StudentReport, SonarImage

VARIABLE program

MCInit == /\ program \in {"calculator", "students", "sonar"}
          /\ Init /\ ReportInit /\ SonarInit

MCNext ==
    \/ /\ program = "calculator" /\ Next
       /\ UNCHANGED <<program, studentVars, imageVars>>
    \/ /\ program = "students" /\ ReportNext
       /\ UNCHANGED <<program, vars, imageVars>>
    \/ /\ program = "sonar" /\ SonarNext
       /\ UNCHANGED <<program, vars, studentVars>>

MCSpec == MCInit /\ [][MCNext]_<<program, vars, studentVars, imageVars>>

-----------------------------------------------------------------------------
\* Every expression of up to four or five characters of small alphabets and some
\* longer ones, with numbers of five bits.
MCAll(S, k) == UNION {[1 .. m -> S] : m \in 0 .. k}
MCLines ==
    MCAll({"0", "2", "9", "+", "-", "*", "/"}, 4) \cup MCAll({"2", "7", "-", "*", "/"}, 5)
    \cup MCAll({"2", " ", "-", "*", "x"}, 4)
    \cup {\* near the least number
          <<"-", "9", "-", "7", "-", "2", "-", "9">>,
          <<"-", "2", "*", "8", "/", "-", "1">>,
          <<"2", "*", "-", "8", "/", "1", "-", "2">>,
          <<"2", "-", "-", "8", "*", "2">>,
          <<"7", "+", "2", "*", "3", "-", "1">>,
          <<"8", "/", "2", "/", "2", "*", "3">>,
          <<"1", "-", "9", "+", "2", "*", "3">>,
          <<"-", "7", "/", "2", " ", "-", "1", "6">>,
          \* longer than the buffer: the rest is taken as the answer
          <<"2", "*", "3", "+", "1", "-", "1", "+", "2">>,
          <<"2", " ", "+", " ", "1", " ", " ", " ", "c", "x">>,
          <<"2", " ", "+", " ", "1", " ", " ", " ", " ", " ">>}

\* Rolls that repeat, are negative or missing; names and marks that are missing,
\* negative, out of range or too many; averages on both sides of the grades.
typedLine(roll, text, numbers) == [roll |-> roll, text |-> text, numbers |-> numbers]
MCTyped ==
    {typedLine(1, "A", <<100, 85, 70>>), typedLine(1, "B", <<-70, 70, 69>>),
     typedLine(2, "", <<50, 50, 50>>), typedLine(2, "", <<-50, 50, 49>>),
     typedLine(2, "C", <<35, 35, 35, 7>>), typedLine(3, "D", <<35, 34, 35>>),
     typedLine(3, "E", <<80, -80, 80>>), typedLine(3, "F", <<101, 80, 80>>),
     typedLine(-1, "G", <<80, 80, 80>>), typedLine(NoNumber, "H", <<80, 80, 80>>),
     typedLine(1, "I", <<80, 80>>), typedLine(3, "J", <<>>)}

MCSquare(k) == (0 .. k - 1) \X (0 .. k - 1)
\* All small matrices of few values, and larger ones of distinct values.
MCGenerated ==
    [MCSquare(2) -> {0, 5, 255}] \cup [MCSquare(3) -> {0, 255}]
    \cup {[c \in MCSquare(k) |-> (7 * c[1] + 31 * c[2] * c[2]) % 256] : k \in {4, 5}}

=============================================================================
