----------------------------- MODULE StudentReport -----------------------------
(* The student analyzer of src/student_performance_analyzer.c: it reads a line *)
(* per student, asks again for one it cannot take, and prints a report by roll *)
(* number.                                                                    *)
EXTENDS Integers, SequencesExt

CONSTANTS
    MAX_STUDENTS,
    MAX_TYPED,    \* bound: lines typed
    NoNumber,
    Typed         \* lines: [roll, text, numbers], the roll a number or NoNumber,
                  \* the text behind it up to the first digit, a minus sign in
                  \* front of that left out, and the numbers from there on

ASSUME ReportAssumption ==
    /\ MAX_STUDENTS \in Nat
    /\ \A l \in Typed : /\ l.roll \in Int \/ l.roll = NoNumber
                        /\ l.numbers \in Seq(Int)

NUM_SUBJECTS == 3

VARIABLES
    phase,        \* "start", "reading", "done" or "failed"
    numStudents,
    students,     \* the first i entries of the array
    report,       \* what displayReport has printed
    typed         \* history: the lines read

studentVars == <<phase, numStudents, students, report, typed>>

ReportInit ==
    /\ phase = "start"
    /\ numStudents = 0
    /\ students = <<>> /\ report = <<>> /\ typed = <<>>

\* Anything else than a number in range is asked for again.
readNumStudents(n) ==
    /\ phase = "start"
    /\ numStudents' = n
    /\ phase' = "reading"
    /\ UNCHANGED <<students, report, typed>>

-----------------------------------------------------------------------------
\* sscanf takes everything up to the first digit as the name, also the minus sign
\* of the first mark; and it needs at least one character.
negative(l) == l.numbers # <<>> /\ l.numbers[1] < 0
tempName(l) == [text |-> l.text, dash |-> negative(l)]
initialParse(l) ==
    IF l.roll = NoNumber THEN 0
    ELSE IF l.text = "" /\ ~negative(l) THEN 1 ELSE 2

\* The first three numbers; more are not looked at.
tempMarks(l) ==
    [c \in 1 .. Min({NUM_SUBJECTS, Len(l.numbers)}) |->
        IF c = 1 /\ negative(l) THEN -l.numbers[1] ELSE l.numbers[c]]

\* Mutant: the student read last is not compared.
isRollNoUniqueLast(roll) ==
    \A k \in 1 .. Len(students) - 1 : students[k].rollNo # roll
isRollNoUnique(roll) == \A k \in DOMAIN students : students[k].rollNo # roll

accepted(l) ==
    /\ initialParse(l) = 2 /\ Len(tempMarks(l)) = NUM_SUBJECTS
    /\ l.roll > 0
    /\ isRollNoUnique(l.roll)
    /\ \A c \in 1 .. NUM_SUBJECTS : tempMarks(l)[c] \in 0 .. 100

\* One turn of the loop of main; a line that is refused is asked for again.
readStudent(l) ==
    /\ phase = "reading" /\ Len(students) < numStudents /\ Len(typed) < MAX_TYPED
    /\ students' = IF accepted(l)
                   THEN Append(students, [rollNo |-> l.roll, name |-> tempName(l),
                                          marks |-> tempMarks(l)])
                   ELSE students
    /\ typed' = Append(typed, l)
    /\ UNCHANGED <<phase, numStudents, report>>

typingEnds ==
    /\ phase = "reading" /\ Len(students) < numStudents
    /\ phase' = "failed"
    /\ UNCHANGED <<numStudents, students, report, typed>>

-----------------------------------------------------------------------------
\* The total is compared in place of the average, of which it is three times.
assignGrade(total) ==
    CASE total >= 3 * 85 -> "A"
      [] total >= 3 * 70 /\ total < 3 * 85 -> "B"
      [] total >= 3 * 50 /\ total < 3 * 70 -> "C"
      [] total >= 3 * 35 /\ total < 3 * 50 -> "D"
      [] total < 3 * 35 -> "F"

starCount(grade) == [A |-> 5, B |-> 4, C |-> 3, D |-> 2, F |-> 0][grade]

compareStudentsByRoll(a, b) == a.rollNo - b.rollNo

displayReport(sorted) ==
    [k \in DOMAIN sorted |->
        LET total == sorted[k].marks[1] + sorted[k].marks[2] + sorted[k].marks[3]
            grade == assignGrade(total)
        IN  [rollNo |-> sorted[k].rollNo, name |-> sorted[k].name, total |-> total,
             grade |-> grade, stars |-> starCount(grade)]]

\* The orders that qsort may leave: no student is greater than the one behind.
sortedOrders ==
    {order \in [DOMAIN students -> DOMAIN students] :
        /\ IsInjective(order)
        /\ \A k \in 1 .. Len(students) - 1 :
             compareStudentsByRoll(students[order[k]], students[order[k + 1]]) <= 0}

\* qsort, and then the report.
sortAndReport ==
    /\ phase = "reading" /\ Len(students) = numStudents
    /\ \E order \in sortedOrders : students' = [k \in DOMAIN students |-> students[order[k]]]
    /\ report' = displayReport(students')
    /\ phase' = "done"
    /\ UNCHANGED <<numStudents, typed>>

ReportNext ==
    \/ \E n \in 1 .. MAX_STUDENTS : readNumStudents(n)
    \/ \E l \in Typed : readStudent(l)
    \/ typingEnds \/ sortAndReport

ReportSpec == ReportInit /\ [][ReportNext]_studentVars

-----------------------------------------------------------------------------
(* What the report says of the lines that were typed.                        *)

\* A line a student can be read from.
readable(l) ==
    /\ l.roll # NoNumber /\ l.roll > 0
    /\ Len(l.numbers) >= NUM_SUBJECTS
    /\ l.text # "" \/ l.numbers[1] < 0
    /\ l.numbers[1] \in -100 .. 100 /\ l.numbers[2] \in 0 .. 100 /\ l.numbers[3] \in 0 .. 100

magnitude(n) == IF n < 0 THEN -n ELSE n
ThresholdOf(grade) == [A |-> 85, B |-> 70, C |-> 50, D |-> 35, F |-> 0][grade]

\* The report has numStudents students by rising roll number, no roll twice, and
\* each as typed in the first readable line with that roll, but for the sign of a
\* first mark, which ends the name instead; and the stars agree with the average.
ReportOfFirstLines ==
    phase = "done" =>
        /\ Len(report) = numStudents
        /\ \A k \in 1 .. numStudents - 1 : report[k].rollNo < report[k + 1].rollNo
        /\ \A k \in DOMAIN report :
             LET row == report[k]
                 l   == typed[Min({m \in DOMAIN typed : readable(typed[m])
                                                     /\ typed[m].roll = row.rollNo})]
             IN  /\ row.name = [text |-> l.text, dash |-> l.numbers[1] < 0]
                 /\ row.total = magnitude(l.numbers[1]) + l.numbers[2] + l.numbers[3]
                 /\ row.total >= 3 * ThresholdOf(row.grade)
                 /\ row.stars < 5 =>
                      \A g \in {"A", "B", "C", "D"} :
                         row.total >= 3 * ThresholdOf(g) => row.stars >= starCount(g)

=============================================================================
