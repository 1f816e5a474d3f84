------------------------------ MODULE SonarImage ------------------------------
(* The image processing of src/sonar_image_processing.c: a square matrix is    *)
(* rotated and smoothed in place, with copies of two of its rows.             *)
EXTENDS Integers, Functions, FiniteSets

CONSTANTS
    Sizes,        \* numbers typed in as the size of the matrix
    Generated     \* matrices that rand() % 256 may give, of all sizes

VARIABLES
    stage,        \* "start", "transpose", "mirror", "smooth" or "done"
    n, matrix,
    row, col,     \* the cell the loops have come to, from 0
    prevRowCopy, currentRowCopy,
    picture       \* history: the matrix that was generated

imageVars == <<stage, n, matrix, row, col, prevRowCopy, currentRowCopy, picture>>

Indices == 0 .. n - 1
noRow == <<>>

SonarInit ==
    /\ stage = "start"
    /\ n = 0
    /\ matrix = <<>> /\ picture = <<>>
    /\ row = 0 /\ col = 0
    /\ prevRowCopy = noRow /\ currentRowCopy = noRow

\* Any other size is asked for again.
generateMatrix(size, m) ==
    /\ stage = "start"
    /\ size \in 2 .. 10
    /\ m \in [(0 .. size - 1) \X (0 .. size - 1) -> 0 .. 255]
    /\ n' = size /\ matrix' = m /\ picture' = m
    /\ stage' = "transpose"
    /\ UNCHANGED <<row, col, prevRowCopy, currentRowCopy>>

-----------------------------------------------------------------------------
swapped(a, b) == [matrix EXCEPT ![a] = matrix[b], ![b] = matrix[a]]

\* The cells on and above the diagonal change places with those below it.
transposeCell ==
    /\ stage = "transpose"
    /\ matrix' = swapped(<<row, col>>, <<col, row>>)
    /\ \/ /\ col < n - 1
          /\ col' = col + 1
          /\ UNCHANGED <<stage, row>>
       \/ /\ col = n - 1 /\ row < n - 1
          /\ row' = row + 1 /\ col' = row + 1
          /\ UNCHANGED stage
       \/ /\ col = n - 1 /\ row = n - 1
          /\ stage' = "mirror"
          /\ row' = 0 /\ col' = 0
    /\ UNCHANGED <<n, prevRowCopy, currentRowCopy, picture>>

\* The first half of every row changes places with the second.
mirrorCell ==
    /\ stage = "mirror"
    /\ matrix' = swapped(<<row, col>>, <<row, n - 1 - col>>)
    /\ \/ /\ col < n \div 2 - 1
          /\ col' = col + 1
          /\ UNCHANGED <<stage, row, prevRowCopy>>
       \/ /\ col = n \div 2 - 1 /\ row < n - 1
          /\ row' = row + 1 /\ col' = 0
          /\ UNCHANGED <<stage, prevRowCopy>>
       \/ /\ col = n \div 2 - 1 /\ row = n - 1
          /\ stage' = "smooth"
          /\ row' = 0 /\ col' = 0
          /\ prevRowCopy' = [j \in Indices |-> matrix'[<<0, j>>]]
    /\ UNCHANGED <<n, currentRowCopy, picture>>

\* The cells around (i, j) that are in the matrix.
around(i, j) ==
    {c \in Indices \X Indices : c[1] - i \in -1 .. 1 /\ c[2] - j \in -1 .. 1}

mean(f) == FoldFunction(LAMBDA x, y : x + y, 0, f) \div Cardinality(DOMAIN f)

\* The rows above and at i come from the copies made before they were changed.
\* Mutant: the row above is read from the matrix.
cellsReadNoCopy(i, j, copy) ==
    [c \in around(i, j) |-> IF c[1] = i THEN copy[c[2]] ELSE matrix[c]]
cellsRead(i, j, copy) ==
    [c \in around(i, j) |-> CASE c[1] = i -> copy[c[2]]
                              [] c[1] = i - 1 -> prevRowCopy[c[2]]
                              [] c[1] = i + 1 -> matrix[c]]

\* A row is copied before its first cell is changed.
smoothCell ==
    LET copy == IF col = 0 THEN [j \in Indices |-> matrix[<<row, j>>]] ELSE currentRowCopy
    IN  /\ stage = "smooth"
        /\ matrix' = [matrix EXCEPT ![<<row, col>>] = mean(cellsRead(row, col, copy))]
        /\ currentRowCopy' = copy
        /\ \/ /\ col < n - 1
              /\ col' = col + 1
              /\ UNCHANGED <<stage, row, prevRowCopy>>
           \/ /\ col = n - 1 /\ row < n - 1
              /\ row' = row + 1 /\ col' = 0
              /\ prevRowCopy' = copy
              /\ UNCHANGED stage
           \/ /\ col = n - 1 /\ row = n - 1
              /\ prevRowCopy' = copy
              /\ stage' = "done"
              /\ UNCHANGED <<row, col>>
        /\ UNCHANGED <<n, picture>>

SonarNext ==
    \/ \E size \in Sizes, m \in Generated : generateMatrix(size, m)
    \/ transposeCell \/ mirrorCell \/ smoothCell

SonarSpec == SonarInit /\ [][SonarNext]_imageVars

-----------------------------------------------------------------------------
(* What it does to the matrix it has generated.                              *)

rotated == [c \in Indices \X Indices |-> picture[<<n - 1 - c[2], c[1]>>]]

\* Before the smoothing the matrix is the generated one turned clockwise by 90
\* degrees; at the end every cell is the mean of the turned matrix around it, not
\* of cells that are smoothed already.
TurnedAndSmoothed ==
    /\ stage = "smooth" /\ row = 0 /\ col = 0 => matrix = rotated
    /\ stage = "done" => matrix = [c \in Indices \X Indices |->
                                     mean([d \in around(c[1], c[2]) |-> rotated[d]])]

=============================================================================
