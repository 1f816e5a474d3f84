------------------------------- MODULE VfsSpec -------------------------------
(* What the file system of src/virtual_file_system.c promises about the      *)
(* contents of its files, without blocks: a file holds the last content      *)
(* written to it.  A write that does not fit, even with the space of the     *)
(* content it replaces, loses that content; nothing else disturbs a file.    *)
EXTENDS Integers, Sequences

CONSTANTS
    Files,        \* identities a file can have
    Contents,     \* what can be written
    NUM_BLOCKS, BLOCK_SIZE,
    NoFile, Lost  \* not a file; a file whose content was lost

VARIABLES
    content,  \* file -> its content
    free,     \* number of free blocks
    reply     \* answer to the last command: a status, and the data read

vars == <<content, free, reply>>

answer(s) == [status |-> s, data |-> <<>>]

blocksNeeded(c) == (Len(c) + BLOCK_SIZE - 1) \div BLOCK_SIZE
held(f) == IF content[f] \in {NoFile, Lost} THEN 0 ELSE blocksNeeded(content[f])

Init ==
    /\ content = [f \in Files |-> NoFile]
    /\ free = NUM_BLOCKS
    /\ reply = answer("ok")

Create(f) ==
    /\ content[f] = NoFile
    /\ content' = [content EXCEPT ![f] = <<>>]
    /\ reply' = answer("ok")
    /\ UNCHANGED free

Write(f, c) ==
    /\ content[f] # NoFile
    /\ LET room == free + held(f)
       IN  \/ /\ blocksNeeded(c) <= room
              /\ content' = [content EXCEPT ![f] = c]
              /\ free' = room - blocksNeeded(c)
              /\ reply' = answer("ok")
           \/ /\ blocksNeeded(c) > room
              /\ content' = [content EXCEPT ![f] =
                                IF @ = <<>> THEN <<>> ELSE Lost]
              /\ free' = room
              /\ reply' = answer("nospace")

Read(f) ==
    /\ content[f] # NoFile
    /\ reply' = [status |-> "data",
                 data |-> IF content[f] = Lost THEN <<>> ELSE content[f]]
    /\ UNCHANGED <<content, free>>

Delete(f) ==
    /\ content[f] # NoFile
    /\ content' = [content EXCEPT ![f] = NoFile]
    /\ free' = free + held(f)
    /\ reply' = answer("ok")

\* A directory command, or a refused one.
Other ==
    /\ reply' \in {answer("ok"), answer("error")}
    /\ UNCHANGED <<content, free>>

\* Leaving the program releases everything.
Exit ==
    /\ content' = [f \in Files |-> NoFile]
    /\ reply' = answer("exit")
    /\ UNCHANGED free

Next ==
    \/ \E f \in Files : Create(f) \/ Read(f) \/ Delete(f)
    \/ \E f \in Files, c \in Contents : Write(f, c)
    \/ Other \/ Exit

Spec == Init /\ [][Next]_vars

=============================================================================
