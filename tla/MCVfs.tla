-------------------------------- MODULE MCVfs --------------------------------
(* Bounded instances of Vfs.                                                 *)
EXTENDS VfsProperties

\* "cut+" stands for a name longer than MAX_NAME_LEN that starts with "cut".
MCTruncated == [n \in Names |-> IF n = "cut+" THEN "cut" ELSE n]

\* Two directories with the longer name do not fit into a buffer of six bytes.
MCNameLen == [n \in Names |-> IF n \in {"cut", "cut+"} THEN 2 ELSE 1]

\* No block, a part of one, exactly one, and one and a half.
MCContents == { <<>>, <<1>>, <<2, 2>>, <<1, 2, 2>> }

\* For the run about the number of blocks only.
MCLengths == { <<>>, <<1, 1>>, <<1, 1, 1>> }

=============================================================================
