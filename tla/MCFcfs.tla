------------------------------- MODULE MCFcfs -------------------------------
(* Bounded instances of FcfsScheduler.                                       *)
EXTENDS FcfsProperties

line(p, b, s, d) == [pid |-> p, burst |-> b, ioStart |-> s, ioDuration |-> d]
kill_line(p, t) == [pid |-> p, killTime |-> t]

\* Pids 1 and 3 share a bucket of two; pid 3 can be read more than once.  I/O of
\* one tick and of three, none, and one that would start after the burst; and two
\* lines whose process never completes: no burst, though an I/O that it never gets
\* to, and an I/O of negative length.
MCDescriptors == { line(1, 2, 1, 3), line(3, 1, 0, 0), line(3, 3, 1, 1),
                   line(2, 2, 2, 2), line(1, 0, 1, 1), line(2, 2, 1, -1) }

\* A kill at the first tick, one at a busy tick, one at a waiting process.
MCKillLines == { kill_line(3, 0), kill_line(3, 2), kill_line(1, 2) }

=============================================================================
