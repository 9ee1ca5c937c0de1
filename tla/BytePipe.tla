------------------------------ MODULE BytePipe ------------------------------
(***************************************************************************)
(* What a writable stream promises its user, whatever buffers it: bytes    *)
(* come out in the order in which they were accepted, none is lost or      *)
(* repeated, the pipe asks its user to pause when too much is underway,    *)
(* resumes it only when everything came out, and reports the end when end  *)
(* was requested and everything came out.                                  *)
(***************************************************************************)
EXTENDS Naturals

CONSTANT HighWaterMark

VARIABLES acc,     \* bytes accepted; they are numbered 0, 1, ..., acc - 1
          out,     \* bytes that came out: the first `out` of them
          paused,  \* the user was told to wait
          fin,     \* the user requested the end
          closed   \* the end was reported

pipe == <<acc, out, paused, fin, closed>>

PipeInit == /\ acc = 0 /\ out = 0
            /\ paused = FALSE /\ fin = FALSE /\ closed = FALSE

\* The user hands over some bytes, and may request the end with them; the pipe
\* may tell him to wait, and does when the high water mark is reached.
Accept == /\ ~fin
          /\ acc' \in Nat /\ acc' >= acc
          /\ fin' \in BOOLEAN
          /\ paused' \in {paused, TRUE}
          /\ ~paused' => acc' = out \/ acc' - out < HighWaterMark
          /\ UNCHANGED <<out, closed>>

\* Bytes come out; with the last one the pipe may resume its user, or report
\* the end.
Emit == /\ out' \in Nat /\ out' >= out /\ out' <= acc
        /\ \/ UNCHANGED <<paused, closed>>
           \/ out' = acc /\ fin /\ closed' = TRUE /\ UNCHANGED paused
           \/ out' = acc /\ ~fin /\ paused' = FALSE /\ UNCHANGED closed
        /\ UNCHANGED <<acc, fin>>

PipeSpec == /\ PipeInit /\ [][Accept \/ Emit]_pipe
            /\ (fin ~> closed)
            /\ (paused ~> (~paused \/ closed))

=============================================================================
