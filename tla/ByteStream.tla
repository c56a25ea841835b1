----------------------------- MODULE ByteStream -----------------------------
(***************************************************************************)
(* What one direction of a proxied connection promises to the two          *)
(* applications at its ends: the bytes come out in the order they went in, *)
(* each once, and the end of the stream comes out after all of them.  Once *)
(* something has broken the stream may end early, but it never skips,      *)
(* repeats or reorders.                                                    *)
(***************************************************************************)
EXTENDS Naturals, Sequences, SequencesExt

CONSTANT Byte   \* what may be sent

VARIABLES
    produced,   \* all bytes sent so far
    closed,     \* the sender has ended the stream
    consumed,   \* all bytes received so far
    ended,      \* the receiver has seen the end
    broken      \* something between them has failed

vars == <<produced, closed, consumed, ended, broken>>

Init ==
    /\ produced = <<>>
    /\ closed = FALSE
    /\ consumed = <<>>
    /\ ended = FALSE
    /\ broken = FALSE

Produce ==
    /\ ~closed
    /\ \E b \in Byte : produced' = Append(produced, b)
    /\ UNCHANGED <<closed, consumed, ended, broken>>

Close ==
    /\ ~closed
    /\ closed' = TRUE
    /\ UNCHANGED <<produced, consumed, ended, broken>>

\* Any number of the bytes under way may come out together, the last of them while the
\* stream breaks.
Consume ==
    /\ ~ended
    /\ \E n \in Len(consumed) + 1 .. Len(produced) : consumed' = SubSeq(produced, 1, n)
    /\ broken' \in {broken, TRUE}
    /\ UNCHANGED <<produced, closed, ended>>

Break ==
    /\ broken' = TRUE
    /\ UNCHANGED <<produced, closed, consumed, ended>>

End ==
    /\ ~ended
    /\ broken \/ (closed /\ consumed = produced)
    /\ ended' = TRUE
    /\ UNCHANGED <<produced, closed, consumed, broken>>

Next == Produce \/ Close \/ Consume \/ Break \/ End

Spec == Init /\ [][Next]_vars

=============================================================================
