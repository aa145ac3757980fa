------------------------------ MODULE Selection ------------------------------
(***************************************************************************)
(* Parts of a sequence, in the order of the sequence.                      *)
(***************************************************************************)
EXTENDS SequencesExt

\* The elements of q that are in S
Only(q, S) ==
    LET first[n \in 0 .. Len(q)] ==      \* those among the first n of q
            IF n = 0 THEN <<>>
            ELSE IF q[n] \in S THEN Append(first[n - 1], q[n]) ELSE first[n - 1]
    IN first[Len(q)]

\* The elements of q that are not in S
Without(q, S) == Only(q, ToSet(q) \ S)
=============================================================================
