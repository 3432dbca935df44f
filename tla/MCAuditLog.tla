------------------------------ MODULE MCAuditLog ------------------------------
(* Instance of AuditLog for TLC *)
EXTENDS AuditLog

\* What Without leaves of a file is what filtering it would leave.
ASSUME WithoutSelects ==
    \A n \in 0..4 : \A named \in [1..n -> 1..4], ids \in SUBSET (1..4) :
        LET lines == [i \in 1..n |-> [id |-> named[i], prev |-> 0, attempts |-> 0]]
            unnamed(line) == line.id \notin ids
        IN  Without(lines, ids) = SelectSeq(lines, unnamed)
=============================================================================
