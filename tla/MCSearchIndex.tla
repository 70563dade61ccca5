---------------------------- MODULE MCSearchIndex ----------------------------
(* Instances of SearchIndex for TLC. *)
EXTENDS SearchIndex

CONSTANTS a1, a2

\* One event in each of two accounts, or both in the first.
Apart == [d \in Docs |-> IF d = 1 THEN a1 ELSE a2]
Together == [d \in Docs |-> a1]

=============================================================================
