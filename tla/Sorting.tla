------------------------------ MODULE Sorting ------------------------------
(***************************************************************************)
(* Python's sorted(..., key = ...) of the members of a set, smallest key   *)
(* first, those with the same key in some order.  A key is a pair of       *)
(* numbers: the files of logscan/directory.py are ordered by date and      *)
(* name, the rows of the items of the server log by rank and time.         *)
(***************************************************************************)
EXTENDS Integers, FiniteSets, Functions

NotAfter(k, l) == k[1] < l[1] \/ (k[1] = l[1] /\ k[2] <= l[2])
Sorted(S, key) ==
    CHOOSE s \in [1..Cardinality(S) -> S] :
        /\ IsInjective(s)
        /\ \A i, j \in DOMAIN s : i < j => NotAfter(key[s[i]], key[s[j]])

=============================================================================
