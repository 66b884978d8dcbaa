------------------------------ MODULE QueueOps ------------------------------
(***************************************************************************)
(* Python's list edits on the command queues of the two-component agent    *)
(* architecture: a list comprehension that keeps what is not selected, and *)
(* the pops that amount to it.  Stated as a relation, so that what is      *)
(* proved of it needs no induction over sequences.                         *)
(***************************************************************************)
EXTENDS Naturals, Sequences, Functions

(* r is what is left of q, in order, without the elements of S.            *)
IsWithout(r, q, S) ==
  \E f \in [1..Len(r) -> 1..Len(q)] :
    /\ \A i, j \in 1..Len(r) : i < j => f[i] < f[j]
    /\ {f[i] : i \in 1..Len(r)} = {k \in 1..Len(q) : q[k] \notin S}
    /\ \A i \in 1..Len(r) : r[i] = q[f[i]]

(* The sequences no longer than q over q's elements, and the ones (there   *)
(* is one) that are q without S.                                           *)
SubLists(q) == UNION {[1..n -> Range(q)] : n \in 0..Len(q)}
Without(q, S) == {r \in SubLists(q) : IsWithout(r, q, S)}
=============================================================================
