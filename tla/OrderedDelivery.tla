-------------------------- MODULE OrderedDelivery --------------------------
(***************************************************************************)
(* What a flow promises about the results of its N candidates: they reach  *)
(* the tables in candidate order, none twice and none skipped, a batch at  *)
(* a time; the flow reports success only when all of them have, and it may *)
(* fail at any moment, with the prefix it has delivered.                   *)
(*                                                                         *)
(* Results are numbered by their candidate.                                *)
(***************************************************************************)
EXTENDS Naturals, Sequences

CONSTANT N  \* number of candidates, a natural number

VARIABLES
    delivered, \* the results handed over so far, in order
    status     \* "running", "returned" or "raised"

\* The first n results, in candidate order.
Prefix(n) == [i \in 1 .. n |-> i]

Init == delivered = <<>> /\ status = "running"

\* At least one more result arrives.
Deliver ==
    /\ status = "running"
    /\ \E n \in Len(delivered) + 1 .. N : delivered' = Prefix(n)
    /\ status' = status

Return ==
    /\ status = "running"
    /\ delivered = Prefix(N)
    /\ status' = "returned"
    /\ UNCHANGED delivered

\* A failure may strike before or after the batch at hand has arrived.
Raise ==
    /\ status = "running"
    /\ \E n \in Len(delivered) .. N : delivered' = Prefix(n)
    /\ status' = "raised"

Next == Deliver \/ Return \/ Raise

Spec == Init /\ [][Next]_<<delivered, status>>
=============================================================================
