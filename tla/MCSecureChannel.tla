--------------------------- MODULE MCSecureChannel ---------------------------
(* Instances of SecureChannel for TLC. *)
EXTENDS SecureChannel

Plan(first, up, down, size, breaks) == [first |-> first, up |-> up, down |-> down, queue |-> size, breaks |-> breaks]

\* One link that may break and another that replaces it or joins it; two links
\* from the start, over which frames race.
SecurePlans == {Plan({"l1"}, 3, 3, 3, TRUE), Plan({"l1", "l2"}, 4, 3, 1, FALSE)}

\* One link that may break, with a fifth frame of the client.
TailPlans == {Plan({"l1"}, 5, 3, 3, TRUE)}
\* Two links without breaks.
ThreadPlans == {Plan({"l1", "l2"}, 4, 2, 2, FALSE)}
=============================================================================
