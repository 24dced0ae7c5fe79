----------------------------- MODULE MCMetadata -----------------------------
(***************************************************************************)
(* A running benchmark of two iterations beside one directory of earlier   *)
(* results: a copy, results without a ledger, an unreadable definition,    *)
(* another storage target.                                                 *)
(***************************************************************************)
EXTENDS Metadata

CONSTANTS running, archived, out, replayed

MCPlan == <<[id |-> 1, shape |-> <<1, 1>>, want |-> 2, readable |-> TRUE]>>

Key(nodes, tasks0, stamp, iter) ==
    [nodes |-> nodes, tasks |-> tasks0, stamp |-> stamp, iter |-> iter]

Keys == {Key(1, 1, 2, 1), Key(1, 1, 2, 2), Key(2, 1, 1, 1),
         Key(1, 1, 1, 1), Key(2, 2, 1, 1)}

\* Rates in fine units, three of them in the document's.
Sample(a, b, h) == [op \in ToSet(Operations) |->
    [rate |-> IF op = "WRITE" THEN a ELSE b, hist |-> h]]

MCMeasured == [k \in Keys |->
    CASE k = Key(1, 1, 2, 1) -> Sample(40, 4, [x \in {5} |-> 3])
      [] k = Key(1, 1, 2, 2) -> Sample(11, 0, [x \in {5, 9} |-> 1])
      [] k = Key(2, 1, 1, 1) -> Sample(40, 7, [x \in {9} |-> 2])
      [] k = Key(1, 1, 1, 1) -> Sample(14, 3, [x \in {2, 5} |-> 2])
      [] k = Key(2, 2, 1, 1) -> Sample(16, 5, [x \in {7} |-> 1])]

Done == [rows |-> 3, torn |-> FALSE, out |-> 3]

Exec(id, shape, readable) == [id |-> id, shape |-> shape, want |-> 1, readable |-> readable]

MCArchives ==
    {\* a copy of the running benchmark's first iteration and another result,
     \* without their ledgers
     [ledger |-> <<>>, status |-> [i \in {} |-> None],
      files |-> [k \in {Key(1, 1, 2, 1), Key(2, 1, 1, 1)} |-> Done], target |-> "x", want |-> None],
     \* another run; one definition cannot be read
     [ledger |-> <<Exec(1, <<1, 1>>, TRUE), Exec(2, <<2, 2>>, FALSE)>>,
      status |-> [i \in {1, 2} |-> "success"],
      files |-> [k \in {Key(1, 1, 1, 1), Key(2, 2, 1, 1)} |-> Done], target |-> "x", want |-> 1],
     \* another target that happens to hold the same iteration; one execution
     \* failed after its files were written
     [ledger |-> <<Exec(1, <<1, 1>>, TRUE), Exec(2, <<2, 2>>, TRUE)>>,
      status |-> [i \in {1, 2} |-> IF i = 1 THEN "success" ELSE "failed"],
      files |-> [k \in {Key(1, 1, 2, 1), Key(2, 2, 1, 1)} |-> Done],
      target |-> "y", want |-> 1]}

MCOptions ==
    {[nodes |-> {}, complete |-> TRUE, mixed |-> TRUE],
     [nodes |-> {1}, complete |-> FALSE, mixed |-> FALSE]}

MCInputs == {<<running>>, <<archived, running>>}

=============================================================================
