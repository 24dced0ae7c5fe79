------------------------------ MODULE MCImages ------------------------------
(***************************************************************************)
(* One fixture with deaths, or two without on a host that has the base     *)
(* image; the tag named an image before.                                   *)
(***************************************************************************)
EXTENDS Images

CONSTANTS f1, f2

MCFixtures == {f1, f2}

MCInit ==
    /\ Init
    /\ At(f1, "idle")
    /\ pinned = At(f2, "idle")
    /\ faults = IF At(f2, "idle") THEN MaxFaults ELSE 0

MCSpec == MCInit /\ [][Next]_vars /\ \A f \in Fixtures : WF_vars(Step(f))
=============================================================================
