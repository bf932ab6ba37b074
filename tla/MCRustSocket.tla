---------------------------- MODULE MCRustSocket ----------------------------
(* The instance of RustSocket that TLC checks.                             *)
EXTENDS RustSocket

(* Bound: lines at the limit and one byte beyond it.                       *)
MCLineLengths == {1, 2}
MCTimeouts    == {0, 1}
MCAddrChoices == {0, 2}

(* Bound: a stream that does not poll takes a request at once, or the      *)
(* write fails.                                                            *)
MCInit     == Init /\ (polls \/ fits)
MCFairSpec == MCInit /\ [][Next]_vars /\ WF_vars(OwnerStep)
=============================================================================
