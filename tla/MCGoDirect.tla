----------------------------- MODULE MCGoDirect -----------------------------
(* Small instances of GoDirect for TLC. *)
EXTENDS GoDirect

CONSTANTS c1, c2

TwoCallers == {c1, c2}
OneCaller  == {c1}

NoHolder   == {{}}
(* None, or a grandchild holds stderr until it closes it, or forever.      *)
AnyHolder  == {{}, {"stderr"}}
(* A pipe that takes nothing until the server reads, and one that takes    *)
(* all that MaxRequests calls and a close can write.                       *)
AnyRoom    == {0, MaxRequests + 1}
WideRoom   == {MaxRequests + 1}
Unread     == {"unread"}
NoBytes    == {"none"}
AnyCtx     == {"background", "live"}
Cancellable == {"live"}

(* Bound: the context that can end, and a narrow pipe, are tried apart and *)
(* without a grandchild.                                                   *)
MCInit     == /\ Init
              /\ openCtx = "live" => room > 0 /\ holders = {}
              /\ room = 0 => holders = {}
MCFairSpec == MCInit /\ [][Next]_vars /\ Fairness
=============================================================================
