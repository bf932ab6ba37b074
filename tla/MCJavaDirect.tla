---------------------------- MODULE MCJavaDirect ----------------------------
(* Small instances of JavaDirect for TLC. *)
EXTENDS JavaDirect

CONSTANTS c1, c2

TwoCallers == {c1, c2}
OneCaller  == {c1}

(* No grandchild, or one that holds stderr until it closes it, or forever. *)
AnyHolder  == {{}, {"stderr"}}
NoHolder   == {{}}
(* A pipe that takes nothing until the server reads, and one that takes    *)
(* all that MaxRequests calls and a close can write.                       *)
AnyRoom    == {0, MaxRequests + 1}
WideRoom   == {MaxRequests + 1}
NoStderr   == {"none"}
AnyStderr  == {"none", "running"}

(* Bound: interrupts, or a narrow pipe, or a grandchild.                   *)
MCInit     == /\ Init
              /\ left > 0 => room > 0 /\ stderrThread = "running" /\ holders = {}
              /\ left = 0 => (room = 0) = (holders = {})
              /\ room = 0 => stderrThread = "none"
              /\ holders # {} => stderrThread = "running"
MCFairSpec == MCInit /\ [][Next]_vars /\ Fairness
=============================================================================
