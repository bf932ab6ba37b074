------------------------- MODULE MCTypeScriptDirect -------------------------
(* Small instances of TypeScriptDirect for TLC. *)
EXTENDS TypeScriptDirect

(* A grandchild holding no pipe, or either one until it closes it, or      *)
(* forever.                                                                *)
AnyHolder  == {{}, {"stdout"}, {"stderr"}}
StdoutHeld == {{"stdout"}}
(* A pipe that takes nothing until the server reads, and one that takes    *)
(* all that MaxRequests calls and a close can write.                       *)
AnyRoom    == {0, MaxRequests + 1}
WideRoom   == {MaxRequests + 1}
NoStderr   == {"none"}
AnyStderr  == {"none", "piped"}

(* Bound: a grandchild is tried with a wide pipe only, and holds stderr    *)
(* only where it is piped.                                                 *)
MCInit     == Init /\ (room = 0 => holders = {})
                   /\ ("stderr" \in holders => stderr = "piped")
MCFairSpec == MCInit /\ [][Next]_vars /\ Fairness
=============================================================================
