--------------------------- MODULE MCPythonDirect ---------------------------
(* Small instances of PythonDirect for TLC. *)
EXTENDS PythonDirect

CONSTANTS c1, c2

TwoCallers == {c1, c2}
OneCaller  == {c1}

(* A grandchild holding no pipe, or either one until it closes it, or      *)
(* forever.                                                                *)
AnyHolder  == {{}, {"stdout"}, {"stderr"}}
NoHolder   == {{}}
(* A pipe that takes nothing until the server reads, and one that takes    *)
(* all that MaxRequests calls and a close can write.                       *)
AnyRoom    == {0, MaxRequests + 1}
WideRoom   == {MaxRequests + 1}
NoStderr   == {"none"}
AnyStderr  == {"none", "running"}
=============================================================================
