---------------------------- MODULE MCRustDirect ----------------------------
(* Small instances of RustDirect for TLC. *)
EXTENDS RustDirect

(* A grandchild holding no pipe, or either one.                            *)
AnyHolder   == {{}, {"stdout"}, {"stderr"}}
(* A pipe that takes nothing until the server reads, and one that takes    *)
(* all that MaxRequests calls and a close can write.                       *)
AnyRoom     == {0, MaxRequests + 1}
(* A grandchild holding stderr, until it closes it or forever.             *)
StderrHolder == {{"stderr"}}
AnyStderr   == {"none", "running"}
=============================================================================
