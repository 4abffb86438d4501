----------------------------- MODULE MCEventLoop -----------------------------
(* Two clients and two descriptors for the constants of EventLoop.         *)
EXTENDS EventLoop

CONSTANTS k1, k2

=============================================================================
