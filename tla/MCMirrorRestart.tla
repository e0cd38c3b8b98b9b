--------------------------- MODULE MCMirrorRestart ----------------------------
(* MirrorRestart for TLC, on the instances of MCNeighMirror.               *)
EXTENDS MCNeighMirror, MirrorRestart
=============================================================================
