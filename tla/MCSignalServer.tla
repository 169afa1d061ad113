--------------------------- MODULE MCSignalServer ---------------------------
(***************************************************************************)
(* Instances of SignalServer with one person.  MCPageOf: the page `old`    *)
(* and its successor `new`, which may hold two signalling connections at   *)
(* once (the second reconnects before the first was seen to fall).         *)
(***************************************************************************)
EXTENDS SignalServer

CONSTANTS ana, s1, s2, s3, k1, k2, old, new

MCPeerOf == [c \in Channels |-> ana]
MCPageOf == [c \in Channels |-> IF c \in {s1, k1} THEN old ELSE new]
=============================================================================
