---------------------------- MODULE MCLiveSource ----------------------------
(***************************************************************************)
(* Instances of LiveSource for TLC.                                        *)
(***************************************************************************)
EXTENDS LiveSource

CONSTANTS u1, s2

\* Two publishers compete for u1, which the clients ask for too; another
\* stream is only published, by s2, and its destroy task may be queued behind
\* that of u1.
MCAsks == [c \in Session \cup Client |-> IF c = s2 THEN Url ELSE {u1}]
=============================================================================
