---------------------------- MODULE MCConnectors ----------------------------
(* Instances of Connectors for TLC.                                        *)
EXTENDS Connectors

CONSTANTS s1, s2, e1

TwoSessions == {s1, s2}
OneEditor == {e1}
OneKey == {"metric"}
=============================================================================
