------------------------- MODULE MC_MessageBuffer -------------------------
(* Instances of MessageBuffer for TLC: three inbound and two outbound      *)
(* messages, all model values.                                            *)
EXTENDS MessageBuffer, TLC

CONSTANTS m1, m2, m3, o1, o2
=============================================================================
