---------------------------- MODULE MCDurability ----------------------------
(* Instances of Durability for TLC.                                        *)
EXTENDS Durability

NoFaults    == {}
\* Every error except a failed append to the log (see FailedAppend.cfg).
MostFaults  == {"sync", "close", "build", "manifest"}
AppendFault == {"append"}
AllFaults   == MostFaults \cup AppendFault
=============================================================================
