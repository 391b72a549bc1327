----------------------------- MODULE MCWebHost -----------------------------
(* WebHost for TLC.                                                        *)
EXTENDS WebHost

OnePort == [k \in Kind |-> 5000]
=============================================================================
