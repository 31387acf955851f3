----------------------------- MODULE MCStartup -----------------------------
(* A small instance of Startup.                                            *)
EXTENDS Startup

CONSTANTS p1, p2
=============================================================================
