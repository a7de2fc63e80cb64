------------------------------ MODULE MCDaemon ------------------------------
(***************************************************************************)
(* Instances of Daemon: clients that come and go, and updates that nest or *)
(* follow each other.  There is a token for each of two nested updates and *)
(* one for the clients.                                                    *)
(***************************************************************************)
EXTENDS Daemon

Tokens == 1..3
=============================================================================
