---------------------------- MODULE MCHelperServer ----------------------------
(***************************************************************************)
(* Two connections, the SIGTERM thread and two session ids.                *)
(***************************************************************************)
EXTENDS HelperServer

CONSTANTS conn1, conn2, s1, s2
===============================================================================
