---------------------------- MODULE MCRmLifecycle ----------------------------
(* The two programs of p3, their threads' starts and ends included, for TLC. *)
EXTENDS RmLifecycle, MCRmApps
===============================================================================
