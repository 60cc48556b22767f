----------------------------- MODULE MCPullReplica -----------------------------
(* Two objects, three mutation ids that may each be sent again and again, and   *)
(* pages of one change, so that a pull needs several requests while rows move   *)
(* ahead of the page being applied.                                             *)
EXTENDS PullReplica

MCRevision == 0 .. 2
================================================================================
