------------------------------ MODULE MCServer ------------------------------
(* Three phones: one is served, one waits in the backlog, one comes late.  *)
EXTENDS Server
=============================================================================
