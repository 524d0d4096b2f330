----------------------------- MODULE MCSession -----------------------------
(* A small instance of Session: two callers sharing one handle.            *)
EXTENDS Session
=============================================================================
