------------------------------ MODULE MCHttpConn ------------------------------
(* A small instance of HttpConn: more clients than slots, so that one is refused. *)
EXTENDS HttpConn
=============================================================================
