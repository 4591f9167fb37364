---------------------------- MODULE MCHttpServer ----------------------------
(* Small instances of HttpServer for TLC. *)
EXTENDS HttpServerInvariant
Everybody == {"plain", "resilient", "builtin"}
Plain == {"plain"}
Resilient == {"resilient"}
=============================================================================
