---------------------------- MODULE MCHttpClient ----------------------------
(***************************************************************************)
(* Three calls over two connections, enough for a connection to fail under *)
(* one call, be handed to a second and a third.                            *)
(***************************************************************************)
EXTENDS HttpClient
=============================================================================
