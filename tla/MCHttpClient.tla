---------------------------- MODULE MCHttpClient ----------------------------
(* A content of three bytes, in two pieces.                                 *)
EXTENDS HttpClient

MCPieces == <<<<"a", "b">>, <<"c">>>>
=============================================================================
