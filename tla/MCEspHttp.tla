----------------------------- MODULE MCEspHttp -----------------------------
(* Instance of EspHttp: a POST in two pieces, a PATCH in two, a POST to an *)
(* url nobody handles and a GET, on two request objects.                   *)
EXTENDS EspHttp

MCClient == {"post", "patch", "lost", "get"}
MCMethod == [c \in MCClient |-> CASE c = "patch" -> "PATCH" [] c = "get" -> "GET" [] OTHER -> "POST"]
MCPieces == [c \in MCClient |-> CASE c = "get" -> 0 [] c = "lost" -> 1 [] OTHER -> 2]
=============================================================================
