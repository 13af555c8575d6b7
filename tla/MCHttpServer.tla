----------------------------- MODULE MCHttpServer -----------------------------
(* Instances of HttpServer.                                                    *)
EXTENDS HttpServer

CONSTANTS p1, p2, h1, h2, q1, q2, c1, f1

MCPaths == {p1, p2}
MCHandlers == {h1, h2}
MCRequests == {q1, q2}
MCContents == {c1, f1}
MCFormats == {f1}
=============================================================================
