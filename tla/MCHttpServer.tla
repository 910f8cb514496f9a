---------------------------- MODULE MCHttpServer ---------------------------
(***************************************************************************)
(* HttpServer with two slots, three threads and one request of each fate.  *)
(***************************************************************************)
EXTENDS HttpServer

Fine == [length |-> "fits", loopback |-> TRUE, target |-> "complete",
         browser |-> FALSE, json |-> TRUE, body |-> "valid"]

MCShapes == {Fine,
             [Fine EXCEPT !.target = "healthz"],
             [Fine EXCEPT !.browser = TRUE],
             [Fine EXCEPT !.json = FALSE],
             [Fine EXCEPT !.loopback = FALSE],
             [Fine EXCEPT !.body = "malformed"],
             [Fine EXCEPT !.body = "broken"],
             [Fine EXCEPT !.length = "large"]}
=============================================================================
