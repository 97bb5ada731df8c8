----------------------------- MODULE MCStartup ------------------------------
(* Small instances of Startup. *)
EXTENDS Startup

CONSTANTS a, b, c

\* Two replicas of one image, and one of an image that edited its file and added
\* another.
MCImage ==
    [x \in {a, b, c} |->
        IF x = c THEN [f \in 1 .. 2 |-> IF f = 1 THEN "edited" ELSE "first"]
        ELSE [f \in 1 .. 2 |-> IF f = 2 THEN "none" ELSE "first"]]
=============================================================================
