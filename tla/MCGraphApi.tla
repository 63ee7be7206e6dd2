----------------------------- MODULE MCGraphApi -----------------------------
(* Model values and bounds for GraphApi.                                   *)
EXTENDS GraphApi
CONSTANTS a, b, c
MCIds == {a, b, c}
=============================================================================
