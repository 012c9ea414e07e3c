----------------------------- MODULE MCImageLoading -----------------------------
(* Two elements and two URLs: Straight serves each URL as itself, Redirect *)
(* serves both as b.                                                       *)
EXTENDS ImageLoading

CONSTANTS a, b

MCNodes == {1, 2}
MCUrls == {a, b}
Straight == [u \in MCUrls |-> u]
Redirect == [u \in MCUrls |-> b]
NoUrls == {}
OnlyB == {b}
=============================================================================
